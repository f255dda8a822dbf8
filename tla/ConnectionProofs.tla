-------------------------- MODULE ConnectionProofs --------------------------
(* Theorems about Connection, for every value of its constants, and about    *)
(* ConnectionCallbacks, for callbacks of asynchronous writes.                *)
EXTENDS ConnectionCallbacks, TLAPS, SequenceTheorems, FiniteSetTheorems

-----------------------------------------------------------------------------
(* Sequences of bytes                                                        *)

(* What NextBuffer builds is a run of bytes. *)
LEMMA RunOfNumbers ==
  ASSUME NEW a \in Nat, NEW n \in Nat
  PROVE  LET s == [j \in 1..n |-> a + j]
         IN  s \in Seq(Bytes) /\ Len(s) = n /\ IsRun(s, a)
<1> DEFINE s == [j \in 1..n |-> a + j]
<1>1. \A j \in 1..n : a + j \in Bytes
  BY DEF Bytes
<1>2. s \in [1..n -> Bytes]
  BY <1>1
<1>3. s \in Seq(Bytes) /\ Len(s) = n
  BY <1>2
<1>4. IsRun(s, a)
  BY <1>3 DEF IsRun
<1> QED BY <1>3, <1>4

(* The parts of a byte sequence before and after its first k bytes. *)
LEMMA Parts ==
  ASSUME NEW s \in Seq(Bytes), NEW k \in 0..Len(s)
  PROVE  /\ SubSeq(s, 1, k) \in Seq(Bytes)
         /\ Len(SubSeq(s, 1, k)) = k
         /\ \A j \in 1..k : SubSeq(s, 1, k)[j] = s[j]
         /\ SkipTransferred(s, k) \in Seq(Bytes)
         /\ Len(SkipTransferred(s, k)) = Len(s) - k
         /\ \A j \in 1..Len(s) - k : SkipTransferred(s, k)[j] = s[k + j]
<1>1. \A i \in 1..Len(s) : s[i] \in Bytes
  BY ElementOfSeq
<1>2. Len(s) \in Nat /\ k \in Int
  BY LenProperties
<1>3. \A i \in 1..k : s[i] \in Bytes
  BY <1>1, <1>2
<1>4. \A i \in k + 1..Len(s) : s[i] \in Bytes
  BY <1>1, <1>2
<1>5. /\ SubSeq(s, 1, k) \in Seq(Bytes)
      /\ Len(SubSeq(s, 1, k)) = (IF 1 <= k THEN k - 1 + 1 ELSE 0)
      /\ \A i \in 1..k - 1 + 1 : SubSeq(s, 1, k)[i] = s[1 + i - 1]
  BY <1>2, <1>3, SubSeqProperties, 1 \in Int
<1>6. /\ SubSeq(s, k + 1, Len(s)) \in Seq(Bytes)
      /\ Len(SubSeq(s, k + 1, Len(s)))
           = (IF k + 1 <= Len(s) THEN Len(s) - (k + 1) + 1 ELSE 0)
      /\ \A i \in 1..Len(s) - (k + 1) + 1 :
            SubSeq(s, k + 1, Len(s))[i] = s[k + 1 + i - 1]
  BY <1>2, <1>4, SubSeqProperties, k + 1 \in Int
<1>7. Len(SubSeq(s, 1, k)) = k /\ \A j \in 1..k : SubSeq(s, 1, k)[j] = s[j]
  BY <1>2, <1>5
<1>8. /\ Len(SkipTransferred(s, k)) = Len(s) - k
      /\ \A j \in 1..Len(s) - k : SkipTransferred(s, k)[j] = s[k + j]
  BY <1>2, <1>6 DEF SkipTransferred
<1> QED BY <1>5, <1>6, <1>7, <1>8 DEF SkipTransferred

(* The parts of a run are runs. *)
LEMMA PartsOfRun ==
  ASSUME NEW s \in Seq(Bytes), NEW a \in Nat, IsRun(s, a),
         NEW k \in 0..Len(s)
  PROVE  IsRun(SubSeq(s, 1, k), a) /\ IsRun(SkipTransferred(s, k), a + k)
<1>1. Len(s) \in Nat
  BY LenProperties
<1>2. IsRun(SubSeq(s, 1, k), a)
  BY <1>1, Parts DEF IsRun
<1>3. ASSUME NEW j \in 1..Len(s) - k
      PROVE  SkipTransferred(s, k)[j] = a + k + j
  <2>1. k + j \in 1..Len(s)
    BY <1>1
  <2>2. SkipTransferred(s, k)[j] = s[k + j]
    BY Parts
  <2>3. s[k + j] = a + (k + j)
    BY <2>1 DEF IsRun
  <2> QED BY <1>1, <2>2, <2>3
<1>4. Len(SkipTransferred(s, k)) = Len(s) - k
  BY Parts
<1>5. IsRun(SkipTransferred(s, k), a + k)
  BY <1>3, <1>4 DEF IsRun
<1> QED BY <1>2, <1>5

(* A run followed by the run that continues it is a run. *)
LEMMA ConcatRuns ==
  ASSUME NEW s \in Seq(Bytes), NEW t \in Seq(Bytes), NEW a \in Nat,
         IsRun(s, a), IsRun(t, a + Len(s))
  PROVE  /\ s \o t \in Seq(Bytes)
         /\ Len(s \o t) = Len(s) + Len(t)
         /\ IsRun(s \o t, a)
<1>1. Len(s) \in Nat /\ Len(t) \in Nat
  BY LenProperties
<1>2. /\ s \o t \in Seq(Bytes)
      /\ Len(s \o t) = Len(s) + Len(t)
      /\ \A i \in 1..Len(s) + Len(t) :
            (s \o t)[i] = IF i <= Len(s) THEN s[i] ELSE t[i - Len(s)]
  BY ConcatProperties
<1>3. ASSUME NEW i \in 1..Len(s) + Len(t)
      PROVE  (s \o t)[i] = a + i
  <2>1. CASE i <= Len(s)
    BY <1>1, <1>2, <2>1 DEF IsRun
  <2>2. CASE i > Len(s)
    <3>1. i - Len(s) \in 1..Len(t)
      BY <1>1, <2>2
    <3>2. t[i - Len(s)] = a + Len(s) + (i - Len(s))
      BY <3>1 DEF IsRun
    <3> QED BY <1>1, <1>2, <2>2, <3>2
  <2> QED BY <1>1, <2>1, <2>2
<1> QED BY <1>2, <1>3 DEF IsRun
-----------------------------------------------------------------------------
(* The write queue                                                           *)

(* A fresh single_writable_sequence_t is an item. *)
LEMMA EmptyItemType == EmptyItem \in Item
<1>1. <<>> \in Seq(Bytes) /\ <<>> \in Seq(Nat)
  BY EmptySeq
<1> QED BY <1>1 DEF EmptyItem, Item

(* AppendBuffer adds the bytes and a boundary. *)
LEMMA AppendBufferFacts ==
  ASSUME NEW item \in Item, NEW bytes \in Seq(Bytes)
  PROVE  /\ AppendBuffer(item, bytes) \in Item
         /\ AppendBuffer(item, bytes).data = item.data \o bytes
         /\ AppendBuffer(item, bytes).ends # {}
         /\ AppendBuffer(item, bytes).cbs = item.cbs
<1>1. item.data \in Seq(Bytes) /\ item.ends \subseteq Nat /\ item.cbs \in Seq(Nat)
  BY DEF Item
<1>2. item.data \o bytes \in Seq(Bytes)
  BY <1>1, ConcatProperties
<1>3. Len(item.data) \in Nat /\ Len(bytes) \in Nat
  BY <1>1, LenProperties
<1>4. Len(item.data) + Len(bytes) \in Nat
  BY <1>3
<1> DEFINE d == item.data \o bytes
           e == item.ends \cup {Len(item.data) + Len(bytes)}
<1>5. d \in Seq(Bytes) /\ e \in SUBSET Nat /\ e # {}
  BY <1>1, <1>2, <1>4
<1>6. AppendBuffer(item, bytes) = [[item EXCEPT !.data = d] EXCEPT !.ends = e]
  BY DEF AppendBuffer, Size
<1> HIDE DEF d, e
<1>7. /\ AppendBuffer(item, bytes) \in Item
      /\ AppendBuffer(item, bytes).data = d
      /\ AppendBuffer(item, bytes).ends = e
      /\ AppendBuffer(item, bytes).cbs = item.cbs
  BY <1>5, <1>6 DEF Item
<1> QED BY <1>5, <1>7 DEF d

(* An item that takes no more buffers has some. *)
LEMMA FullHasBuffers ==
  ASSUME NEW item \in Item, ~CanAppendBuffer(item)
  PROVE  item.ends # {}
<1>1. SUFFICES ASSUME item.ends = {} PROVE FALSE
  OBVIOUS
<1>2. Cardinality(item.ends) = 0
  BY <1>1, FS_EmptySet
<1> QED BY <1>2, SizesAssumption DEF CanAppendBuffer

(* append_outgoing_buffer puts the bytes into the last item or into a new  *)
(* one behind it; no other item changes, and no callback moves.            *)
LEMMA AppendOutgoingFacts ==
  ASSUME NEW q \in Seq(Item), Len(q) >= 1, NEW bytes \in Seq(Bytes)
  PROVE  LET r == AppendOutgoingBuffer(q, bytes)
             n == Len(q)
         IN  /\ r \in Seq(Item)
             /\ \A i \in 1..n - 1 : r[i] = q[i]
             /\ \/ /\ Len(r) = n
                   /\ r[n].data = q[n].data \o bytes
                   /\ r[n].ends # {}
                   /\ r[n].cbs = q[n].cbs
                \/ /\ Len(r) = n + 1
                   /\ r[n].data = q[n].data
                   /\ r[n].ends # {}
                   /\ r[n].cbs = q[n].cbs
                   /\ q[n].ends # {}
                   /\ r[n + 1].data = bytes
                   /\ r[n + 1].ends # {}
                   /\ r[n + 1].cbs = <<>>
<1> DEFINE n == Len(q)
           compact == [q[n] EXCEPT !.ends = ConcatSmallBuffers(@)]
           back == IF ~CanAppendBuffer(q[n]) /\ n > 1 THEN compact ELSE q[n]
           kept == [q EXCEPT ![n] = back]
           r == AppendOutgoingBuffer(q, bytes)
<1>1. n \in Nat /\ n \in 1..n
  BY LenProperties
<1>2. q[n] \in Item
  BY <1>1, ElementOfSeq
<1>3. ConcatSmallBuffers(q[n].ends) \subseteq q[n].ends
  BY DEF ConcatSmallBuffers
<1>4. compact \in Item /\ compact.data = q[n].data /\ compact.ends \subseteq q[n].ends
      /\ compact.cbs = q[n].cbs
  BY <1>2, <1>3 DEF Item
<1>5. back \in Item /\ back.data = q[n].data /\ back.ends \subseteq q[n].ends
      /\ back.cbs = q[n].cbs
  BY <1>2, <1>4
<1>6. /\ kept \in Seq(Item)
      /\ Len(kept) = n
      /\ \A j \in 1..n : kept[j] = IF j = n THEN back ELSE q[j]
  BY <1>1, <1>5, ExceptSeq
<1>7. r = IF CanAppendBuffer(back)
          THEN [kept EXCEPT ![n] = AppendBuffer(back, bytes)]
          ELSE Append(kept, AppendBuffer(EmptyItem, bytes))
  BY DEF AppendOutgoingBuffer
<1> HIDE DEF back, kept, r, compact
<1>8. CASE CanAppendBuffer(back)
  <2> DEFINE b == AppendBuffer(back, bytes)
  <2>1. b \in Item /\ b.data = back.data \o bytes /\ b.ends # {}
        /\ b.cbs = back.cbs
    BY <1>5, AppendBufferFacts
  <2> HIDE DEF b
  <2>2. r = [kept EXCEPT ![n] = b]
    BY <1>7, <1>8 DEF b
  <2>3. /\ r \in Seq(Item)
        /\ Len(r) = n
        /\ \A j \in 1..n : r[j] = IF j = n THEN b ELSE kept[j]
    BY <1>1, <1>6, <2>1, <2>2, ExceptSeq
  <2>4. r[n] = b
    BY <1>1, <2>3
  <2>5. \A i \in 1..n - 1 : r[i] = q[i]
    BY <1>1, <1>6, <2>3
  <2> QED BY <1>5, <2>1, <2>3, <2>4, <2>5 DEF r
<1>9. CASE ~CanAppendBuffer(back)
  <2> DEFINE b == AppendBuffer(EmptyItem, bytes)
  <2>1. b \in Item /\ b.data = EmptyItem.data \o bytes /\ b.ends # {}
        /\ b.cbs = <<>>
    BY EmptyItemType, AppendBufferFacts DEF EmptyItem
  <2>2. EmptyItem.data \o bytes = bytes
    BY ConcatEmptySeq DEF EmptyItem
  <2> HIDE DEF b
  <2>3. r = Append(kept, b)
    BY <1>7, <1>9 DEF b
  <2>4. /\ r \in Seq(Item)
        /\ Len(r) = n + 1
        /\ \A i \in 1..n : r[i] = kept[i]
        /\ r[n + 1] = b
    BY <1>6, <2>1, <2>3, AppendProperties
  <2>5. r[n] = back
    BY <1>1, <1>6, <2>4
  <2>6. \A i \in 1..n - 1 : r[i] = q[i]
    BY <1>1, <1>6, <2>4
  <2>7. back.ends # {}
    BY <1>5, <1>9, FullHasBuffers
  <2>8. q[n].ends # {}
    BY <1>5, <2>7
  <2> QED BY <1>5, <2>1, <2>2, <2>4, <2>5, <2>6, <2>7, <2>8 DEF r
<1> QED BY <1>8, <1>9

(* freeze: an empty item behind the only one, or nothing. *)
LEMMA FreezeFacts ==
  ASSUME NEW q \in Seq(Item), Len(q) >= 1
  PROVE  /\ Freeze(q) \in Seq(Item)
         /\ Len(Freeze(q)) = (IF Len(q) = 1 THEN 2 ELSE Len(q))
         /\ \A i \in 1..Len(q) : Freeze(q)[i] = q[i]
         /\ Len(q) = 1 => Freeze(q)[2] = EmptyItem
<1>1. CASE Len(q) = 1
  <2>1. /\ Append(q, EmptyItem) \in Seq(Item)
        /\ Len(Append(q, EmptyItem)) = Len(q) + 1
        /\ \A i \in 1..Len(q) : Append(q, EmptyItem)[i] = q[i]
        /\ Append(q, EmptyItem)[Len(q) + 1] = EmptyItem
    BY EmptyItemType, AppendProperties
  <2> QED BY <1>1, <2>1 DEF Freeze
<1>2. CASE Len(q) # 1
  BY <1>2 DEF Freeze
<1> QED BY <1>1, <1>2

(* Callbacks keep the log of sends a log of sends. *)
LEMMA RunCallbacksType ==
  ASSUME NEW log \in Seq(SendRecord), NEW cbs, NEW result \in Results
  PROVE  RunCallbacks(log, cbs, result) \in Seq(SendRecord)
<1>1. Len(log) \in Nat /\ DOMAIN log = 1..Len(log)
  BY LenProperties
<1>2. ASSUME NEW s \in 1..Len(log)
      PROVE  [log[s] EXCEPT !.res = Append(@, result)] \in SendRecord
  <2>1. log[s] \in SendRecord
    BY ElementOfSeq
  <2>2. Append(log[s].res, result) \in Seq(Results)
    BY <2>1, AppendProperties DEF SendRecord
  <2> QED BY <2>1, <2>2 DEF SendRecord
<1>3. \A s \in 1..Len(log) : log[s] \in SendRecord
  BY ElementOfSeq
<1>4. RunCallbacks(log, cbs, result) \in [1..Len(log) -> SendRecord]
  BY <1>1, <1>2, <1>3 DEF RunCallbacks
<1> QED BY <1>1, <1>4
-----------------------------------------------------------------------------
(* Type correctness                                                          *)

(* start_watch_operation and cancel_watch_operation keep the type of the watchdog. *)
LEMMA WatchTypes ==
  ASSUME NEW w \in WatchState, NEW op \in Nat
  PROVE  StartWatch(w, op) \in WatchState /\ CancelWatch(w) \in WatchState
<1>1. w.key + 1 \in Nat
  BY DEF WatchState
<1>2. CASE Watchdog
  <2>1. StartWatch(w, op) = [armed |-> TRUE, key |-> w.key + 1, op |-> op]
    BY <1>2 DEF StartWatch
  <2>2. CancelWatch(w) = [[w EXCEPT !.armed = FALSE] EXCEPT !.key = w.key + 1]
    BY <1>2 DEF CancelWatch, CancelWatchTimes, WatchState
  <2>3. StartWatch(w, op) \in WatchState
    BY <1>1, <2>1 DEF WatchState
  <2>4. CancelWatch(w) \in WatchState
    BY <1>1, <2>2 DEF WatchState
  <2> QED BY <2>3, <2>4
<1>3. CASE ~Watchdog
  BY <1>3 DEF StartWatch, CancelWatch, CancelWatchTimes
<1> QED BY <1>2, <1>3

(* A watchdog that is cancelled several times in a row stays a watchdog.     *)
LEMMA CancelTimesType ==
  ASSUME NEW w \in WatchState, NEW n \in Nat
  PROVE  CancelWatchTimes(w, n) \in WatchState
<1>1. w.key + n \in Nat
  BY DEF WatchState
<1>2. Watchdog => CancelWatchTimes(w, n)
                    = [[w EXCEPT !.armed = FALSE] EXCEPT !.key = w.key + n]
  BY DEF CancelWatchTimes, WatchState
<1>3. ~Watchdog => CancelWatchTimes(w, n) = w
  BY DEF CancelWatchTimes
<1> QED BY <1>1, <1>2, <1>3 DEF WatchState

(* The handler calls shutdown() a natural number of times, none of them when *)
(* there is no handler.                                                      *)
LEMMA CallsFromHandlerType == \A n \in CallsFromHandler : n \in Nat /\ n + 1 \in Nat
BY HandlerAssumption DEF CallsFromHandler

(* shutdown_impl keeps the types of the flags and the watchdog. *)
LEMMA ShutdownImplType ==
  ASSUME TypeOK, NEW reason \in Reasons, NEW w \in WatchState,
         ShutdownImpl(reason, w)
  PROVE  /\ writeEnabled' \in BOOLEAN /\ readEnabled' \in BOOLEAN
         /\ shutReason' \in Reasons \cup {"none"} /\ notified' \in Nat
         /\ sock' \in {"open", "broken", "shut"}
         /\ watch' \in WatchState
<1>1. CASE ~ShutdownWasCalled
  <2>1. /\ writeEnabled' = FALSE /\ readEnabled' = FALSE /\ sock' = "shut"
        /\ shutReason' = reason
    BY <1>1 DEF ShutdownImpl
  <2>2. PICK n \in CallsFromHandler :
          /\ watch' = CancelWatchTimes(w, n + 1)
          /\ notified' = IF handler THEN notified + (n + 1) ELSE notified
    BY <1>1 DEF ShutdownImpl
  <2>3. n + 1 \in Nat
    BY CallsFromHandlerType
  <2>4. notified' \in Nat
    BY <2>2, <2>3 DEF TypeOK
  <2>5. watch' \in WatchState
    BY <2>2, <2>3, CancelTimesType
  <2> QED BY <2>1, <2>4, <2>5
<1>2. CASE ShutdownWasCalled
  BY <1>2 DEF TypeOK, ShutdownImpl, stateVars
<1> QED BY <1>1, <1>2

(* The first item, and the bytes of the next buffer. *)
LEMMA FrontType ==
  ASSUME TypeOK, Len(wq) >= 1
  PROVE  /\ Front \in Item /\ Front.data \in Seq(Bytes)
         /\ Size(Front) \in Nat /\ Size(Front) = Len(Front.data)
<1>1. wq \in Seq(Item) /\ 1 \in 1..Len(wq)
  BY LenProperties DEF TypeOK
<1>2. Front \in Item
  BY <1>1, ElementOfSeq DEF Front
<1>3. Front.data \in Seq(Bytes)
  BY <1>2 DEF Item
<1> QED BY <1>2, <1>3, LenProperties DEF Size

(* The next buffer of a send is a sequence of as many bytes as its size says. *)
LEMMA NextBufferType ==
  ASSUME TypeOK, call.todo # <<>>
  PROVE  /\ Head(call.todo) \in Nat \ {0}
         /\ Tail(call.todo) \in Seq(Nat \ {0})
         /\ NextBuffer \in Seq(Bytes)
         /\ Len(NextBuffer) = Head(call.todo)
         /\ IsRun(NextBuffer, accepted)
<1>1. Head(call.todo) \in Nat \ {0} /\ Tail(call.todo) \in Seq(Nat \ {0})
  BY HeadTailProperties DEF TypeOK
<1>2. accepted \in Nat
  BY DEF TypeOK
<1> QED BY <1>1, <1>2, RunOfNumbers DEF NextBuffer

(* A new connection is type correct. *)
LEMMA TypeInit == Init => TypeOK
<1> SUFFICES ASSUME Init PROVE TypeOK
  OBVIOUS
<1>1. <<>> \in Seq(Bytes) /\ <<>> \in Seq(Nat \ {0}) /\ <<>> \in Seq(SendRecord)
  BY EmptySeq
<1>2. <<EmptyItem>> \in Seq(Item)
  BY EmptyItemType
<1> QED BY <1>1, <1>2 DEF Init, TypeOK, AsyncWriteState, WatchState

(* schedule_send, accepted or rejected, keeps the types. *)
LEMMA SendType ==
  ASSUME TypeOK, Send
  PROVE  TypeOK'
<1>1. <<>> \in Seq(Results) /\ <<"rejected_schedule_send">> \in Seq(Results)
  BY EmptySeq DEF Results
<1>2. CASE \E sizes \in Shapes, cb \in CbOptions : ScheduleSend(sizes, cb)
  <2>1. PICK sizes \in Shapes, cb \in CbOptions : ScheduleSend(sizes, cb)
    BY <1>2
  <2>2. sizes \in Seq(Nat \ {0}) /\ cb \in BOOLEAN
    BY ShapesAssumption, OptionsAssumption
  <2>3. [cb |-> cb, from |-> accepted, upto |-> accepted, res |-> <<>>] \in SendRecord
    BY <1>1, <2>2 DEF TypeOK, SendRecord
  <2>4. sends' \in Seq(SendRecord)
    BY <2>1, <2>3, AppendProperties DEF TypeOK, ScheduleSend
  <2> QED BY <2>1, <2>2, <2>4 DEF TypeOK, ScheduleSend, stateVars, readVars, userVars
<1>3. CASE \E cb \in CbOptions : RejectSend(cb)
  <2>1. PICK cb \in CbOptions : RejectSend(cb)
    BY <1>3
  <2>2. cb \in BOOLEAN
    BY OptionsAssumption
  <2>3. [cb |-> cb, from |-> accepted, upto |-> accepted,
         res |-> IF cb THEN <<"rejected_schedule_send">> ELSE <<>>] \in SendRecord
    BY <1>1, <2>2 DEF TypeOK, SendRecord
  <2>4. sends' \in Seq(SendRecord)
    BY <2>1, <2>3, AppendProperties DEF TypeOK, RejectSend
  <2> QED BY <2>1, <2>4 DEF TypeOK, RejectSend, stateVars, readVars, userVars
<1> QED BY <1>2, <1>3 DEF Send

(* Taking a buffer keeps the types of what TakeBuffer writes. *)
LEMMA TakeBufferType ==
  ASSUME TypeOK, sends # <<>>, NEW aggr \in BOOLEAN, TakeBuffer(aggr)
  PROVE  /\ call' \in [todo : Seq(Nat \ {0}), aggr : BOOLEAN]
         /\ accepted' \in Nat
         /\ sends' \in Seq(SendRecord)
<1>1. Head(call.todo) \in Nat \ {0} /\ Tail(call.todo) \in Seq(Nat \ {0})
  BY NextBufferType DEF TakeBuffer
<1>2. accepted + Head(call.todo) \in Nat
  BY <1>1 DEF TypeOK
<1>3. Len(sends) \in 1..Len(sends) /\ sends \in Seq(SendRecord)
  BY EmptySeq DEF TypeOK
<1>4. sends[Len(sends)] \in SendRecord
  BY <1>3, ElementOfSeq
<1>5. [sends[Len(sends)] EXCEPT !.upto = accepted + Head(call.todo)] \in SendRecord
  BY <1>2, <1>4 DEF SendRecord
<1>6. sends' = [sends EXCEPT ![Len(sends)] =
                  [sends[Len(sends)] EXCEPT !.upto = accepted + Head(call.todo)]]
  BY DEF TakeBuffer
<1>7. sends' \in Seq(SendRecord)
  BY <1>3, <1>5, <1>6, ExceptSeq
<1> QED BY <1>1, <1>2, <1>7 DEF TakeBuffer

(* Taking a buffer of a send, and ending the send, keeps the types. *)
LEMMA AppendStepType ==
  ASSUME TypeOK, Len(wq) >= 1, sends # <<>>, AppendStep
  PROVE  TypeOK'
<1>1. CASE AggressiveWrite
  <2>1. /\ call' \in [todo : Seq(Nat \ {0}), aggr : BOOLEAN]
        /\ accepted' \in Nat
        /\ sends' \in Seq(SendRecord)
    BY <1>1, TakeBufferType DEF AggressiveWrite
  <2>2. wire' \in Seq(Bytes)
    BY <1>1, NextBufferType, ConcatProperties DEF AggressiveWrite, TakeBuffer, TypeOK
  <2> QED BY <1>1, <2>1, <2>2 DEF TypeOK, AggressiveWrite, TakeBuffer, readVars, userVars
<1>2. ASSUME NEW k \in 0..Head(call.todo) - 1, NEW outcome \in {"open", "broken"},
             AggressivePartial(k, outcome)
      PROVE  TypeOK'
  <2>1. /\ call' \in [todo : Seq(Nat \ {0}), aggr : BOOLEAN]
        /\ accepted' \in Nat
        /\ sends' \in Seq(SendRecord)
    BY <1>2, TakeBufferType DEF AggressivePartial
  <2>2. NextBuffer \in Seq(Bytes) /\ k \in 0..Len(NextBuffer)
    <3>1. call.todo # <<>>
      BY <1>2, Zenon DEF AggressivePartial, TakeBuffer
    <3>2. /\ NextBuffer \in Seq(Bytes) /\ Head(call.todo) \in Nat
          /\ Len(NextBuffer) = Head(call.todo)
      BY <3>1, NextBufferType, Zenon
    <3> QED BY <3>2
  <2>3. SubSeq(NextBuffer, 1, k) \in Seq(Bytes) /\ SkipTransferred(NextBuffer, k) \in Seq(Bytes)
    BY <2>2, Parts
  <2>4. wire' \in Seq(Bytes)
    BY <1>2, <2>3, ConcatProperties DEF AggressivePartial, TypeOK
  <2>5. wq' \in Seq(Item)
    BY <1>2, <2>3, AppendOutgoingFacts DEF AggressivePartial, TypeOK
  <2> QED BY <1>2, <2>1, <2>4, <2>5
          DEF TypeOK, AggressivePartial, TakeBuffer, readVars, userVars
<1>3. CASE AppendOnly
  <2>1. /\ call' \in [todo : Seq(Nat \ {0}), aggr : BOOLEAN]
        /\ accepted' \in Nat
        /\ sends' \in Seq(SendRecord)
    BY <1>3, TakeBufferType DEF AppendOnly
  <2>2. NextBuffer \in Seq(Bytes)
    BY <1>3, NextBufferType DEF AppendOnly, TakeBuffer
  <2>3. wq' \in Seq(Item)
    BY <1>3, <2>2, AppendOutgoingFacts DEF AppendOnly, TypeOK
  <2> QED BY <1>3, <2>1, <2>3 DEF TypeOK, AppendOnly, TakeBuffer, readVars, userVars
<1>4. CASE AppendDone
  <2>1. <<>> \in Seq(Nat \ {0})
    BY EmptySeq
  <2>2. wq' \in Seq(Item)
    <3>1. wq \in Seq(Item) /\ Len(wq) \in 1..Len(wq) /\ Len(sends) \in Nat
      BY LenProperties DEF TypeOK
    <3>2. wq[Len(wq)] \in Item
      BY <3>1, ElementOfSeq
    <3>3. Append(wq[Len(wq)].cbs, Len(sends)) \in Seq(Nat)
      BY <3>1, <3>2, AppendProperties DEF Item
    <3>4. AppendCompletionCb(wq[Len(wq)], Len(sends)) \in Item
      BY <3>2, <3>3 DEF AppendCompletionCb, Item
    <3>5. [wq EXCEPT ![Len(wq)] = AppendCompletionCb(@, Len(sends))] \in Seq(Item)
      BY <3>1, <3>4, ExceptSeq
    <3> QED BY <1>4, <3>1, <3>5 DEF AppendDone, CallbackItem
  <2>3. sends' \in Seq(SendRecord)
    BY <1>4, RunCallbacksType DEF AppendDone, TypeOK, Results
  <2>4. pc' \in {"idle", "append", "initiate"}
    BY <1>4 DEF AppendDone
  <2> QED BY <1>4, <2>1, <2>2, <2>3, <2>4
          DEF TypeOK, AppendDone, stateVars, readVars, userVars
<1> QED BY <1>1, <1>2, <1>3, <1>4 DEF AppendStep, TakeNextBuffer
(* after_write, both ways, for a queue with a first item. *)
LEMMA AfterWriteType ==
  ASSUME TypeOK, NEW q \in Seq(Item), q # <<>>,
         AfterWriteOk(q) \/ AfterWriteError(q),
         wire' \in Seq(Bytes), aw' \in AsyncWriteState
  PROVE  TypeOK'
<1>1. CancelWatch(watch) \in WatchState
  BY WatchTypes, 0 \in Nat DEF TypeOK
<1>2. sends \in Seq(SendRecord)
  BY DEF TypeOK
<1>3. CASE AfterWriteOk(q)
  <2>1. Tail(q) \in Seq(Item)
    BY HeadTailProperties
  <2>2. RunCallbacks(sends, q[1].cbs, "success") \in Seq(SendRecord)
    BY <1>2, RunCallbacksType DEF Results
  <2>3. running' \in BOOLEAN /\ pc' \in {"idle", "append", "initiate"}
    BY <1>3, Zenon DEF AfterWriteOk
  <2>4. watch' \in WatchState /\ sends' \in Seq(SendRecord) /\ wq' \in Seq(Item)
    BY <1>1, <1>3, <2>1, <2>2, Zenon DEF AfterWriteOk
  <2>5. UNCHANGED <<stateVars, call, accepted, timeouts, readVars, userVars>>
    BY <1>3 DEF AfterWriteOk
  <2> QED BY <2>3, <2>4, <2>5 DEF TypeOK, stateVars, readVars, userVars
<1>4. CASE AfterWriteError(q)
  <2>1. RunCallbacks(sends, q[1].cbs, "io_error") \in Seq(SendRecord)
    BY <1>2, RunCallbacksType DEF Results
  <2>2. /\ writeEnabled' \in BOOLEAN /\ readEnabled' \in BOOLEAN
        /\ shutReason' \in Reasons \cup {"none"} /\ notified' \in Nat
        /\ sock' \in {"open", "broken", "shut"}
        /\ watch' \in WatchState
    BY <1>1, <1>4, ShutdownImplType DEF AfterWriteError, Reasons
  <2> QED BY <1>4, <2>1, <2>2 DEF TypeOK, AfterWriteError, readVars, userVars
<1> QED BY <1>3, <1>4

(* start_async_write for a part of the first item. *)
LEMMA StartAsyncWriteType ==
  ASSUME TypeOK, Len(wq) >= 1, NEW left \in Seq(Bytes), StartAsyncWrite(left),
         wire' \in Seq(Bytes)
  PROVE  TypeOK'
<1>1. aw.op + 1 \in Nat
  BY DEF TypeOK, AsyncWriteState
<1>2. StartWatch(watch, aw.op + 1) \in WatchState
  BY <1>1, WatchTypes DEF TypeOK
<1>3. Freeze(wq) \in Seq(Item)
  BY FreezeFacts DEF TypeOK
<1>4. [st |-> "pending", left |-> left, op |-> aw.op + 1] \in AsyncWriteState
  BY <1>1 DEF AsyncWriteState
<1> QED BY <1>2, <1>3, <1>4 DEF TypeOK, StartAsyncWrite, stateVars, readVars, userVars

(* initiate_write_if_necessary keeps the types on each of its ways out. *)
LEMMA InitiateWriteType ==
  ASSUME TypeOK, Len(wq) >= 1, InitiateWrite
  PROVE  TypeOK'
<1>1. /\ Front.data \in Seq(Bytes)
      /\ Size(Front) \in Nat /\ Size(Front) = Len(Front.data)
  BY FrontType
<1>2. Freeze(wq) \in Seq(Item) /\ Freeze(wq) # <<>>
  BY FreezeFacts, EmptySeq, LenProperties DEF TypeOK
<1>3. wire \in Seq(Bytes) /\ aw \in AsyncWriteState
  BY DEF TypeOK
<1>4. CASE SkipInitiate
  BY <1>4 DEF TypeOK, SkipInitiate, stateVars, readVars, userVars
<1>5. CASE SyncWriteAll
  <2>1. wire' \in Seq(Bytes) /\ aw' \in AsyncWriteState
    BY <1>1, <1>3, <1>5, ConcatProperties DEF SyncWriteAll
  <2> QED BY <1>2, <1>5, <2>1, AfterWriteType DEF SyncWriteAll
<1>6. ASSUME NEW k \in 0..Size(Front) - 1, SyncWriteError(k) \/ SyncWriteWouldBlock(k)
      PROVE  TypeOK'
  <2>1. k \in 0..Len(Front.data)
    BY <1>1
  <2>2. /\ SubSeq(Front.data, 1, k) \in Seq(Bytes)
        /\ SkipTransferred(Front.data, k) \in Seq(Bytes)
    BY <1>1, <2>1, Parts
  <2>3. wire' \in Seq(Bytes)
    <3>1. wire' = wire \o SubSeq(Front.data, 1, k)
      BY <1>6, Zenon DEF SyncWriteError, SyncWriteWouldBlock
    <3> QED BY <1>3, <2>2, <3>1, ConcatProperties
  <2>4. CASE SyncWriteError(k)
    BY <1>2, <1>3, <2>3, <2>4, AfterWriteType DEF SyncWriteError
  <2>5. CASE SyncWriteWouldBlock(k)
    BY <2>2, <2>3, <2>5, StartAsyncWriteType DEF SyncWriteWouldBlock
  <2> QED BY <1>6, <2>4, <2>5
<1>7. CASE StartLargeWrite
  BY <1>1, <1>3, <1>7, StartAsyncWriteType DEF StartLargeWrite
<1> QED BY <1>4, <1>5, <1>6, <1>7 DEF InitiateWrite

(* The asynchronous write and its completion keep the types. *)
LEMMA AsyncWriteType ==
  ASSUME TypeOK, Len(wq) >= 1, AsyncWrite
  PROVE  TypeOK'
<1>1. wq \in Seq(Item) /\ wq # <<>> /\ wire \in Seq(Bytes) /\ aw.left \in Seq(Bytes)
      /\ aw \in AsyncWriteState
  BY EmptySeq DEF TypeOK, AsyncWriteState
<1>2. ASSUME NEW k \in 1..Len(aw.left), AsyncTransfer(k)
      PROVE  TypeOK'
  <2>1. k \in 0..Len(aw.left)
    BY <1>1, LenProperties
  <2>2. SubSeq(aw.left, 1, k) \in Seq(Bytes) /\ SkipTransferred(aw.left, k) \in Seq(Bytes)
    BY <1>1, <2>1, Parts
  <2>3. wire' \in Seq(Bytes)
    BY <1>1, <1>2, <2>2, ConcatProperties DEF AsyncTransfer
  <2>4. PICK st \in {"ok", "pending"} :
          aw' = [[aw EXCEPT !.left = SkipTransferred(aw.left, k)] EXCEPT !.st = st]
    BY <1>2 DEF AsyncTransfer
  <2>5. aw' \in AsyncWriteState
    BY <1>1, <2>2, <2>4 DEF AsyncWriteState
  <2> QED BY <1>2, <2>3, <2>5 DEF TypeOK, AsyncTransfer, stateVars, readVars, userVars
<1>3. CASE AsyncFail
  <2>1. aw' \in AsyncWriteState
    BY <1>1, <1>3 DEF AsyncFail, AsyncWriteState
  <2> QED BY <1>3, <2>1 DEF TypeOK, AsyncFail, readVars, userVars
<1>4. CASE AsyncWriteDone
  <2>1. <<>> \in Seq(Bytes)
    BY EmptySeq
  <2>2. aw' \in AsyncWriteState
    BY <1>1, <1>4, <2>1 DEF AsyncWriteDone, AsyncWriteState
  <2>3. wire' \in Seq(Bytes) /\ (AfterWriteOk(wq) \/ AfterWriteError(wq))
    BY <1>1, <1>4 DEF AsyncWriteDone
  <2> QED BY <1>1, <2>2, <2>3, AfterWriteType
<1> QED BY <1>2, <1>3, <1>4 DEF AsyncWrite

(* The expiring timer and the timeout handler keep the types. *)
LEMMA WriteTimeoutType ==
  ASSUME TypeOK, WriteTimeout
  PROVE  TypeOK'
<1>1. CASE TimerExpires
  <2>1. watch \in WatchState /\ timeouts \subseteq [key : Nat, op : Nat]
    BY DEF TypeOK
  <2>2. watch' = [watch EXCEPT !.armed = FALSE]
    BY <1>1 DEF TimerExpires
  <2>3. watch' \in WatchState
    BY <2>1, <2>2 DEF WatchState
  <2>4. [key |-> watch.key, op |-> watch.op] \in [key : Nat, op : Nat]
    BY <2>1 DEF WatchState
  <2>5. timeouts' \subseteq [key : Nat, op : Nat]
    BY <1>1, <2>1, <2>4 DEF TimerExpires
  <2> QED BY <1>1, <2>3, <2>5 DEF TypeOK, TimerExpires, writeVars, stateVars, readVars, userVars
<1>2. ASSUME NEW t \in timeouts, HandleWriteOperationTimeout(t)
      PROVE  TypeOK'
  <2>1. timeouts' \subseteq [key : Nat, op : Nat]
    BY <1>2 DEF TypeOK, HandleWriteOperationTimeout
  <2>2. watch \in WatchState
    BY DEF TypeOK
  <2>3. /\ writeEnabled' \in BOOLEAN /\ readEnabled' \in BOOLEAN
        /\ shutReason' \in Reasons \cup {"none"} /\ notified' \in Nat
        /\ sock' \in {"open", "broken", "shut"}
        /\ watch' \in WatchState
    <3>1. CASE TimeoutIsCurrent(t)
      BY <1>2, <2>2, <3>1, ShutdownImplType DEF HandleWriteOperationTimeout, Reasons
    <3>2. CASE ~TimeoutIsCurrent(t)
      BY <1>2, <3>2 DEF TypeOK, HandleWriteOperationTimeout, stateVars
    <3> QED BY <3>1, <3>2
  <2> QED BY <1>2, <2>1, <2>3
          DEF TypeOK, HandleWriteOperationTimeout, writeVars, readVars, userVars
<1> QED BY <1>1, <1>2 DEF WriteTimeout

(* The operations of the read loop keep the types. *)
LEMMA ReadType ==
  ASSUME TypeOK, Read
  PROVE  TypeOK'
<1>1. CASE StartReading
  BY <1>1 DEF TypeOK, StartReading, writeVars, userVars
<1>2. CASE StopReading
  <2>1. readEnabled' \in BOOLEAN
    BY <1>2, Zenon DEF StopReading
  <2>2. UNCHANGED <<writeVars, writeEnabled, shutReason, notified, sock, readVars,
                    userVars, watch, timeouts>>
    BY <1>2 DEF StopReading
  <2> QED BY <2>1, <2>2 DEF TypeOK, writeVars, readVars, userVars
<1>3. CASE AfterReadInput
  BY <1>3 DEF TypeOK, AfterReadInput, writeVars, stateVars, userVars
<1>4. CASE AfterReadNext
  <2>1. reads' \in Nat
    BY <1>4 DEF TypeOK, AfterReadNext
  <2> QED BY <1>4, <2>1 DEF TypeOK, AfterReadNext, writeVars, stateVars, userVars
<1>5. ASSUME NEW reason \in {"eof", "io_error"}, AfterReadError(reason)
      PROVE  TypeOK'
  <2>1. reason \in Reasons /\ watch \in WatchState
    BY DEF TypeOK, Reasons
  <2>2. /\ writeEnabled' \in BOOLEAN /\ readEnabled' \in BOOLEAN
        /\ shutReason' \in Reasons \cup {"none"} /\ notified' \in Nat
        /\ sock' \in {"open", "broken", "shut"}
        /\ watch' \in WatchState
    BY <1>5, <2>1, ShutdownImplType DEF AfterReadError
  <2> QED BY <1>5, <2>2 DEF TypeOK, AfterReadError, writeVars, userVars
<1> QED BY <1>1, <1>2, <1>3, <1>4, <1>5 DEF Read

(* shutdown, release, io_context::stop and the destructor keep the types. *)
LEMMA LifetimeType ==
  ASSUME TypeOK, Lifetime
  PROVE  TypeOK'
<1>1. CASE Shutdown
  <2>1. "user_initiated" \in Reasons /\ watch \in WatchState
    BY DEF TypeOK, Reasons
  <2>2. /\ writeEnabled' \in BOOLEAN /\ readEnabled' \in BOOLEAN
        /\ shutReason' \in Reasons \cup {"none"} /\ notified' \in Nat
        /\ sock' \in {"open", "broken", "shut"}
        /\ watch' \in WatchState
    BY <1>1, <2>1, ShutdownImplType DEF Shutdown
  <2> QED BY <1>1, <2>2 DEF TypeOK, Shutdown, writeVars, readVars, userVars
<1>2. ASSUME NEW h \in BOOLEAN, ResetShutdownHandler(h)
      PROVE  TypeOK'
  BY <1>2 DEF TypeOK, ResetShutdownHandler, writeVars, stateVars, readVars
<1>3. CASE Release
  <2>1. held' \in BOOLEAN
    BY <1>3, Zenon DEF Release
  <2>2. UNCHANGED <<writeVars, stateVars, readVars, handler, io, alive, watch, timeouts>>
    BY <1>3 DEF Release
  <2> QED BY <2>1, <2>2 DEF TypeOK, writeVars, stateVars, readVars
<1>4. CASE StopIo
  BY <1>4 DEF TypeOK, StopIo, writeVars, stateVars, readVars
<1>5. CASE Destroy
  <2>1. sends \in Seq(SendRecord) /\ Len(sends) \in Nat /\ DOMAIN sends = 1..Len(sends)
    BY LenProperties DEF TypeOK
  <2>2. ASSUME NEW s \in 1..Len(sends), NEW i
        PROVE  [sends[s] EXCEPT !.res = Append(@, RemainingResult(i))] \in SendRecord
    <3>1. sends[s] \in SendRecord
      BY <2>1, ElementOfSeq
    <3>2. RemainingResult(i) \in Results
      BY DEF RemainingResult, Results
    <3>3. Append(sends[s].res, RemainingResult(i)) \in Seq(Results)
      BY <3>1, <3>2, AppendProperties DEF SendRecord
    <3> QED BY <3>1, <3>3 DEF SendRecord
  <2>3. \A s \in 1..Len(sends) : sends[s] \in SendRecord
    BY <2>1, ElementOfSeq
  <2>4. CASE sends' \in [1..Len(sends) -> SendRecord]
    <3>1. sends' \in Seq(SendRecord)
      BY <2>1, <2>4
    <3>2. alive' \in BOOLEAN
      BY <1>5, Zenon DEF Destroy
    <3>3. UNCHANGED <<wq, running, aw, pc, call, accepted, wire, stateVars,
                      readVars, handler, io, held, watch, timeouts>>
      BY <1>5 DEF Destroy
    <3> QED BY <3>1, <3>2, <3>3 DEF TypeOK, stateVars, readVars
  <2>5. sends' \in [1..Len(sends) -> SendRecord]
    <3>1. CASE Len(wq) > 1 \/ Size(Front) > 0
      <4> DEFINE at(s) == {i \in RemainingItems :
                             \E j \in DOMAIN wq[i].cbs : wq[i].cbs[j] = s}
                 answer(s) == IF at(s) = {} THEN sends[s]
                              ELSE [sends[s] EXCEPT
                                      !.res = Append(@, RemainingResult(Min(at(s))))]
      <4>1. sends' = [s \in 1..Len(sends) |-> answer(s)]
        BY <1>5, <2>1, <3>1 DEF Destroy, HandleRemainingWriteQueue
      <4>2. ASSUME NEW s \in 1..Len(sends)
            PROVE  answer(s) \in SendRecord
        BY <2>2, <2>3
      <4> HIDE DEF answer
      <4> QED BY <4>1, <4>2
    <3>2. CASE ~(Len(wq) > 1 \/ Size(Front) > 0)
      BY <1>5, <2>1, <2>3, <3>2, LenProperties DEF Destroy, HandleRemainingWriteQueue
    <3> QED BY <3>1, <3>2
  <2> QED BY <2>4, <2>5
<1>6. CASE Terminated
  BY <1>6 DEF TypeOK, Terminated, vars, writeVars, stateVars, readVars, userVars
<1> QED BY <1>1, <1>2, <1>3, <1>4, <1>5, <1>6 DEF Lifetime
-----------------------------------------------------------------------------
(* How the operations on the queue keep it a chain of runs                   *)

(* Facts about one item of a chain. *)
LEMMA ChainItem ==
  ASSUME NEW q \in Seq(Item), NEW acc \in Nat,
         NEW st \in [1..Len(q) + 1 -> 0..acc], Chain(q, acc, st),
         NEW i \in 1..Len(q)
  PROVE  /\ q[i].data \in Seq(Bytes) /\ Len(q[i].data) \in Nat
         /\ st[i] \in Nat /\ st[i + 1] \in Nat
         /\ st[i] <= acc /\ st[i + 1] <= acc
         /\ IsRun(q[i].data, st[i])
         /\ st[i + 1] = st[i] + Len(q[i].data)
<1>1. Len(q) \in Nat
  BY LenProperties
<1>2. q[i] \in Item
  BY ElementOfSeq
<1>3. q[i].data \in Seq(Bytes)
  BY <1>2 DEF Item
<1>4. i \in 1..Len(q) + 1 /\ i + 1 \in 1..Len(q) + 1
  BY <1>1
<1>5. st[i] \in 0..acc /\ st[i + 1] \in 0..acc
  BY <1>4
<1> QED BY <1>3, <1>5, LenProperties DEF Chain

(* append_outgoing_buffer, with or without concat_small_buffers, keeps *)
(* the items consecutive and does not move the first one.              *)
LEMMA ChainAppendOutgoing ==
  ASSUME NEW q \in Seq(Item), Len(q) >= 1, NEW acc \in Nat,
         NEW st \in [1..Len(q) + 1 -> 0..acc], Chain(q, acc, st),
         NEW bytes \in Seq(Bytes), IsRun(bytes, acc)
  PROVE  LET r == AppendOutgoingBuffer(q, bytes)
         IN  \E u \in [1..Len(r) + 1 -> 0..acc + Len(bytes)] :
               /\ Chain(r, acc + Len(bytes), u)
               /\ \A i \in 1..Len(q) : u[i] = st[i]
<1> DEFINE n == Len(q)
           m == Len(bytes)
           r == AppendOutgoingBuffer(q, bytes)
<1>1. n \in Nat /\ n \in 1..n /\ m \in Nat
  BY LenProperties
<1>2. /\ r \in Seq(Item)
      /\ \A i \in 1..n - 1 : r[i] = q[i]
      /\ \/ /\ Len(r) = n
            /\ r[n].data = q[n].data \o bytes
         \/ /\ Len(r) = n + 1
            /\ r[n].data = q[n].data
            /\ r[n + 1].data = bytes
  BY AppendOutgoingFacts
<1>3. /\ q[n].data \in Seq(Bytes) /\ Len(q[n].data) \in Nat
      /\ st[n] \in Nat /\ st[n] <= acc
      /\ IsRun(q[n].data, st[n])
      /\ st[n + 1] = st[n] + Len(q[n].data)
  BY <1>1, ChainItem
<1>4. st[n + 1] = acc
  BY DEF Chain
<1> HIDE DEF r
<1>5. CASE Len(r) = n /\ r[n].data = q[n].data \o bytes
  <2> DEFINE u == [i \in 1..n + 1 |-> IF i = n + 1 THEN acc + m ELSE st[i]]
  <2>1. ASSUME NEW i \in 1..n + 1 PROVE u[i] \in 0..acc + m
    <3>1. st[i] \in 0..acc
      OBVIOUS
    <3> QED BY <1>1, <3>1
  <2>2. u \in [1..Len(r) + 1 -> 0..acc + m]
    BY <1>5, <2>1
  <2>3. \A i \in 1..n : u[i] = st[i]
    BY <1>1
  <2>4. u[n + 1] = acc + m
    BY <1>1
  <2> HIDE DEF u
  <2>5. ASSUME NEW i \in 1..n
        PROVE  IsRun(r[i].data, u[i]) /\ u[i + 1] = u[i] + Len(r[i].data)
    <3>1. CASE i = n
      <4>1. IsRun(bytes, st[n] + Len(q[n].data))
        BY <1>3, <1>4
      <4>2. /\ Len(q[n].data \o bytes) = Len(q[n].data) + m
            /\ IsRun(q[n].data \o bytes, st[n])
        BY <1>3, <4>1, ConcatRuns
      <4>3. u[n] = st[n]
        BY <1>1, <2>3
      <4>4. IsRun(r[n].data, u[n])
        BY <1>5, <4>2, <4>3
      <4>5. u[n + 1] = u[n] + Len(r[n].data)
        <5>1. Len(r[n].data) = Len(q[n].data) + m
          BY <1>5, <4>2
        <5>2. u[n + 1] = acc + m /\ acc = st[n] + Len(q[n].data) /\ u[n] = st[n]
          BY <1>3, <1>4, <2>4, <4>3
        <5> HIDE DEF m
        <5> QED BY <1>1, <1>3, <5>1, <5>2
      <4> QED BY <3>1, <4>4, <4>5
    <3>2. CASE i # n
      <4>1. i \in 1..n - 1 /\ i + 1 \in 1..n
        BY <1>1, <3>2
      <4>2. r[i] = q[i] /\ u[i] = st[i] /\ u[i + 1] = st[i + 1]
        BY <1>2, <2>3, <4>1
      <4>3. IsRun(q[i].data, st[i]) /\ st[i + 1] = st[i] + Len(q[i].data)
        BY ChainItem
      <4> QED BY <4>2, <4>3
    <3> QED BY <3>1, <3>2
  <2>6. Chain(r, acc + m, u)
    BY <1>5, <2>4, <2>5 DEF Chain
  <2> QED BY <2>2, <2>3, <2>6 DEF r
<1>6. CASE Len(r) = n + 1 /\ r[n].data = q[n].data /\ r[n + 1].data = bytes
  <2> DEFINE u == [i \in 1..n + 2 |-> IF i = n + 2 THEN acc + m ELSE st[i]]
  <2>1. ASSUME NEW i \in 1..n + 2 PROVE u[i] \in 0..acc + m
    <3>1. CASE i = n + 2
      BY <1>1, <3>1
    <3>2. CASE i # n + 2
      <4>1. i \in 1..n + 1
        BY <1>1, <3>2
      <4>2. st[i] \in 0..acc
        BY <4>1
      <4> QED BY <1>1, <3>2, <4>2
    <3> QED BY <3>1, <3>2
  <2>2. u \in [1..Len(r) + 1 -> 0..acc + m]
    BY <1>1, <1>6, <2>1
  <2>3. \A i \in 1..n + 1 : u[i] = st[i]
    BY <1>1
  <2>4. u[n + 2] = acc + m
    BY <1>1
  <2> HIDE DEF u
  <2>5. ASSUME NEW i \in 1..n + 1
        PROVE  IsRun(r[i].data, u[i]) /\ u[i + 1] = u[i] + Len(r[i].data)
    <3>1. CASE i = n + 1
      <4>1. u[n + 1] = acc
        BY <1>1, <1>4, <2>3
      <4>2. IsRun(r[n + 1].data, u[n + 1])
        BY <1>6, <4>1
      <4>3. u[n + 1 + 1] = u[n + 1] + Len(r[n + 1].data)
        BY <1>1, <1>6, <2>4, <4>1
      <4> QED BY <3>1, <4>2, <4>3
    <3>2. CASE i # n + 1
      <4>1. i \in 1..n /\ i + 1 \in 1..n + 1
        BY <1>1, <3>2
      <4>2. r[i].data = q[i].data
        <5>1. CASE i = n
          BY <1>6, <5>1
        <5>2. CASE i # n
          <6>1. i \in 1..n - 1
            BY <1>1, <4>1, <5>2
          <6> QED BY <1>2, <6>1
        <5> QED BY <5>1, <5>2
      <4>3. u[i] = st[i] /\ u[i + 1] = st[i + 1]
        BY <2>3, <4>1
      <4>4. IsRun(q[i].data, st[i]) /\ st[i + 1] = st[i] + Len(q[i].data)
        BY <4>1, ChainItem
      <4> QED BY <4>2, <4>3, <4>4
    <3> QED BY <3>1, <3>2
  <2>6. Chain(r, acc + m, u)
    BY <1>1, <1>6, <2>4, <2>5 DEF Chain
  <2>7. \A i \in 1..n : u[i] = st[i]
    BY <1>1, <2>3
  <2> QED BY <2>2, <2>6, <2>7 DEF r
<1> QED BY <1>2, <1>5, <1>6

(* freeze_first_buf_sequece_in_queue moves no byte. *)
LEMMA ChainFreeze ==
  ASSUME NEW q \in Seq(Item), Len(q) >= 1, NEW acc \in Nat,
         NEW st \in [1..Len(q) + 1 -> 0..acc], Chain(q, acc, st)
  PROVE  \E u \in [1..Len(Freeze(q)) + 1 -> 0..acc] :
           Chain(Freeze(q), acc, u) /\ u[1] = st[1] /\ u[2] = st[2]
<1>1. Len(q) \in Nat
  BY LenProperties
<1>2. CASE Len(q) = 1
  <2>1. /\ Len(Freeze(q)) = 2 /\ Freeze(q)[1] = q[1] /\ Freeze(q)[2] = EmptyItem
    BY <1>2, FreezeFacts, 1 \in 1..1
  <2> DEFINE u == [i \in 1..3 |-> IF i = 3 THEN acc ELSE st[i]]
  <2>2. st[1] \in 0..acc /\ st[2] \in 0..acc
    BY <1>2
  <2>3. u \in [1..Len(Freeze(q)) + 1 -> 0..acc]
    BY <2>1, <2>2
  <2>4. u[1] = st[1] /\ u[2] = st[2] /\ u[3] = acc
    OBVIOUS
  <2> HIDE DEF u
  <2>5. IsRun(q[1].data, st[1]) /\ st[2] = st[1] + Len(q[1].data) /\ st[2] = acc
    BY <1>2 DEF Chain
  <2>6. EmptyItem.data = <<>> /\ Len(<<>>) = 0
    BY EmptySeq DEF EmptyItem
  <2>7. IsRun(EmptyItem.data, acc) /\ u[3] = u[2] + Len(EmptyItem.data)
    BY <2>4, <2>5, <2>6 DEF IsRun
  <2>8. Chain(Freeze(q), acc, u)
    BY <2>1, <2>4, <2>5, <2>7 DEF Chain
  <2> QED BY <2>3, <2>4, <2>8
<1>3. CASE Len(q) # 1
  BY <1>3 DEF Freeze
<1> QED BY <1>2, <1>3

(* Popping the written item keeps the rest consecutive. *)
LEMMA ChainTail ==
  ASSUME NEW q \in Seq(Item), Len(q) >= 2, NEW acc \in Nat,
         NEW st \in [1..Len(q) + 1 -> 0..acc], Chain(q, acc, st)
  PROVE  \E u \in [1..Len(Tail(q)) + 1 -> 0..acc] :
           Chain(Tail(q), acc, u) /\ u[1] = st[2]
<1>1. Len(q) \in Nat /\ q # <<>>
  BY LenProperties, EmptySeq
<1>2. /\ Len(Tail(q)) = Len(q) - 1
      /\ \A i \in 1..Len(Tail(q)) : Tail(q)[i] = q[i + 1]
  BY <1>1, HeadTailProperties
<1> DEFINE u == [i \in 1..Len(q) |-> st[i + 1]]
<1>3. ASSUME NEW i \in 1..Len(q) PROVE u[i] = st[i + 1] /\ u[i] \in 0..acc
  <2>1. i + 1 \in 1..Len(q) + 1
    BY <1>1
  <2> QED BY <2>1
<1>4. u \in [1..Len(Tail(q)) + 1 -> 0..acc]
  BY <1>1, <1>2, <1>3
<1> HIDE DEF u
<1>5. ASSUME NEW i \in 1..Len(Tail(q))
      PROVE  IsRun(Tail(q)[i].data, u[i]) /\ u[i + 1] = u[i] + Len(Tail(q)[i].data)
  <2>1. i \in 1..Len(q) /\ i + 1 \in 1..Len(q)
    BY <1>1, <1>2
  <2>2. Tail(q)[i] = q[i + 1] /\ u[i] = st[i + 1] /\ u[i + 1] = st[i + 1 + 1]
    BY <1>2, <1>3, <2>1
  <2>3. /\ IsRun(q[i + 1].data, st[i + 1])
        /\ st[i + 1 + 1] = st[i + 1] + Len(q[i + 1].data)
    BY <2>1 DEF Chain
  <2> QED BY <2>2, <2>3
<1>6. u[Len(Tail(q)) + 1] = acc
  <2>1. Len(Tail(q)) + 1 = Len(q) /\ Len(q) \in 1..Len(q)
    BY <1>1, <1>2
  <2> QED BY <1>3, <2>1 DEF Chain
<1>7. u[1] = st[2]
  BY <1>1, <1>3
<1> QED BY <1>4, <1>5, <1>6, <1>7 DEF Chain

(* Well-formedness of the queue under the same operations. *)
LEMMA WellFormedAppendOutgoing ==
  ASSUME NEW q \in Seq(Item), Len(q) >= 1, WellFormed(q),
         NEW bytes \in Seq(Bytes), bytes # <<>>
  PROVE  LET r == AppendOutgoingBuffer(q, bytes)
         IN  r \in Seq(Item) /\ WellFormed(r) /\ Len(r) >= Len(q)
<1> DEFINE n == Len(q)
           r == AppendOutgoingBuffer(q, bytes)
<1>1. n \in Nat /\ n \in 1..n
  BY LenProperties
<1>2. /\ r \in Seq(Item)
      /\ \A i \in 1..n - 1 : r[i] = q[i]
      /\ \/ /\ Len(r) = n
            /\ r[n].data = q[n].data \o bytes
            /\ r[n].ends # {}
         \/ /\ Len(r) = n + 1
            /\ r[n].data = q[n].data
            /\ r[n].ends # {}
            /\ q[n].ends # {}
            /\ r[n + 1].data = bytes
            /\ r[n + 1].ends # {}
  BY AppendOutgoingFacts, SMTT(20)
<1>3. q[n].data \in Seq(Bytes)
  <2>1. q[n] \in Item
    BY <1>1, ElementOfSeq
  <2> QED BY <2>1 DEF Item
<1>4. q[n].data \o bytes # <<>>
  BY <1>3, ConcatEqualIffEmpty
<1> HIDE DEF r
<1>5. ASSUME NEW i \in 1..n - 1
      PROVE  (r[i].data = <<>> <=> r[i].ends = {}) /\ r[i].data # <<>>
  <2>1. i \in 1..n /\ r[i] = q[i]
    BY <1>1, <1>2
  <2>2. (q[i].data = <<>> <=> q[i].ends = {}) /\ q[i].data # <<>>
    BY <2>1 DEF WellFormed
  <2> QED BY <2>1, <2>2
<1>6. CASE Len(r) = n
  <2>1. r[n].data # <<>> /\ r[n].ends # {}
    BY <1>1, <1>2, <1>4, <1>6
  <2>2. \A i \in 1..n : i \in 1..n - 1 \/ i = n
    BY <1>1
  <2> QED BY <1>1, <1>2, <1>5, <1>6, <2>1, <2>2 DEF WellFormed, r
<1>7. CASE Len(r) = n + 1
  <2>1. /\ r[n].data = q[n].data /\ r[n].ends # {} /\ q[n].ends # {}
        /\ r[n + 1].data = bytes /\ r[n + 1].ends # {}
    BY <1>1, <1>2, <1>7
  <2>2. r[n].data # <<>>
    BY <1>1, <2>1 DEF WellFormed
  <2>3. \A i \in 1..n + 1 : i \in 1..n - 1 \/ i = n \/ i = n + 1
    BY <1>1
  <2>4. \A i \in 1..n + 1 - 1 : i \in 1..n - 1 \/ i = n
    BY <1>1
  <2>5. WellFormed(r)
    BY <1>5, <1>7, <2>1, <2>2, <2>3, <2>4 DEF WellFormed
  <2> QED BY <1>1, <1>2, <1>7, <2>5 DEF r
<1> QED BY <1>2, <1>6, <1>7

(* A queue that is not empty has one item or at least two. *)
LEMMA OneOrMore ==
  ASSUME NEW q \in Seq(Item), Len(q) >= 1
  PROVE  Len(q) = 1 \/ Len(q) >= 2
<1>1. \A n \in Nat : n >= 1 => n = 1 \/ n >= 2
  OBVIOUS
<1>2. Len(q) \in Nat
  BY LenProperties
<1> HIDE DEF Item
<1> QED BY <1>1, <1>2, Zenon

(* Freezing a front with buffers leaves a well-formed queue of two items or more. *)
LEMMA WellFormedFreeze ==
  ASSUME NEW q \in Seq(Item), Len(q) >= 1, WellFormed(q), q[1].ends # {}
  PROVE  WellFormed(Freeze(q)) /\ Len(Freeze(q)) >= 2
<1>1. Len(q) \in Nat
  BY LenProperties
<1>2. CASE Len(q) = 1
  <2>1. /\ Len(Freeze(q)) = 2 /\ Freeze(q)[1] = q[1] /\ Freeze(q)[2] = EmptyItem
    BY <1>2, FreezeFacts, 1 \in 1..1
  <2>2. q[1].data # <<>>
    BY <1>2 DEF WellFormed
  <2>3. EmptyItem.data = <<>> /\ EmptyItem.ends = {}
    BY DEF EmptyItem
  <2>4. \A i \in 1..2 : i = 1 \/ i = 2
    OBVIOUS
  <2>5. \A i \in 1..2 - 1 : i = 1
    OBVIOUS
  <2>6. \A i \in 1..2 : Freeze(q)[i].data = <<>> <=> Freeze(q)[i].ends = {}
    BY <2>1, <2>2, <2>3, <2>4
  <2>7. \A i \in 1..2 - 1 : Freeze(q)[i].data # <<>>
    BY <2>1, <2>2, <2>5
  <2> QED BY <2>1, <2>6, <2>7 DEF WellFormed
<1>3. CASE Len(q) # 1
  <2>1. Freeze(q) = q
    BY <1>3 DEF Freeze
  <2>2. Len(q) >= 2
    BY <1>3, OneOrMore
  <2> QED BY <2>1, <2>2
<1> QED BY <1>2, <1>3

(* Popping the written item leaves a well-formed queue. *)
LEMMA WellFormedTail ==
  ASSUME NEW q \in Seq(Item), Len(q) >= 2, WellFormed(q)
  PROVE  WellFormed(Tail(q)) /\ Len(Tail(q)) >= 1
<1>1. Len(q) \in Nat /\ q # <<>>
  BY LenProperties, EmptySeq
<1>2. /\ Len(Tail(q)) = Len(q) - 1
      /\ \A i \in 1..Len(Tail(q)) : Tail(q)[i] = q[i + 1]
  BY <1>1, HeadTailProperties
<1>3. \A i \in 1..Len(q) - 1 : i + 1 \in 1..Len(q)
  BY <1>1
<1>4. \A i \in 1..Len(q) - 1 - 1 : i + 1 \in 1..Len(q) - 1 /\ i \in 1..Len(q) - 1
  BY <1>1
<1> QED BY <1>1, <1>2, <1>3, <1>4 DEF WellFormed
-----------------------------------------------------------------------------
(* The stream invariant                                                      *)

(* A new connection satisfies the stream invariant. *)
LEMMA StreamInit == Init => StreamInv
<1> SUFFICES ASSUME Init PROVE StreamInv
  OBVIOUS
<1>1. Len(<<>>) = 0 /\ Len(wq) = 1 /\ wq[1] = EmptyItem /\ wire = <<>> /\ accepted = 0
  BY EmptySeq DEF Init
<1>2. EmptyItem.data = <<>> /\ EmptyItem.ends = {}
  BY DEF EmptyItem
<1>3. FlagsInv /\ AggressiveInv
  BY DEF Init, FlagsInv, AggressiveInv
<1>4. QueueShape /\ WellFormed(wq)
  BY <1>1, <1>2 DEF Init, QueueShape, WellFormed
<1>5. NothingStuck /\ StreamInOrder
  BY <1>1 DEF NothingStuck, StreamInOrder
<1>6. OrderInv
  <2> DEFINE st == [i \in 1..2 |-> 0]
  <2>1. st \in [1..Len(wq) + 1 -> 0..accepted]
    BY <1>1
  <2>2. st[1] = 0 /\ st[2] = 0
    OBVIOUS
  <2> HIDE DEF st
  <2>3. \A i \in 1..Len(wq) : IsRun(wq[i].data, st[i]) /\ st[i + 1] = st[i] + Len(wq[i].data)
    BY <1>1, <1>2, <2>2 DEF IsRun
  <2>4. Chain(wq, accepted, st)
    BY <1>1, <2>2, <2>3 DEF Chain
  <2>5. Frontier(st)
    BY <1>1, <2>2 DEF Frontier, Init
  <2> QED BY <2>1, <2>4, <2>5 DEF OrderInv
<1> QED BY <1>3, <1>4, <1>5, <1>6 DEF StreamInv

(* Steps that move no byte and leave the write operation alone; they may    *)
(* shut the connection down.                                                *)
LEMMA StreamFrame ==
  ASSUME TypeOK, StreamInv,
         wq' = wq, running' = running, aw' = aw, pc' = pc, call' = call,
         accepted' = accepted, wire' = wire,
         pc = "append" => sends' # <<>> /\ writeEnabled',
         writeEnabled' <=> shutReason' = "none",
         sock' = "shut" <=> ~writeEnabled',
         writeEnabled' => writeEnabled
  PROVE  StreamInv'
<1>1. FlagsInv'
  BY DEF StreamInv, FlagsInv
<1>2. QueueShape' /\ WellFormed(wq)' /\ AggressiveInv' /\ StreamInOrder'
  BY DEF StreamInv, QueueShape, WellFormed, AggressiveInv, StreamInOrder
<1>3. NothingStuck'
  BY DEF StreamInv, NothingStuck
<1>4. OrderInv'
  <2>1. PICK st \in [1..Len(wq) + 1 -> 0..accepted] :
           Chain(wq, accepted, st) /\ Frontier(st)
    BY DEF StreamInv, OrderInv
  <2>2. Frontier(st)'
    BY <2>1 DEF Frontier
  <2>3. Chain(wq, accepted, st)'
    BY <2>1 DEF Chain
  <2> QED BY <2>1, <2>2, <2>3 DEF OrderInv
<1> QED BY <1>1, <1>2, <1>3, <1>4 DEF StreamInv

(* After shutdown_impl the connection is shut down, whatever it was before. *)
LEMMA AfterShutdownImpl ==
  ASSUME StreamInv, NEW reason \in Reasons, NEW w, ShutdownImpl(reason, w)
  PROVE  ~writeEnabled' /\ shutReason' # "none" /\ sock' = "shut"
<1>1. CASE ~ShutdownWasCalled
  BY <1>1 DEF ShutdownImpl, Reasons
<1>2. CASE ShutdownWasCalled
  BY <1>2 DEF ShutdownImpl, ShutdownWasCalled, StreamInv, FlagsInv, stateVars
<1> QED BY <1>1, <1>2

(* With one empty item in the queue, all the bytes before it are accepted   *)
(* and none is queued.                                                      *)
LEMMA EmptyQueue ==
  ASSUME TypeOK, Len(wq) = 1, NEW st \in [1..Len(wq) + 1 -> 0..accepted],
         Chain(wq, accepted, st)
  PROVE  wq[1].data = <<>> <=> st[1] = accepted
<1>1. wq \in Seq(Item) /\ accepted \in Nat /\ 1 \in 1..Len(wq)
  BY DEF TypeOK
<1>2. /\ wq[1].data \in Seq(Bytes) /\ Len(wq[1].data) \in Nat
      /\ st[1] \in Nat /\ st[2] = st[1] + Len(wq[1].data)
  <2>1. wq[1] \in Item
    BY <1>1, ElementOfSeq
  <2>2. wq[1].data \in Seq(Bytes)
    BY <2>1 DEF Item
  <2>3. st[1] \in 0..accepted
    BY <1>1
  <2>4. st[1 + 1] = st[1] + Len(wq[1].data)
    BY <1>1 DEF Chain
  <2> QED BY <1>1, <2>2, <2>3, <2>4, LenProperties
<1>3. st[2] = accepted
  BY DEF Chain
<1>4. wq[1].data = <<>> <=> Len(wq[1].data) = 0
  BY <1>2, EmptySeq
<1> QED BY <1>1, <1>2, <1>3, <1>4

(* A step re-establishes the order invariant with a chain for the new queue *)
(* whose first bytes are the next ones to be written.                       *)
LEMMA OrderInvNext ==
  ASSUME NEW u \in [1..Len(wq') + 1 -> 0..accepted'], Chain(wq', accepted', u),
         ~running' /\ (writeEnabled' \/ pc' = "initiate") => u[1] = Len(wire'),
         aw'.st \in {"pending", "ok"} =>
           IsRun(aw'.left, Len(wire')) /\ Len(wire') + Len(aw'.left) = u[2]
  PROVE  OrderInv'
<1>1. Frontier(u)'
  BY DEF Frontier, IsRun
<1>2. Chain(wq, accepted, u)'
  BY DEF Chain
<1> QED BY <1>1, <1>2 DEF OrderInv

(* Accepting or rejecting a send keeps the stream invariant. *)
LEMMA StreamSend ==
  ASSUME TypeOK, StreamInv, Send
  PROVE  StreamInv'
<1>1. ASSUME NEW sizes \in Shapes, NEW cb \in CbOptions, ScheduleSend(sizes, cb)
      PROVE  StreamInv'
  <2>1. PICK st \in [1..Len(wq) + 1 -> 0..accepted] :
           Chain(wq, accepted, st) /\ Frontier(st)
    BY DEF StreamInv, OrderInv
  <2>2. /\ wq' = wq /\ running' = running /\ aw' = aw /\ accepted' = accepted
        /\ wire' = wire /\ writeEnabled' = writeEnabled /\ shutReason' = shutReason
        /\ sock' = sock /\ pc = "idle" /\ writeEnabled /\ pc' = "append"
    BY <1>1 DEF ScheduleSend, UserCall, stateVars
  <2>3. sends' # <<>>
    <3>1. cb \in BOOLEAN /\ <<>> \in Seq(Results)
      BY OptionsAssumption, EmptySeq
    <3>2. [cb |-> cb, from |-> accepted, upto |-> accepted, res |-> <<>>]
             \in SendRecord
      BY <3>1 DEF TypeOK, SendRecord
    <3> DEFINE rec == [cb |-> cb, from |-> accepted, upto |-> accepted, res |-> <<>>]
    <3> HIDE DEF rec
    <3>3. sends \in Seq(SendRecord) /\ rec \in SendRecord
      BY <3>2 DEF TypeOK, rec
    <3>4. Append(sends, rec) # <<>>
      BY <3>3, AppendProperties
    <3> QED BY <1>1, <3>4 DEF ScheduleSend, rec
  <2>4. FlagsInv'
    BY <2>2, <2>3 DEF StreamInv, FlagsInv
  <2>5. QueueShape' /\ WellFormed(wq)' /\ StreamInOrder' /\ NothingStuck'
    BY <2>2 DEF StreamInv, QueueShape, WellFormed, StreamInOrder, NothingStuck
  <2>6. AggressiveInv'
    <3>1. SUFFICES ASSUME ~running PROVE Len(wq) = 1 /\ wq[1].data = <<>>
      BY <2>2 DEF AggressiveInv
    <3>2. Len(wq) = 1 /\ Len(wire) = accepted
      BY <2>2, <3>1 DEF StreamInv, NothingStuck
    <3>3. st[1] = Len(wire)
      BY <2>1, <2>2, <3>1 DEF Frontier
    <3> QED BY <2>1, <3>2, <3>3, EmptyQueue
  <2>7. OrderInv'
    <3>1. Frontier(st)'
      BY <2>1, <2>2 DEF Frontier
    <3>2. Chain(wq, accepted, st)'
      BY <2>1, <2>2 DEF Chain
    <3> QED BY <2>1, <2>2, <3>1, <3>2 DEF OrderInv
  <2> QED BY <2>4, <2>5, <2>6, <2>7 DEF StreamInv
<1>2. ASSUME NEW cb \in CbOptions, RejectSend(cb)
      PROVE  StreamInv'
  <2>1. pc = "idle"
    BY <1>2 DEF RejectSend, UserCall
  <2> QED BY <1>2, <2>1, StreamFrame DEF RejectSend, stateVars, StreamInv, FlagsInv
<1> QED BY <1>1, <1>2 DEF Send

(* The next buffer continues what was accepted so far. *)
LEMMA StreamTakeBuffer ==
  ASSUME TypeOK, StreamInv, pc = "append", call.todo # <<>>, TakeNextBuffer
  PROVE  StreamInv'
<1>1. PICK st \in [1..Len(wq) + 1 -> 0..accepted] :
         Chain(wq, accepted, st) /\ Frontier(st)
  BY DEF StreamInv, OrderInv
<1>2. /\ wq \in Seq(Item) /\ accepted \in Nat /\ wire \in Seq(Bytes)
      /\ Len(wire) \in Nat /\ Len(wq) \in Nat /\ Len(wq) >= 1
  BY LenProperties DEF TypeOK, StreamInv, QueueShape
<1>3. writeEnabled /\ sends # <<>> /\ WellFormed(wq) /\ IsRun(wire, 0)
  BY DEF StreamInv, FlagsInv, StreamInOrder, IsRun
<1>4. /\ Head(call.todo) \in Nat \ {0}
      /\ NextBuffer \in Seq(Bytes) /\ Len(NextBuffer) = Head(call.todo)
      /\ IsRun(NextBuffer, accepted)
  BY NextBufferType
<1>5. /\ accepted' = accepted + Len(NextBuffer)
      /\ running' = running /\ aw' = aw /\ pc' = pc
      /\ writeEnabled' = writeEnabled /\ shutReason' = shutReason
      /\ sends' # <<>>
  <2>1. TakeBuffer(TRUE) \/ TakeBuffer(FALSE)
    BY DEF TakeNextBuffer, AggressiveWrite, AggressivePartial, AppendOnly
  <2>2. /\ accepted' = accepted + Head(call.todo)
        /\ running' = running /\ aw' = aw /\ pc' = pc
        /\ writeEnabled' = writeEnabled /\ shutReason' = shutReason
        /\ sends' = [sends EXCEPT ![Len(sends)].upto = accepted + Head(call.todo)]
    BY <2>1 DEF TakeBuffer
  <2>3. DOMAIN sends # {}
    <3>1. sends \in Seq(SendRecord)
      BY DEF TypeOK
    <3>2. Len(sends) \in Nat /\ Len(sends) # 0 /\ DOMAIN sends = 1..Len(sends)
      BY <1>3, <3>1, LenProperties, EmptySeq
    <3>3. 1 \in 1..Len(sends)
      BY <3>2
    <3> QED BY <3>2, <3>3
  <2>4. DOMAIN sends' = DOMAIN sends
    BY <2>2
  <2>5. sends' # <<>>
    BY <2>3, <2>4
  <2> QED BY <1>4, <2>2, <2>5
<1>6. CASE AggressiveWrite
  <2>1. /\ ~running /\ call.aggr /\ wq' = wq /\ sock' = sock
        /\ wire' = wire \o NextBuffer /\ call'.aggr = TRUE
    BY <1>6 DEF AggressiveWrite, TryAggressive, TakeBuffer
  <2>2. Len(wq) = 1 /\ wq[1].data = <<>>
    BY <1>3, <2>1 DEF StreamInv, AggressiveInv
  <2>3. Len(wire) = accepted
    BY <1>1, <1>3, <2>1, <2>2, EmptyQueue DEF Frontier
  <2>4. Len(wire') = accepted' /\ IsRun(wire', 0)
    <3>1. IsRun(NextBuffer, 0 + Len(wire)) /\ NextBuffer \in Seq(Bytes)
      BY <1>2, <1>4, <1>5, <2>1, <2>3
    <3>2. Len(wire') = Len(wire) + Len(NextBuffer) /\ IsRun(wire', 0)
      BY <1>2, <1>3, <2>1, <3>1, ConcatRuns, 0 \in Nat
    <3> QED BY <1>4, <1>5, <2>1, <2>3, <3>2
  <2>5. accepted' \in Nat
    BY <1>2, <1>4, <1>5, <2>1
  <2>6. FlagsInv' /\ QueueShape' /\ WellFormed(wq)' /\ AggressiveInv' /\ NothingStuck'
    BY <1>3, <1>4, <1>5, <2>1, <2>2
       DEF StreamInv, FlagsInv, QueueShape, WellFormed, AggressiveInv, NothingStuck
  <2>7. StreamInOrder'
    BY <2>4, <2>5 DEF StreamInOrder, IsRun
  <2>8. OrderInv'
    <3> DEFINE u == [i \in 1..2 |-> accepted']
    <3>1. u \in [1..Len(wq') + 1 -> 0..accepted']
      BY <2>1, <2>2, <2>5
    <3>2. u[1] = accepted' /\ u[2] = accepted'
      OBVIOUS
    <3> HIDE DEF u
    <3>3. Len(wq'[1].data) = 0 /\ Len(wq') = 1
      BY <2>1, <2>2, EmptySeq
    <3>4. Chain(wq', accepted', u)
      BY <2>5, <3>2, <3>3 DEF Chain, IsRun
    <3>5. aw'.st = "none"
      BY <1>4, <1>5, <2>1 DEF StreamInv, FlagsInv
    <3>6. u[1] = Len(wire')
      BY <2>4, <3>2
    <3> QED BY <3>1, <3>4, <3>5, <3>6, OrderInvNext
  <2> QED BY <2>6, <2>7, <2>8 DEF StreamInv
<1>7. ASSUME NEW k \in 0..Head(call.todo) - 1, NEW outcome \in {"open", "broken"},
             AggressivePartial(k, outcome)
      PROVE  StreamInv'
  <2> DEFINE tail == SkipTransferred(NextBuffer, k)
             head == SubSeq(NextBuffer, 1, k)
  <2>1. /\ ~running /\ call.aggr /\ call'.aggr = FALSE
        /\ wire' = wire \o head /\ wq' = AppendOutgoingBuffer(wq, tail)
        /\ sock' = outcome
    BY <1>7 DEF AggressivePartial, TryAggressive, TakeBuffer
  <2>2. Len(wq) = 1 /\ wq[1].data = <<>>
    BY <1>3, <2>1 DEF StreamInv, AggressiveInv
  <2>3. Len(wire) = accepted
    BY <1>1, <1>3, <2>1, <2>2, EmptyQueue DEF Frontier
  <2>4. k \in 0..Len(NextBuffer) /\ k \in Nat
    BY <1>4, <1>5, <2>1
  <2>5. /\ head \in Seq(Bytes) /\ Len(head) = k /\ IsRun(head, accepted)
        /\ tail \in Seq(Bytes) /\ Len(tail) = Len(NextBuffer) - k
        /\ IsRun(tail, accepted + k)
    BY <1>2, <1>4, <1>5, <2>1, <2>4, Parts, PartsOfRun
  <2>6. tail # <<>>
    <3>1. Len(tail) # 0
      BY <1>4, <1>7, <2>1, <2>5
    <3> QED BY <3>1, EmptySeq
  <2> HIDE DEF head, tail
  <2>7. accepted' = accepted + k + Len(tail) /\ accepted' \in Nat
    <3>1. Len(tail) = Len(NextBuffer) - k /\ accepted' = accepted + Len(NextBuffer)
      BY <1>5, <2>5
    <3>2. Len(NextBuffer) \in Nat
      BY <1>4
    <3> HIDE DEF NextBuffer
    <3> QED BY <1>2, <2>4, <3>1, <3>2
  <2>8. Len(wire') = accepted + k /\ IsRun(wire', 0)
    <3>1. IsRun(head, 0 + Len(wire))
      BY <1>2, <2>3, <2>5
    <3>2. Len(wire \o head) = Len(wire) + Len(head) /\ IsRun(wire \o head, 0)
      BY <1>2, <1>3, <2>5, <3>1, ConcatRuns, 0 \in Nat
    <3> QED BY <2>1, <2>3, <2>5, <3>2
  <2>9. wq' \in Seq(Item) /\ WellFormed(wq') /\ Len(wq') >= 1
    BY <1>2, <1>3, <2>1, <2>2, <2>5, <2>6, WellFormedAppendOutgoing
  <2>10. FlagsInv' /\ QueueShape' /\ WellFormed(wq)' /\ AggressiveInv' /\ NothingStuck'
    BY <1>3, <1>4, <1>5, <2>1, <2>9
       DEF StreamInv, FlagsInv, QueueShape, WellFormed, AggressiveInv, NothingStuck
  <2>11. StreamInOrder'
    BY <1>2, <2>4, <2>5, <2>7, <2>8, LenProperties DEF StreamInOrder, IsRun
  <2>12. OrderInv'
    <3> DEFINE b == accepted + k
               z == [i \in 1..2 |-> b]
    <3>1. b \in Nat /\ z \in [1..Len(wq) + 1 -> 0..b] /\ z[1] = b /\ z[2] = b
      BY <1>2, <2>2, <2>4
    <3>2. Len(wq[1].data) = 0
      BY <2>2, EmptySeq
    <3> HIDE DEF b, z
    <3>3. Chain(wq, b, z)
      BY <2>2, <3>1, <3>2 DEF Chain, IsRun
    <3>4. IsRun(tail, b) /\ accepted' = b + Len(tail)
      BY <2>5, <2>7 DEF b
    <3>5. PICK u \in [1..Len(wq') + 1 -> 0..accepted'] :
             Chain(wq', accepted', u) /\ \A i \in 1..Len(wq) : u[i] = z[i]
      <4> DEFINE r == AppendOutgoingBuffer(wq, tail)
      <4>1. \E u \in [1..Len(r) + 1 -> 0..b + Len(tail)] :
              Chain(r, b + Len(tail), u) /\ \A i \in 1..Len(wq) : u[i] = z[i]
        BY <1>2, <2>5, <3>1, <3>3, <3>4, ChainAppendOutgoing
      <4> HIDE DEF r
      <4>2. wq' = r
        BY <2>1 DEF r
      <4> QED BY <3>4, <4>1, <4>2
    <3>6. u[1] = Len(wire')
      BY <2>2, <2>8, <3>1, <3>5 DEF b
    <3>7. aw'.st = "none"
      BY <1>4, <1>5, <2>1 DEF StreamInv, FlagsInv
    <3>8. Frontier(u)'
      BY <3>6, <3>7 DEF Frontier
    <3> QED BY <3>5, <3>8 DEF OrderInv
  <2> QED BY <2>10, <2>11, <2>12 DEF StreamInv
<1>8. CASE AppendOnly
  <2>1. /\ call'.aggr = FALSE /\ wire' = wire /\ sock' = sock
        /\ wq' = AppendOutgoingBuffer(wq, NextBuffer)
    BY <1>8 DEF AppendOnly, TakeBuffer
  <2>2. NextBuffer \in Seq(Bytes) /\ NextBuffer # <<>> /\ IsRun(NextBuffer, accepted)
    <3>1. Len(NextBuffer) # 0
      BY <1>4, <1>5, <2>1
    <3> QED BY <1>4, <1>5, <2>1, <3>1, EmptySeq
  <2>3. accepted' = accepted + Len(NextBuffer) /\ accepted' \in Nat /\ accepted' >= accepted
    BY <1>2, <1>4, <1>5, <2>1
  <2>4. wq' \in Seq(Item) /\ WellFormed(wq') /\ Len(wq') >= Len(wq)
    BY <1>2, <1>3, <2>1, <2>2, WellFormedAppendOutgoing
  <2>5. Len(wq') \in Nat
    BY <2>4, LenProperties
  <2>6. QueueShape'
    <3>1. running => Len(wq) >= 2
      BY DEF StreamInv, QueueShape
    <3>2. Len(wq') >= 1 /\ (running' => Len(wq') >= 2)
      BY <1>2, <1>5, <2>4, <2>5, <3>1
    <3> QED BY <2>4, <3>2 DEF QueueShape, WellFormed
  <2>7. FlagsInv' /\ WellFormed(wq)' /\ AggressiveInv' /\ NothingStuck'
    BY <1>3, <1>4, <1>5, <2>1, <2>4
       DEF StreamInv, FlagsInv, WellFormed, AggressiveInv, NothingStuck
  <2>8. StreamInOrder'
    BY <1>2, <2>1, <2>3 DEF StreamInv, StreamInOrder
  <2>9. OrderInv'
    <3>1. PICK u \in [1..Len(wq') + 1 -> 0..accepted'] :
             Chain(wq', accepted', u) /\ \A i \in 1..Len(wq) : u[i] = st[i]
      <4>1. \E u \in [1..Len(AppendOutgoingBuffer(wq, NextBuffer)) + 1
                          -> 0..accepted + Len(NextBuffer)] :
               /\ Chain(AppendOutgoingBuffer(wq, NextBuffer), accepted + Len(NextBuffer), u)
               /\ \A i \in 1..Len(wq) : u[i] = st[i]
        BY <1>1, <1>2, <2>2, ChainAppendOutgoing
      <4> QED BY <2>1, <2>3, <4>1
    <3>2. u[1] = st[1] /\ (running => u[2] = st[2])
      <4>1. 1 \in 1..Len(wq) /\ (running => 2 \in 1..Len(wq))
        BY <1>2 DEF StreamInv, QueueShape
      <4> QED BY <3>1, <4>1
    <3>3. aw.st # "none" => running
      BY DEF StreamInv, FlagsInv
    <3>4. Frontier(u)'
      BY <1>1, <1>3, <1>4, <1>5, <2>1, <3>2, <3>3 DEF Frontier
    <3> QED BY <3>1, <3>4 DEF OrderInv
  <2> QED BY <2>6, <2>7, <2>8, <2>9 DEF StreamInv
<1> QED BY <1>6, <1>7, <1>8 DEF TakeNextBuffer

(* The end of a send touches the queue only to attach the callback. *)
LEMMA StreamAppendDone ==
  ASSUME TypeOK, StreamInv, AppendDone
  PROVE  StreamInv'
<1>1. PICK st \in [1..Len(wq) + 1 -> 0..accepted] :
         Chain(wq, accepted, st) /\ Frontier(st)
  BY DEF StreamInv, OrderInv
<1>2. /\ wq \in Seq(Item) /\ accepted \in Nat /\ Len(wq) \in Nat /\ Len(wq) >= 1
  BY LenProperties DEF TypeOK, StreamInv, QueueShape
<1>3. pc = "append" /\ writeEnabled /\ WellFormed(wq)
  BY DEF AppendDone, StreamInv, FlagsInv
<1>4. /\ running' = running /\ aw' = aw /\ accepted' = accepted /\ wire' = wire
      /\ writeEnabled' = writeEnabled /\ shutReason' = shutReason /\ sock' = sock
      /\ pc' = (IF call.aggr THEN "idle" ELSE "initiate")
  BY DEF AppendDone, AllAggressive, stateVars
<1>5. Len(wq') = Len(wq) /\ \A i \in 1..Len(wq) : /\ wq'[i].data = wq[i].data
                                                  /\ wq'[i].ends = wq[i].ends
  <2>1. CASE wq' = wq
    BY <2>1
  <2>2. CASE wq' = [wq EXCEPT ![Len(wq)] = AppendCompletionCb(@, Len(sends))]
    <3> DEFINE n == Len(wq)
               b == AppendCompletionCb(wq[n], Len(sends))
    <3>1. n \in 1..n /\ wq[n] \in Item /\ Len(sends) \in Nat
      BY <1>2, ElementOfSeq, LenProperties DEF TypeOK
    <3>2. Append(wq[n].cbs, Len(sends)) \in Seq(Nat)
      BY <3>1, AppendProperties DEF Item
    <3>3. b \in Item /\ b.data = wq[n].data /\ b.ends = wq[n].ends
      BY <3>1, <3>2 DEF AppendCompletionCb, Item
    <3> HIDE DEF b
    <3>4. wq' = [wq EXCEPT ![n] = b]
      BY <2>2 DEF b
    <3>5. Len(wq') = n /\ \A j \in 1..n : wq'[j] = IF j = n THEN b ELSE wq[j]
      BY <1>2, <3>1, <3>3, <3>4, ExceptSeq
    <3> QED BY <3>3, <3>5
  <2> QED BY <2>1, <2>2 DEF AppendDone, CallbackItem
<1>6. FlagsInv' /\ AggressiveInv'
  BY <1>4 DEF StreamInv, FlagsInv, AggressiveInv
<1>7. QueueShape' /\ WellFormed(wq)'
  <2>1. \A i \in 1..Len(wq) - 1 : i \in 1..Len(wq)
    BY <1>2
  <2> QED BY <1>2, <1>3, <1>4, <1>5, <2>1 DEF StreamInv, QueueShape, WellFormed
<1>8. StreamInOrder'
  BY <1>4 DEF StreamInv, StreamInOrder
<1>9. NothingStuck'
  <2>1. SUFFICES ASSUME call.aggr, ~running
                 PROVE  Len(wire) = accepted /\ Len(wq) = 1
    BY <1>4, <1>5 DEF NothingStuck
  <2>2. Len(wq) = 1 /\ wq[1].data = <<>>
    BY <1>3, <2>1 DEF StreamInv, AggressiveInv
  <2> QED BY <1>1, <1>3, <2>1, <2>2, EmptyQueue DEF Frontier
<1>10. OrderInv'
  <2>1. Chain(wq', accepted', st)
    BY <1>1, <1>4, <1>5 DEF Chain
  <2>2. Frontier(st)'
    BY <1>1, <1>3, <1>4 DEF Frontier
  <2> QED BY <1>1, <1>4, <1>5, <2>1, <2>2 DEF OrderInv
<1> QED BY <1>6, <1>7, <1>8, <1>9, <1>10 DEF StreamInv

(* Each buffer of a send, and its end, keep the stream invariant. *)
LEMMA StreamAppendStep ==
  ASSUME TypeOK, StreamInv, AppendStep
  PROVE  StreamInv'
<1>1. CASE call.todo # <<>>
  BY <1>1, StreamTakeBuffer DEF AppendStep
<1>2. CASE call.todo = <<>>
  BY <1>2, StreamAppendDone DEF AppendStep
<1> QED BY <1>1, <1>2

(* A write that ended well takes the first item off the queue, and the bytes *)
(* of the second are the next ones.                                          *)
LEMMA ItemIsPopped ==
  ASSUME FlagsInv, accepted \in Nat,
         NEW q \in Seq(Item), Len(q) >= 2, WellFormed(q),
         NEW st \in [1..Len(q) + 1 -> 0..accepted], Chain(q, accepted, st),
         wq' = Tail(q), running' = FALSE, pc' = "initiate", call' = call,
         accepted' = accepted, writeEnabled' = writeEnabled,
         shutReason' = shutReason, sock' = sock,
         IsRun(wire', 0), Len(wire') = st[2], aw'.st = "none"
  PROVE  StreamInv'
<1>2. Len(q) \in Nat
  BY LenProperties
<1>3. WellFormed(Tail(q)) /\ Len(Tail(q)) >= 1
  BY WellFormedTail
<1>4. FlagsInv'
  BY DEF FlagsInv
<1>5. QueueShape' /\ WellFormed(wq)'
  BY <1>3 DEF QueueShape, WellFormed
<1>6. AggressiveInv' /\ NothingStuck'
  BY DEF AggressiveInv, NothingStuck
<1>7. StreamInOrder'
  <2>1. 2 \in 1..Len(q) + 1
    BY <1>2
  <2>2. st[2] \in 0..accepted
    BY <2>1
  <2>3. Len(wire') <= accepted'
    BY <1>2, <2>2
  <2> QED BY <2>3 DEF StreamInOrder, IsRun
<1>8. OrderInv'
  <2>1. PICK u \in [1..Len(Tail(q)) + 1 -> 0..accepted] :
          Chain(Tail(q), accepted, u) /\ u[1] = st[2]
    BY ChainTail
  <2>2. u \in [1..Len(wq') + 1 -> 0..accepted'] /\ Chain(wq', accepted', u)
    BY <2>1
  <2>3. u[1] = Len(wire')
    BY <2>1
  <2> QED BY <2>2, <2>3, OrderInvNext
<1> QED BY <1>4, <1>5, <1>6, <1>7, <1>8 DEF StreamInv

(* after_write without an error. *)
LEMMA StreamAfterWriteOk ==
  ASSUME TypeOK, StreamInv, NEW q \in Seq(Item), Len(q) >= 2, WellFormed(q),
         NEW st \in [1..Len(q) + 1 -> 0..accepted], Chain(q, accepted, st),
         AfterWriteOk(q), IsRun(wire', 0), Len(wire') = st[2], aw'.st = "none"
  PROVE  StreamInv'
<1>1. /\ wq' = Tail(q) /\ running' = FALSE /\ pc' = "initiate" /\ call' = call
      /\ accepted' = accepted /\ writeEnabled' = writeEnabled
      /\ shutReason' = shutReason /\ sock' = sock
  BY DEF AfterWriteOk, stateVars
<1>2. FlagsInv /\ accepted \in Nat
  BY DEF TypeOK, StreamInv
<1> QED BY <1>1, <1>2, ItemIsPopped

(* A write that failed shuts the connection down: what is left in the queue *)
(* is never written.                                                        *)
LEMMA StreamAfterWriteError ==
  ASSUME TypeOK, StreamInv, NEW q \in Seq(Item), Len(q) >= 2, WellFormed(q),
         NEW st \in [1..Len(q) + 1 -> 0..accepted], Chain(q, accepted, st),
         AfterWriteError(q), IsRun(wire', 0), Len(wire') <= accepted,
         aw'.st = "none"
  PROVE  StreamInv'
<1>1. /\ wq' = q /\ running' = running /\ pc' = "idle" /\ accepted' = accepted
      /\ ShutdownImpl("io_error", CancelWatch(watch))
  BY DEF AfterWriteError
<1>2. ~writeEnabled' /\ shutReason' # "none" /\ sock' = "shut"
  <2>1. "io_error" \in Reasons
    BY DEF Reasons
  <2> QED BY <1>1, <2>1, AfterShutdownImpl
<1>3. FlagsInv' /\ AggressiveInv' /\ NothingStuck'
  BY <1>1, <1>2 DEF FlagsInv, AggressiveInv, NothingStuck
<1>4. Len(q) >= 1
  <2>1. Len(q) \in Nat
    BY LenProperties
  <2> QED BY <2>1
<1>5. QueueShape' /\ WellFormed(wq)'
  BY <1>1, <1>4 DEF QueueShape, WellFormed
<1>6. StreamInOrder'
  BY <1>1 DEF StreamInOrder, IsRun
<1>7. OrderInv'
  BY <1>1, <1>2, OrderInvNext
<1> QED BY <1>3, <1>5, <1>6, <1>7 DEF StreamInv

(* Starting an asynchronous write freezes the first item; what is left of  *)
(* it continues the bytes on the wire.                                     *)
LEMMA StreamStartAsyncWrite ==
  ASSUME TypeOK, StreamInv, Front.ends # {},
         NEW st \in [1..Len(wq) + 1 -> 0..accepted], Chain(wq, accepted, st),
         NEW left \in Seq(Bytes), StartAsyncWrite(left),
         IsRun(wire', 0), Len(wire') <= accepted,
         IsRun(left, Len(wire')), Len(wire') + Len(left) = st[2]
  PROVE  StreamInv'
<1>1. /\ wq' = Freeze(wq) /\ running' = TRUE /\ pc' = "idle"
      /\ accepted' = accepted /\ writeEnabled' = writeEnabled
      /\ shutReason' = shutReason /\ sock' = sock
      /\ aw'.st = "pending" /\ aw'.left = left
  BY DEF StartAsyncWrite, stateVars
<1>2. wq \in Seq(Item) /\ Len(wq) >= 1 /\ WellFormed(wq) /\ accepted \in Nat
  BY DEF TypeOK, StreamInv, QueueShape
<1>3. WellFormed(Freeze(wq)) /\ Len(Freeze(wq)) >= 2
  BY <1>2, WellFormedFreeze DEF Front
<1>4. FlagsInv' /\ AggressiveInv' /\ NothingStuck'
  BY <1>1 DEF StreamInv, FlagsInv, AggressiveInv, NothingStuck
<1>5. QueueShape' /\ WellFormed(wq)'
  <2>1. Len(Freeze(wq)) >= 1
    <3>1. Len(Freeze(wq)) \in Nat
      BY <1>2, FreezeFacts, LenProperties
    <3> QED BY <1>3, <3>1
  <2> QED BY <1>1, <1>3, <2>1 DEF QueueShape, WellFormed
<1>6. StreamInOrder'
  BY <1>1 DEF StreamInOrder, IsRun
<1>7. OrderInv'
  <2>1. PICK u \in [1..Len(Freeze(wq)) + 1 -> 0..accepted] :
          Chain(Freeze(wq), accepted, u) /\ u[1] = st[1] /\ u[2] = st[2]
    BY <1>2, ChainFreeze
  <2>2. u \in [1..Len(wq') + 1 -> 0..accepted'] /\ Chain(wq', accepted', u)
    BY <1>1, <2>1
  <2>3. IsRun(aw'.left, Len(wire')) /\ Len(wire') + Len(aw'.left) = u[2]
    BY <1>1, <2>1
  <2> QED BY <1>1, <2>2, <2>3, OrderInvNext
<1> QED BY <1>4, <1>5, <1>6, <1>7 DEF StreamInv

(* initiate_write_if_necessary *)
LEMMA StreamInitiateWrite ==
  ASSUME TypeOK, StreamInv, InitiateWrite
  PROVE  StreamInv'
<1>1. PICK st \in [1..Len(wq) + 1 -> 0..accepted] :
         Chain(wq, accepted, st) /\ Frontier(st)
  BY DEF StreamInv, OrderInv
<1>2. /\ wq \in Seq(Item) /\ accepted \in Nat /\ wire \in Seq(Bytes)
      /\ Len(wire) \in Nat /\ Len(wq) \in Nat /\ Len(wq) >= 1
      /\ WellFormed(wq) /\ IsRun(wire, 0)
  BY LenProperties DEF TypeOK, StreamInv, QueueShape, StreamInOrder, IsRun
<1>3. /\ Front.data \in Seq(Bytes) /\ Size(Front) \in Nat
      /\ Size(Front) = Len(Front.data)
  BY <1>2, FrontType
<1>4. /\ st[1] \in Nat /\ st[2] \in Nat /\ st[2] <= accepted
      /\ IsRun(Front.data, st[1]) /\ st[2] = st[1] + Len(Front.data)
  <2>1. 1 \in 1..Len(wq)
    BY <1>2
  <2>2. /\ st[1] \in Nat /\ st[1 + 1] \in Nat /\ st[1 + 1] <= accepted
        /\ IsRun(wq[1].data, st[1]) /\ st[1 + 1] = st[1] + Len(wq[1].data)
    BY <1>1, <1>2, <2>1, ChainItem
  <2> QED BY <2>2 DEF Front
<1>5. CASE SkipInitiate
  <2>1. /\ wq' = wq /\ running' = running /\ aw' = aw /\ pc' = "idle"
        /\ accepted' = accepted /\ wire' = wire /\ writeEnabled' = writeEnabled
        /\ shutReason' = shutReason /\ sock' = sock /\ pc = "initiate"
        /\ running \/ Front.ends = {}
    BY <1>5 DEF SkipInitiate, stateVars
  <2>2. FlagsInv' /\ QueueShape' /\ WellFormed(wq)' /\ AggressiveInv' /\ StreamInOrder'
    BY <2>1 DEF StreamInv, FlagsInv, QueueShape, WellFormed, AggressiveInv, StreamInOrder
  <2>3. NothingStuck'
    <3>1. SUFFICES ASSUME ~running PROVE Len(wire) = accepted /\ Len(wq) = 1
      BY <2>1 DEF NothingStuck
    <3>2. wq[1].data = <<>>
      BY <1>2, <2>1, <3>1 DEF Front, WellFormed
    <3>3. Len(wq) = 1
      <4>1. SUFFICES ASSUME Len(wq) >= 2 PROVE FALSE
        BY <1>2, OneOrMore
      <4>2. 1 \in 1..Len(wq) - 1
        BY <1>2, <4>1
      <4> QED BY <1>2, <3>2, <4>2 DEF WellFormed
    <3>4. st[1] = Len(wire)
      BY <1>1, <2>1, <3>1 DEF Frontier
    <3> QED BY <1>1, <3>2, <3>3, <3>4, EmptyQueue
  <2>4. OrderInv'
    <3>1. Chain(wq', accepted', st)
      BY <1>1, <2>1
    <3> QED BY <1>1, <2>1, <3>1, OrderInvNext DEF Frontier
  <2> QED BY <2>2, <2>3, <2>4 DEF StreamInv
<1>6. ASSUME CanInitiate
      PROVE  /\ st[1] = Len(wire) /\ aw.st = "none" /\ Front.ends # {}
             /\ Freeze(wq) \in Seq(Item) /\ WellFormed(Freeze(wq))
             /\ Len(Freeze(wq)) >= 2
  <2>1. ~running /\ pc = "initiate" /\ Front.ends # {}
    BY <1>6 DEF CanInitiate
  <2>2. st[1] = Len(wire) /\ aw.st = "none"
    BY <1>1, <2>1 DEF Frontier, StreamInv, FlagsInv
  <2>3. Freeze(wq) \in Seq(Item)
    BY <1>2, FreezeFacts
  <2>4. WellFormed(Freeze(wq)) /\ Len(Freeze(wq)) >= 2
    BY <1>2, <2>1, WellFormedFreeze DEF Front
  <2> QED BY <2>1, <2>2, <2>3, <2>4
<1>7. PICK u \in [1..Len(Freeze(wq)) + 1 -> 0..accepted] :
         Chain(Freeze(wq), accepted, u) /\ u[1] = st[1] /\ u[2] = st[2]
  BY <1>1, <1>2, ChainFreeze
<1>8. CASE SyncWriteAll
  <2>1. CanInitiate /\ wire' = wire \o Front.data /\ AfterWriteOk(Freeze(wq)) /\ aw' = aw
    BY <1>8 DEF SyncWriteAll
  <2>2. IsRun(Front.data, 0 + Len(wire))
    BY <1>2, <1>4, <1>6, <2>1
  <2>3. Len(wire \o Front.data) = Len(wire) + Len(Front.data) /\ IsRun(wire \o Front.data, 0)
    BY <1>2, <1>3, <2>2, ConcatRuns, 0 \in Nat
  <2>4. IsRun(wire', 0) /\ Len(wire') = u[2] /\ aw'.st = "none"
    BY <1>4, <1>6, <1>7, <2>1, <2>3
  <2> QED BY <1>6, <1>7, <2>1, <2>4, StreamAfterWriteOk
<1>9. ASSUME NEW k \in 0..Size(Front) - 1, SyncWriteError(k) \/ SyncWriteWouldBlock(k)
      PROVE  StreamInv'
  <2> DEFINE head == SubSeq(Front.data, 1, k)
             left == SkipTransferred(Front.data, k)
  <2>1. CanInitiate /\ wire' = wire \o head
    BY <1>9 DEF SyncWriteError, SyncWriteWouldBlock
  <2>2. k \in 0..Len(Front.data) /\ k \in Nat /\ k <= Len(Front.data)
    BY <1>3
  <2>3. /\ head \in Seq(Bytes) /\ Len(head) = k /\ IsRun(head, st[1])
        /\ left \in Seq(Bytes) /\ Len(left) = Len(Front.data) - k
        /\ IsRun(left, st[1] + k)
    BY <1>3, <1>4, <2>2, Parts, PartsOfRun
  <2> HIDE DEF head, left
  <2>4. IsRun(head, 0 + Len(wire))
    BY <1>2, <1>6, <2>1, <2>3
  <2>5. Len(wire \o head) = Len(wire) + Len(head) /\ IsRun(wire \o head, 0)
    BY <1>2, <2>3, <2>4, ConcatRuns, 0 \in Nat
  <2>6. Len(wire') = st[1] + k /\ IsRun(wire', 0)
    BY <1>6, <2>1, <2>3, <2>5
  <2>7. Len(wire') <= accepted
    <3>1. Len(Front.data) \in Nat
      BY <1>3
    <3> QED BY <1>2, <1>4, <2>2, <2>6, <3>1
  <2>8. CASE SyncWriteError(k)
    <3>1. AfterWriteError(Freeze(wq)) /\ aw' = aw
      BY <2>8 DEF SyncWriteError
    <3> QED BY <1>6, <1>7, <2>1, <2>6, <2>7, <3>1, StreamAfterWriteError
  <2>9. CASE SyncWriteWouldBlock(k)
    <3>1. StartAsyncWrite(left)
      BY <2>9 DEF SyncWriteWouldBlock, left
    <3>2. IsRun(left, Len(wire')) /\ Len(wire') + Len(left) = st[2]
      <4>1. Len(Front.data) \in Nat
        BY <1>3
      <4> QED BY <1>4, <2>2, <2>3, <2>6, <4>1
    <3> QED BY <1>1, <1>6, <2>1, <2>3, <2>6, <2>7, <3>1, <3>2, StreamStartAsyncWrite
  <2> QED BY <1>9, <2>8, <2>9
<1>10. CASE StartLargeWrite
  <2>1. CanInitiate /\ StartAsyncWrite(Front.data) /\ wire' = wire
    BY <1>10 DEF StartLargeWrite
  <2>2. /\ IsRun(wire', 0) /\ IsRun(Front.data, Len(wire'))
        /\ Len(wire') + Len(Front.data) = st[2]
    BY <1>2, <1>4, <1>6, <2>1
  <2>3. Len(wire') <= accepted
    BY <2>1 DEF StreamInv, StreamInOrder
  <2> QED BY <1>1, <1>3, <1>6, <2>1, <2>2, <2>3, StreamStartAsyncWrite
<1> QED BY <1>5, <1>8, <1>9, <1>10 DEF InitiateWrite

(* The asynchronous write, its failure and its completion *)
LEMMA StreamAsyncWrite ==
  ASSUME TypeOK, StreamInv, AsyncWrite
  PROVE  StreamInv'
<1>1. PICK st \in [1..Len(wq) + 1 -> 0..accepted] :
         Chain(wq, accepted, st) /\ Frontier(st)
  BY DEF StreamInv, OrderInv
<1>2. /\ wq \in Seq(Item) /\ accepted \in Nat /\ wire \in Seq(Bytes)
      /\ Len(wire) \in Nat /\ Len(wq) \in Nat /\ Len(wq) >= 1
      /\ WellFormed(wq) /\ IsRun(wire, 0) /\ Len(wire) <= accepted
  BY LenProperties DEF TypeOK, StreamInv, QueueShape, StreamInOrder, IsRun
<1>3. /\ aw \in AsyncWriteState /\ aw.left \in Seq(Bytes) /\ Len(aw.left) \in Nat
  BY LenProperties DEF TypeOK, AsyncWriteState
<1>4. ASSUME aw.st # "none"
      PROVE  running /\ Len(wq) >= 2 /\ st[2] \in Nat /\ st[2] <= accepted
  <2>1. running /\ Len(wq) >= 2
    BY <1>4 DEF StreamInv, FlagsInv, QueueShape
  <2>2. 2 \in 1..Len(wq) + 1
    BY <1>2
  <2>3. st[2] \in 0..accepted
    BY <2>2
  <2> QED BY <1>2, <2>1, <2>3
<1>5. ASSUME NEW k \in 1..Len(aw.left), AsyncTransfer(k)
      PROVE  StreamInv'
  <2> DEFINE head == SubSeq(aw.left, 1, k)
             left == SkipTransferred(aw.left, k)
  <2>1. /\ aw.st = "pending" /\ wire' = wire \o head /\ aw'.left = left
        /\ aw'.st = (IF k = Len(aw.left) THEN "ok" ELSE "pending")
        /\ wq' = wq /\ running' = running /\ pc' = pc /\ call' = call
        /\ sends' = sends /\ accepted' = accepted /\ writeEnabled' = writeEnabled
        /\ shutReason' = shutReason /\ sock' = sock
    BY <1>3, <1>5 DEF AsyncTransfer, stateVars, AsyncWriteState
  <2>2. running /\ Len(wq) >= 2 /\ st[2] \in Nat /\ st[2] <= accepted
    BY <1>4, <2>1
  <2>3. IsRun(aw.left, Len(wire)) /\ Len(wire) + Len(aw.left) = st[2]
    BY <1>1, <2>1 DEF Frontier
  <2>4. k \in 0..Len(aw.left) /\ k \in Nat /\ k <= Len(aw.left)
    BY <1>3
  <2>5. /\ head \in Seq(Bytes) /\ Len(head) = k /\ IsRun(head, Len(wire))
        /\ left \in Seq(Bytes) /\ Len(left) = Len(aw.left) - k
        /\ IsRun(left, Len(wire) + k)
    BY <1>2, <1>3, <2>3, <2>4, Parts, PartsOfRun
  <2> HIDE DEF head, left
  <2>6. IsRun(head, 0 + Len(wire))
    BY <1>2, <2>5
  <2>7. Len(wire \o head) = Len(wire) + Len(head) /\ IsRun(wire \o head, 0)
    BY <1>2, <2>5, <2>6, ConcatRuns, 0 \in Nat
  <2>8. Len(wire') = Len(wire) + k /\ IsRun(wire', 0)
    BY <2>1, <2>5, <2>7
  <2>9. IsRun(left, Len(wire')) /\ Len(wire') + Len(left) = st[2]
    <3>1. IsRun(left, Len(wire'))
      BY <2>5, <2>8
    <3>2. Len(wire') + Len(left) = (Len(wire) + k) + (Len(aw.left) - k)
      BY <2>5, <2>8
    <3>3. (Len(wire) + k) + (Len(aw.left) - k) = Len(wire) + Len(aw.left)
      <4>1. \A x, y, z \in Nat : (x + z) + (y - z) = x + y
        OBVIOUS
      <4> HIDE DEF AsyncWriteState, Bytes
      <4> QED BY <1>2, <1>3, <2>4, <4>1, Zenon
    <3> QED BY <2>3, <3>1, <3>2, <3>3
  <2>10. FlagsInv'
    <3>1. k = Len(aw.left) => left = <<>>
      <4>1. k = Len(aw.left) => Len(left) = 0
        BY <1>3, <2>5
      <4> QED BY <2>5, <4>1, EmptySeq
    <3> QED BY <2>1, <2>2, <3>1 DEF StreamInv, FlagsInv
  <2>11. QueueShape' /\ WellFormed(wq)' /\ AggressiveInv' /\ NothingStuck'
    BY <2>1, <2>2 DEF StreamInv, QueueShape, WellFormed, AggressiveInv, NothingStuck
  <2>12. StreamInOrder'
    <3>1. Len(wire') <= accepted
      BY <1>2, <1>3, <2>2, <2>3, <2>4, <2>8
    <3> QED BY <2>1, <2>8, <3>1 DEF StreamInOrder, IsRun
  <2>13. OrderInv'
    <3>1. st \in [1..Len(wq') + 1 -> 0..accepted'] /\ Chain(wq', accepted', st)
      BY <1>1, <2>1
    <3> QED BY <2>1, <2>2, <2>9, <3>1, OrderInvNext
  <2> QED BY <2>10, <2>11, <2>12, <2>13 DEF StreamInv
<1>6. CASE AsyncFail
  <2>1. /\ aw.st = "pending" /\ aw'.st = "error" /\ aw'.left = aw.left
        /\ wq' = wq /\ running' = running /\ pc' = pc /\ call' = call
        /\ sends' = sends /\ accepted' = accepted /\ wire' = wire
        /\ writeEnabled' = writeEnabled /\ shutReason' = shutReason
        /\ sock' = IF sock = "open" THEN "broken" ELSE sock
    BY <1>3, <1>6 DEF AsyncFail, AsyncWriteState
  <2>2. running
    BY <1>4, <2>1
  <2>3. FlagsInv'
    BY <2>1, <2>2 DEF StreamInv, FlagsInv
  <2>4. QueueShape' /\ WellFormed(wq)' /\ AggressiveInv' /\ NothingStuck' /\ StreamInOrder'
    BY <2>1 DEF StreamInv, QueueShape, WellFormed, AggressiveInv, NothingStuck, StreamInOrder
  <2>5. OrderInv'
    <3>1. st \in [1..Len(wq') + 1 -> 0..accepted'] /\ Chain(wq', accepted', st)
      BY <1>1, <2>1
    <3> QED BY <2>1, <2>2, <3>1, OrderInvNext
  <2> QED BY <2>3, <2>4, <2>5 DEF StreamInv
<1>7. CASE AsyncWriteDone
  <2>1. /\ aw.st \in {"ok", "error"} /\ aw'.st = "none" /\ wire' = wire
        /\ IF aw.st = "ok" THEN AfterWriteOk(wq) ELSE AfterWriteError(wq)
    BY <1>3, <1>7 DEF AsyncWriteDone, AsyncWriteState
  <2>2. Len(wq) >= 2
    BY <1>4, <2>1
  <2>3. IsRun(wire', 0) /\ Len(wire') <= accepted
    BY <1>2, <2>1
  <2>4. CASE aw.st = "ok"
    <3>1. aw.left = <<>> /\ Len(wire) + Len(aw.left) = st[2]
      BY <1>1, <2>4 DEF StreamInv, FlagsInv, Frontier
    <3>2. Len(wire') = st[2]
      BY <1>2, <2>1, <3>1, EmptySeq
    <3> QED BY <1>1, <1>2, <2>1, <2>2, <2>3, <2>4, <3>2, StreamAfterWriteOk
  <2>5. CASE aw.st = "error"
    BY <1>1, <1>2, <2>1, <2>2, <2>3, <2>5, StreamAfterWriteError
  <2> QED BY <2>1, <2>4, <2>5
<1> QED BY <1>5, <1>6, <1>7 DEF AsyncWrite

(* Timeouts shut the connection down or do nothing. *)
LEMMA StreamWriteTimeout ==
  ASSUME TypeOK, StreamInv, WriteTimeout
  PROVE  StreamInv'
<1>1. CASE TimerExpires
  BY <1>1, StreamFrame DEF TimerExpires, writeVars, stateVars, StreamInv, FlagsInv
<1>2. ASSUME NEW t \in timeouts, HandleWriteOperationTimeout(t)
      PROVE  StreamInv'
  <2>1. /\ wq' = wq /\ running' = running /\ aw' = aw /\ pc' = pc /\ call' = call
        /\ accepted' = accepted /\ wire' = wire /\ pc = "idle"
    BY <1>2 DEF HandleWriteOperationTimeout, StrandFree, writeVars
  <2>2. CASE TimeoutIsCurrent(t)
    <3>1. "write_timeout" \in Reasons
      BY DEF Reasons
    <3>2. ~writeEnabled' /\ shutReason' # "none" /\ sock' = "shut"
      BY <1>2, <2>2, <3>1, AfterShutdownImpl DEF HandleWriteOperationTimeout
    <3> QED BY <2>1, <3>2, StreamFrame
  <2>3. CASE ~TimeoutIsCurrent(t)
    <3>1. writeEnabled' = writeEnabled /\ shutReason' = shutReason /\ sock' = sock
      BY <1>2, <2>3 DEF HandleWriteOperationTimeout, stateVars
    <3> QED BY <2>1, <3>1, StreamFrame DEF StreamInv, FlagsInv
  <2> QED BY <2>2, <2>3
<1> QED BY <1>1, <1>2 DEF WriteTimeout

(* Reading moves no byte of the stream; a read error shuts down. *)
LEMMA StreamRead ==
  ASSUME TypeOK, StreamInv, Read
  PROVE  StreamInv'
<1>1. /\ wq' = wq /\ running' = running /\ aw' = aw /\ pc' = pc /\ call' = call
      /\ accepted' = accepted /\ wire' = wire /\ pc = "idle"
  BY DEF Read, StartReading, StopReading, AfterReadInput, AfterReadNext,
         AfterReadError, UserCall, StrandFree, writeVars
<1>2. CASE StartReading \/ StopReading \/ AfterReadInput \/ AfterReadNext
  <2>1. writeEnabled' = writeEnabled /\ shutReason' = shutReason /\ sock' = sock
    BY <1>2 DEF StartReading, StopReading, AfterReadInput, AfterReadNext, stateVars
  <2> QED BY <1>1, <2>1, StreamFrame DEF StreamInv, FlagsInv
<1>3. ASSUME NEW reason \in {"eof", "io_error"}, AfterReadError(reason)
      PROVE  StreamInv'
  <2>1. reason \in Reasons
    BY DEF Reasons
  <2>2. ~writeEnabled' /\ shutReason' # "none" /\ sock' = "shut"
    BY <1>3, <2>1, AfterShutdownImpl DEF AfterReadError
  <2> QED BY <1>1, <2>2, StreamFrame
<1> QED BY <1>2, <1>3 DEF Read

(* Shutdown, and the end of the connection. *)
LEMMA StreamLifetime ==
  ASSUME TypeOK, StreamInv, Lifetime
  PROVE  StreamInv'
<1>1. CASE Shutdown
  <2>1. /\ wq' = wq /\ running' = running /\ aw' = aw /\ pc' = pc /\ call' = call
        /\ accepted' = accepted /\ wire' = wire /\ pc = "idle"
        /\ ShutdownImpl("user_initiated", watch)
    BY <1>1 DEF Shutdown, UserCall, writeVars
  <2>2. "user_initiated" \in Reasons
    BY DEF Reasons
  <2>3. ~writeEnabled' /\ shutReason' # "none" /\ sock' = "shut"
    BY <2>1, <2>2, AfterShutdownImpl
  <2> QED BY <2>1, <2>3, StreamFrame
<1>2. CASE (\E h \in BOOLEAN : ResetShutdownHandler(h)) \/ Release \/ StopIo \/ Terminated
  <2>1. /\ wq' = wq /\ running' = running /\ aw' = aw /\ pc' = pc /\ call' = call
        /\ accepted' = accepted /\ wire' = wire /\ sends' = sends
        /\ writeEnabled' = writeEnabled /\ shutReason' = shutReason /\ sock' = sock
    BY <1>2 DEF ResetShutdownHandler, Release, StopIo, Terminated, vars, writeVars, stateVars
  <2> QED BY <2>1, StreamFrame DEF StreamInv, FlagsInv
<1>3. CASE Destroy
  <2>1. /\ wq' = wq /\ running' = running /\ aw' = aw /\ pc' = pc /\ call' = call
        /\ accepted' = accepted /\ wire' = wire
        /\ writeEnabled' = writeEnabled /\ shutReason' = shutReason /\ sock' = sock
    BY <1>3 DEF Destroy, stateVars
  <2>2. pc = "append" => sends' # <<>>
    <3>1. SUFFICES ASSUME sends # <<>> PROVE sends' # <<>>
      BY DEF StreamInv, FlagsInv
    <3>2. DOMAIN sends' = DOMAIN sends
      BY <1>3 DEF Destroy, HandleRemainingWriteQueue
    <3>3. DOMAIN sends # {}
      <4>1. sends \in Seq(SendRecord)
        BY DEF TypeOK
      <4>2. Len(sends) \in Nat /\ Len(sends) # 0 /\ DOMAIN sends = 1..Len(sends)
        BY <3>1, <4>1, LenProperties, EmptySeq
      <4>3. 1 \in 1..Len(sends)
        BY <4>2
      <4> QED BY <4>2, <4>3
    <3> QED BY <3>2, <3>3
  <2> QED BY <2>1, <2>2, StreamFrame DEF StreamInv, FlagsInv
<1> QED BY <1>1, <1>2, <1>3 DEF Lifetime

(* Every step keeps the types and the stream invariant.  Type correctness   *)
(* needs the stream invariant too: the handlers take the front and the back *)
(* of a queue that must not be empty.                                       *)
LEMMA StreamNext ==
  ASSUME TypeOK, StreamInv, [Next]_vars
  PROVE  TypeOK' /\ StreamInv'
<1>1. Len(wq) >= 1
  BY DEF StreamInv, QueueShape
<1>2. CASE Send
  BY <1>2, SendType, StreamSend
<1>3. CASE AppendStep
  <2>1. sends # <<>>
    BY <1>3 DEF AppendStep, StreamInv, FlagsInv
  <2> QED BY <1>1, <1>3, <2>1, AppendStepType, StreamAppendStep
<1>4. CASE InitiateWrite
  BY <1>1, <1>4, InitiateWriteType, StreamInitiateWrite
<1>5. CASE AsyncWrite
  BY <1>1, <1>5, AsyncWriteType, StreamAsyncWrite
<1>6. CASE WriteTimeout
  BY <1>6, WriteTimeoutType, StreamWriteTimeout
<1>7. CASE Read
  BY <1>7, ReadType, StreamRead
<1>8. CASE Lifetime
  BY <1>8, LifetimeType, StreamLifetime
<1>9. CASE UNCHANGED vars
  <2>2. TypeOK'
    BY <1>9 DEF vars, writeVars, stateVars, readVars, userVars, TypeOK
  <2>3. /\ wq' = wq /\ running' = running /\ aw' = aw /\ pc' = pc /\ call' = call
        /\ accepted' = accepted /\ wire' = wire /\ sends' = sends
        /\ writeEnabled' = writeEnabled /\ shutReason' = shutReason /\ sock' = sock
    BY <1>9 DEF vars, writeVars, stateVars
  <2>4. StreamInv'
    BY <2>3, StreamFrame DEF StreamInv, FlagsInv
  <2> QED BY <2>2, <2>4
<1> QED BY <1>2, <1>3, <1>4, <1>5, <1>6, <1>7, <1>8, <1>9 DEF Next

(* The inductive invariant holds in every state of the connection. *)
THEOREM ConnectionInvariant == Spec => [](TypeOK /\ StreamInv)
<1>1. Init => TypeOK /\ StreamInv
  BY TypeInit, StreamInit
<1>2. TypeOK /\ StreamInv /\ [Next]_vars => (TypeOK /\ StreamInv)'
  BY StreamNext
<1> QED BY <1>1, <1>2, PTL DEF Spec

(* Type correctness, whatever the sizes, the buffers and the users' calls. *)
THEOREM TypeCorrect == Spec => []TypeOK
BY ConnectionInvariant, PTL

(* The peer receives the accepted bytes in order, none twice, none skipped. *)
THEOREM StreamIsOrdered == Spec => []StreamInOrder
<1>1. TypeOK /\ StreamInv => StreamInOrder
  BY DEF StreamInv
<1> QED BY <1>1, ConnectionInvariant, PTL

(* The write queue keeps its shape: never empty, the frozen item of a       *)
(* running write is never its back, and only the back may be empty.         *)
THEOREM QueueIsShaped == Spec => []QueueShape
<1>1. TypeOK /\ StreamInv => QueueShape
  BY DEF StreamInv
<1> QED BY <1>1, ConnectionInvariant, PTL

(* An idle, open connection without a running write has written everything. *)
THEOREM NothingIsStuck == Spec => []NothingStuck
<1>1. TypeOK /\ StreamInv => NothingStuck
  BY DEF StreamInv
<1> QED BY <1>1, ConnectionInvariant, PTL
-----------------------------------------------------------------------------
(* The connection implements the byte stream                                 *)

(* Of two runs from the first byte on, the longer one extends the shorter.  *)
LEMMA RunExtends ==
  ASSUME NEW s \in Seq(Bytes), NEW t \in Seq(Bytes), IsRun(s, 0), IsRun(t, 0),
         Len(s) <= Len(t)
  PROVE  /\ Len(t) - Len(s) \in Nat
         /\ t = s \o [j \in 1..(Len(t) - Len(s)) |-> Len(s) + j]
         /\ Len(s) = Len(t) => s = t
<1> DEFINE d == Len(t) - Len(s)
           r == [j \in 1..d |-> Len(s) + j]
<1>1. Len(s) \in Nat /\ Len(t) \in Nat /\ d \in Nat /\ Len(s) + d = Len(t)
  BY LenProperties
<1> HIDE DEF d
<1>2. r \in Seq(Bytes) /\ Len(r) = d /\ IsRun(r, Len(s))
  BY <1>1, RunOfNumbers
<1> HIDE DEF r
<1>3. IsRun(r, 0 + Len(s))
  BY <1>1, <1>2
<1>4. s \o r \in Seq(Bytes) /\ Len(s \o r) = Len(s) + d /\ IsRun(s \o r, 0)
  BY <1>2, <1>3, ConcatRuns, 0 \in Nat
<1>5. ASSUME NEW x \in Seq(Bytes), IsRun(x, 0), Len(x) = Len(t)
      PROVE  x = t
  <2>1. \A i \in 1..Len(x) : x[i] = t[i]
    BY <1>5 DEF IsRun
  <2> QED BY <1>5, <2>1, SeqEqual
<1>6. s \o r = t
  BY <1>1, <1>4, <1>5
<1> QED BY <1>1, <1>5, <1>6 DEF d, r

(* A step that keeps the order, never takes back a byte and moves none once *)
(* the connection is shut down is a step of the byte stream.                *)
LEMMA StreamStep ==
  ASSUME TypeOK, StreamInOrder, TypeOK', StreamInOrder',
         Len(wire) <= Len(wire'), accepted <= accepted',
         writeEnabled' => writeEnabled,
         ~writeEnabled => accepted' = accepted /\ Len(wire') = Len(wire),
         writeEnabled /\ ~writeEnabled' => accepted' = accepted
  PROVE  [Stream!Next]_(Stream!streamVars)
<1>1. /\ wire \in Seq(Bytes) /\ wire' \in Seq(Bytes)
      /\ accepted \in Nat /\ accepted' \in Nat
      /\ writeEnabled \in BOOLEAN /\ writeEnabled' \in BOOLEAN
  BY DEF TypeOK
<1>2. /\ IsRun(wire, 0) /\ IsRun(wire', 0) /\ Len(wire') <= accepted'
  BY DEF StreamInOrder, IsRun
<1> DEFINE k == Len(wire') - Len(wire)
<1>3. /\ k \in Nat
      /\ wire' = wire \o [j \in 1..k |-> Len(wire) + j]
      /\ Len(wire) = Len(wire') => wire' = wire
  BY <1>1, <1>2, RunExtends
<1>4. Len(wire) \in Nat /\ Len(wire') \in Nat
  BY <1>1, LenProperties
<1>5. Stream!HandOn(k)
  BY <1>3 DEF Stream!HandOn
<1>6. k \in 0..(accepted' - Len(wire))
  BY <1>1, <1>2, <1>3, <1>4
<1>7. Len(wire) # Len(wire') => k \in 1..(accepted' - Len(wire))
  BY <1>1, <1>2, <1>3, <1>4
<1> HIDE DEF k
<1>8. CASE ~writeEnabled
  BY <1>1, <1>3, <1>8 DEF Stream!streamVars
<1>9. CASE writeEnabled /\ ~writeEnabled'
  <2>1. accepted' = accepted
    BY <1>9
  <2>2. Stream!Close
    BY <1>1, <1>5, <1>6, <1>9, <2>1 DEF Stream!Close
  <2> QED BY <2>2 DEF Stream!Next
<1>10. CASE writeEnabled /\ writeEnabled' /\ accepted' # accepted
  <2>1. accepted' > accepted /\ writeEnabled' = writeEnabled
    BY <1>1, <1>10
  <2>2. Stream!Accept
    BY <1>1, <1>5, <1>6, <1>10, <2>1 DEF Stream!Accept
  <2> QED BY <2>2 DEF Stream!Next
<1>11. CASE writeEnabled /\ writeEnabled' /\ accepted' = accepted
  <2>1. writeEnabled' = writeEnabled
    BY <1>1, <1>11
  <2>2. CASE Len(wire) = Len(wire')
    BY <1>3, <1>11, <2>1, <2>2 DEF Stream!streamVars
  <2>3. CASE Len(wire) # Len(wire')
    <3>1. k \in 1..(accepted - Len(wire))
      BY <1>7, <1>11, <2>3
    <3>2. Stream!Transmit
      BY <1>5, <1>11, <2>1, <3>1 DEF Stream!Transmit
    <3> QED BY <3>2 DEF Stream!Next
  <2> QED BY <2>2, <2>3
<1> QED BY <1>1, <1>8, <1>9, <1>10, <1>11

(* What one step of the connection does to the stream. *)
LEMMA ConnectionStep ==
  ASSUME TypeOK, StreamInv, [Next]_vars
  PROVE  /\ Len(wire) <= Len(wire') /\ accepted <= accepted'
         /\ writeEnabled' => writeEnabled
         /\ ~writeEnabled => accepted' = accepted /\ Len(wire') = Len(wire)
         /\ writeEnabled /\ ~writeEnabled' => accepted' = accepted
<1>1. /\ wire \in Seq(Bytes) /\ Len(wire) \in Nat /\ accepted \in Nat
      /\ wq \in Seq(Item) /\ Len(wq) >= 1 /\ writeEnabled \in BOOLEAN
      /\ aw.left \in Seq(Bytes)
  BY LenProperties DEF TypeOK, StreamInv, QueueShape, AsyncWriteState
<1>2. sock = "open" => writeEnabled
  BY DEF StreamInv, FlagsInv
<1>3. ASSUME NEW x \in Seq(Bytes), wire' = wire \o x
      PROVE  /\ Len(wire) <= Len(wire')
             /\ Len(x) = 0 => Len(wire') = Len(wire)
  <2>1. Len(wire') = Len(wire) + Len(x) /\ Len(x) \in Nat
    BY <1>1, <1>3, ConcatProperties, LenProperties
  <2> QED BY <1>1, <2>1
<1>4. ASSUME NEW reason \in Reasons, NEW w, ShutdownImpl(reason, w)
      PROVE  ~writeEnabled'
  BY <1>4, AfterShutdownImpl
<1>5. "io_error" \in Reasons /\ "write_timeout" \in Reasons /\ "eof" \in Reasons
      /\ "user_initiated" \in Reasons
  BY DEF Reasons
<1>6. CASE UNCHANGED <<accepted, wire, writeEnabled>>
  BY <1>1, <1>6
<1>7. CASE UNCHANGED <<accepted, wire>> /\ ~writeEnabled'
  BY <1>1, <1>7
<1>8. CASE Send
  <2>1. UNCHANGED <<accepted, wire, writeEnabled>>
    BY <1>8 DEF Send, ScheduleSend, RejectSend, stateVars
  <2> QED BY <1>6, <2>1
<1>9. CASE AppendStep
  <2>1. CASE call.todo = <<>>
    <3>1. UNCHANGED <<accepted, wire, writeEnabled>>
      BY <1>9, <2>1 DEF AppendStep, AppendDone, stateVars
    <3> QED BY <1>6, <3>1
  <2>2. CASE call.todo # <<>>
    <3>1. TakeNextBuffer /\ pc = "append"
      BY <1>9, <2>2 DEF AppendStep
    <3>2. /\ Head(call.todo) \in Nat \ {0} /\ NextBuffer \in Seq(Bytes)
          /\ Len(NextBuffer) = Head(call.todo)
      BY <2>2, NextBufferType
    <3>3. writeEnabled
      BY <3>1 DEF StreamInv, FlagsInv
    <3>4. accepted' = accepted + Head(call.todo) /\ writeEnabled' = writeEnabled
      BY <3>1 DEF TakeNextBuffer, AggressiveWrite, AggressivePartial, AppendOnly, TakeBuffer
    <3>5. accepted <= accepted'
      BY <1>1, <3>2, <3>4
    <3>6. Len(wire) <= Len(wire')
      <4>1. CASE AggressiveWrite
        BY <1>3, <3>2, <4>1 DEF AggressiveWrite
      <4>2. ASSUME NEW n \in 0..Head(call.todo) - 1,
                   NEW outcome \in {"open", "broken"}, AggressivePartial(n, outcome)
            PROVE  Len(wire) <= Len(wire')
        <5>1. n \in 0..Len(NextBuffer)
          BY <3>2
        <5>2. SubSeq(NextBuffer, 1, n) \in Seq(Bytes)
          BY <3>2, <5>1, Parts
        <5> QED BY <1>3, <4>2, <5>2 DEF AggressivePartial
      <4>3. CASE AppendOnly
        BY <1>1, <4>3 DEF AppendOnly
      <4> QED BY <3>1, <4>1, <4>2, <4>3 DEF TakeNextBuffer
    <3> QED BY <3>3, <3>4, <3>5, <3>6
  <2> QED BY <2>1, <2>2
<1>10. CASE InitiateWrite
  <2>1. /\ Front.data \in Seq(Bytes) /\ Size(Front) \in Nat
        /\ Size(Front) = Len(Front.data)
    BY <1>1, FrontType
  <2>2. accepted' = accepted
    BY <1>10 DEF InitiateWrite, SkipInitiate, SyncWriteAll, SyncWriteError,
                 SyncWriteWouldBlock, StartLargeWrite, AfterWriteOk,
                 AfterWriteError, StartAsyncWrite
  <2>3. CASE SkipInitiate \/ StartLargeWrite
    <3>1. UNCHANGED <<wire, writeEnabled>>
      BY <2>3 DEF SkipInitiate, StartLargeWrite, StartAsyncWrite, stateVars
    <3> QED BY <1>6, <2>2, <3>1
  <2>4. CASE SyncWriteAll
    <3>1. writeEnabled /\ writeEnabled' = writeEnabled /\ wire' = wire \o Front.data
      BY <1>2, <2>4 DEF SyncWriteAll, AfterWriteOk, stateVars
    <3>2. Len(wire) <= Len(wire')
      BY <1>3, <2>1, <3>1
    <3> QED BY <1>1, <2>2, <3>1, <3>2
  <2>5. ASSUME NEW n \in 0..Size(Front) - 1, SyncWriteError(n) \/ SyncWriteWouldBlock(n)
        PROVE  /\ Len(wire) <= Len(wire')
               /\ writeEnabled' => writeEnabled
               /\ ~writeEnabled => Len(wire') = Len(wire)
    <3>1. n \in 0..Len(Front.data)
      BY <2>1
    <3>2. SubSeq(Front.data, 1, n) \in Seq(Bytes) /\ Len(SubSeq(Front.data, 1, n)) = n
      BY <2>1, <3>1, Parts
    <3>3. wire' = wire \o SubSeq(Front.data, 1, n) /\ (sock = "open" \/ n = 0)
      BY <2>5 DEF SyncWriteError, SyncWriteWouldBlock
    <3>4. Len(wire) <= Len(wire') /\ (n = 0 => Len(wire') = Len(wire))
      BY <1>3, <3>2, <3>3
    <3>5. writeEnabled' => writeEnabled
      <4>1. CASE SyncWriteError(n)
        BY <1>4, <1>5, <4>1 DEF SyncWriteError, AfterWriteError
      <4>2. CASE SyncWriteWouldBlock(n)
        BY <4>2 DEF SyncWriteWouldBlock, StartAsyncWrite, stateVars
      <4> QED BY <2>5, <4>1, <4>2
    <3> QED BY <1>2, <3>3, <3>4, <3>5
  <2>6. accepted <= accepted'
    BY <1>1, <2>2
  <2> QED BY <1>10, <2>2, <2>3, <2>4, <2>5, <2>6 DEF InitiateWrite
<1>11. CASE AsyncWrite
  <2>1. ASSUME NEW n \in 1..Len(aw.left), AsyncTransfer(n)
        PROVE  /\ Len(wire) <= Len(wire') /\ accepted <= accepted'
               /\ accepted' = accepted
               /\ writeEnabled /\ writeEnabled' = writeEnabled
    <3>1. n \in 0..Len(aw.left)
      BY <1>1, LenProperties
    <3>2. SubSeq(aw.left, 1, n) \in Seq(Bytes)
      BY <1>1, <3>1, Parts
    <3>3. /\ wire' = wire \o SubSeq(aw.left, 1, n) /\ accepted' = accepted
          /\ sock = "open" /\ writeEnabled' = writeEnabled
      BY <2>1 DEF AsyncTransfer, stateVars
    <3>4. Len(wire) <= Len(wire')
      BY <1>3, <3>2, <3>3
    <3>5. accepted <= accepted'
      BY <1>1, <3>3
    <3> QED BY <1>2, <3>3, <3>4, <3>5
  <2>2. CASE AsyncFail
    <3>1. UNCHANGED <<accepted, wire, writeEnabled>>
      BY <2>2 DEF AsyncFail
    <3> QED BY <1>6, <3>1
  <2>3. CASE AsyncWriteDone
    <3>1. UNCHANGED <<accepted, wire>>
      BY <2>3 DEF AsyncWriteDone, AfterWriteOk, AfterWriteError
    <3>2. writeEnabled' = writeEnabled \/ ~writeEnabled'
      BY <1>4, <1>5, <2>3 DEF AsyncWriteDone, AfterWriteOk, AfterWriteError, stateVars
    <3> QED BY <1>6, <1>7, <3>1, <3>2
  <2> QED BY <1>11, <2>1, <2>2, <2>3 DEF AsyncWrite
<1>12. CASE WriteTimeout
  <2>1. UNCHANGED <<accepted, wire>>
    BY <1>12 DEF WriteTimeout, TimerExpires, HandleWriteOperationTimeout, writeVars
  <2>2. writeEnabled' = writeEnabled \/ ~writeEnabled'
    BY <1>4, <1>5, <1>12 DEF WriteTimeout, TimerExpires, HandleWriteOperationTimeout, stateVars
  <2> QED BY <1>6, <1>7, <2>1, <2>2
<1>13. CASE Read
  <2>1. UNCHANGED <<accepted, wire>>
    BY <1>13 DEF Read, StartReading, StopReading, AfterReadInput, AfterReadNext,
                 AfterReadError, writeVars
  <2>2. writeEnabled' = writeEnabled \/ ~writeEnabled'
    BY <1>4, <1>5, <1>13 DEF Read, StartReading, StopReading, AfterReadInput,
                 AfterReadNext, AfterReadError, stateVars
  <2> QED BY <1>6, <1>7, <2>1, <2>2
<1>14. CASE Lifetime
  <2>1. UNCHANGED <<accepted, wire>>
    BY <1>14 DEF Lifetime, Shutdown, ResetShutdownHandler, Release, StopIo,
                 Destroy, Terminated, vars, writeVars
  <2>2. writeEnabled' = writeEnabled \/ ~writeEnabled'
    BY <1>4, <1>5, <1>14 DEF Lifetime, Shutdown, ResetShutdownHandler, Release,
                 StopIo, Destroy, Terminated, vars, stateVars
  <2> QED BY <1>6, <1>7, <2>1, <2>2
<1>15. CASE UNCHANGED vars
  <2>1. UNCHANGED <<accepted, wire, writeEnabled>>
    BY <1>15 DEF vars, writeVars, stateVars
  <2> QED BY <1>6, <2>1
<1> QED BY <1>8, <1>9, <1>10, <1>11, <1>12, <1>13, <1>14, <1>15 DEF Next

(* The connection implements the byte stream of ByteStream: every step of   *)
(* its handlers accepts bytes, hands on the next ones in order, closes the  *)
(* stream, or leaves it as it is.                                           *)
THEOREM ConnectionImplementsStream == Spec => ImplementsStream
<1>1. Init => Stream!Init
  BY DEF Init, Stream!Init
<1>2. TypeOK /\ StreamInv /\ (TypeOK /\ StreamInv)' /\ [Next]_vars
        => [Stream!Next]_(Stream!streamVars)
  BY ConnectionStep, StreamStep DEF StreamInv
<1> QED BY <1>1, <1>2, ConnectionInvariant, PTL DEF Spec, ImplementsStream, Stream!Spec
-----------------------------------------------------------------------------
(* Shutdown happens once                                                     *)

(* Every step leaves the reason and the number of notifications alone, or    *)
(* is one of those that call shutdown_impl, which looks at the reason first, *)
(* and calls the handler once more than the handler calls shutdown().        *)
ToldOnce == /\ shutReason # "none" => UNCHANGED <<shutReason, notified>>
            /\ notified' \in {notified} \cup {notified + (n + 1) : n \in HandlerCalls}

(* Every step of the connection is one of those that ToldOnce describes.     *)
LEMMA ShutdownOnceNext ==
  ASSUME [Next]_vars
  PROVE  ToldOnce
<1>0. UNCHANGED <<shutReason, notified>> => ToldOnce
  BY DEF ToldOnce
<1>1. ASSUME NEW reason, NEW w, ShutdownImpl(reason, w)
      PROVE  ToldOnce
  <2>1. CASE ShutdownWasCalled
    BY <1>0, <1>1, <2>1 DEF ShutdownImpl, stateVars
  <2>2. CASE ~ShutdownWasCalled
    <3>1. PICK n \in CallsFromHandler :
            notified' = IF handler THEN notified + (n + 1) ELSE notified
      BY <1>1, <2>2 DEF ShutdownImpl
    <3>2. handler => n \in HandlerCalls
      BY DEF CallsFromHandler
    <3> QED BY <2>2, <3>1, <3>2 DEF ToldOnce, ShutdownWasCalled
  <2> QED BY <2>1, <2>2
<1>2. ASSUME NEW q, AfterWriteOk(q) \/ AfterWriteError(q)
      PROVE  ToldOnce
  BY <1>0, <1>1, <1>2 DEF AfterWriteOk, AfterWriteError, stateVars
<1>3. ASSUME NEW left, StartAsyncWrite(left)
      PROVE  ToldOnce
  BY <1>0, <1>3 DEF StartAsyncWrite, stateVars
<1>4. CASE Send
  BY <1>0, <1>4 DEF Send, ScheduleSend, RejectSend, stateVars
<1>5. CASE AppendStep
  BY <1>0, <1>5 DEF AppendStep, TakeNextBuffer, AggressiveWrite, AggressivePartial,
              AppendOnly, TakeBuffer, AppendDone, stateVars
<1>6. CASE InitiateWrite
  BY <1>0, <1>2, <1>3, <1>6 DEF InitiateWrite, SkipInitiate, SyncWriteAll, SyncWriteError,
                          SyncWriteWouldBlock, StartLargeWrite, stateVars
<1>7. CASE AsyncWrite
  BY <1>0, <1>2, <1>7 DEF AsyncWrite, AsyncTransfer, AsyncFail, AsyncWriteDone, stateVars
<1>8. CASE WriteTimeout
  BY <1>0, <1>1, <1>8 DEF WriteTimeout, TimerExpires, HandleWriteOperationTimeout, stateVars
<1>9. CASE Read
  BY <1>0, <1>1, <1>9 DEF Read, StartReading, StopReading, AfterReadInput, AfterReadNext,
                    AfterReadError, stateVars
<1>10. CASE Lifetime
  BY <1>0, <1>1, <1>10 DEF Lifetime, Shutdown, ResetShutdownHandler, Release, StopIo,
                     Destroy, Terminated, vars, stateVars
<1>11. CASE UNCHANGED vars
  BY <1>0, <1>11 DEF vars, stateVars
<1> QED BY <1>4, <1>5, <1>6, <1>7, <1>8, <1>9, <1>10, <1>11 DEF Next

(* shutdown_impl takes effect once: whatever errors, timeouts and calls      *)
(* follow the first shutdown, its reason stays and its handler, which the    *)
(* user may set and reset, is not called again.  While it runs it is called  *)
(* again exactly as often as it calls shutdown() on its own connection.      *)
THEOREM ShutdownHappensOnce == Spec => ShutdownOnce
<1>1. [Next]_vars => [ToldOnce]_vars
  BY ShutdownOnceNext
<1> QED BY <1>1, PTL DEF Spec, ShutdownOnce, ToldOnce

-----------------------------------------------------------------------------
(* The read buffer                                                           *)

(* Reads are started by start_reading and at the end of after_read only, and *)
(* both when neither a read nor the input handler has the buffer.            *)
LEMMA ReadBufferOwnedNext ==
  ASSUME "restart_reading" \notin UserOps, TypeOK, ReadBufferOwned, [Next]_vars
  PROVE  ReadBufferOwned'
<1>1. reads \in Nat /\ inInput \in BOOLEAN
  BY DEF TypeOK
<1>2. ASSUME reads' = reads, inInput' = inInput
      PROVE  ReadBufferOwned'
  BY <1>2 DEF ReadBufferOwned
<1>3. CASE Send
  BY <1>2, <1>3 DEF Send, ScheduleSend, RejectSend, readVars
<1>4. CASE AppendStep
  BY <1>2, <1>4 DEF AppendStep, TakeNextBuffer, AggressiveWrite, AggressivePartial,
                    AppendOnly, TakeBuffer, AppendDone, readVars
<1>5. CASE InitiateWrite
  BY <1>2, <1>5 DEF InitiateWrite, SkipInitiate, SyncWriteAll, SyncWriteError,
                    SyncWriteWouldBlock, StartLargeWrite, AfterWriteOk,
                    AfterWriteError, StartAsyncWrite, readVars
<1>6. CASE AsyncWrite
  BY <1>2, <1>6 DEF AsyncWrite, AsyncTransfer, AsyncFail, AsyncWriteDone,
                    AfterWriteOk, AfterWriteError, readVars
<1>7. CASE WriteTimeout
  BY <1>2, <1>7 DEF WriteTimeout, TimerExpires, HandleWriteOperationTimeout, readVars
<1>8. CASE StartReading
  BY <1>8 DEF StartReading, ReadBufferOwned
<1>9. CASE StopReading
  BY <1>2, <1>9 DEF StopReading, readVars
<1>10. CASE AfterReadInput
  BY <1>1, <1>10 DEF AfterReadInput, StrandFree, ReadBufferOwned
<1>11. CASE AfterReadNext
  <2>1. reads = 0
    BY <1>1, <1>11 DEF AfterReadNext, ReadBufferOwned
  <2>2. inInput' = FALSE /\ reads' <= 1
    BY <1>11, <2>1 DEF AfterReadNext
  <2>3. reads' = 0 \/ reads' = 1
    BY <1>11, <2>1 DEF AfterReadNext
  <2> QED BY <2>2, <2>3 DEF ReadBufferOwned
<1>12. ASSUME NEW reason, AfterReadError(reason)
       PROVE  ReadBufferOwned'
  BY <1>1, <1>12 DEF AfterReadError, ReadBufferOwned
<1>13. CASE Lifetime
  BY <1>2, <1>13 DEF Lifetime, Shutdown, ResetShutdownHandler, Release, StopIo,
                     Destroy, Terminated, vars, readVars
<1>14. CASE UNCHANGED vars
  BY <1>2, <1>14 DEF vars, readVars
<1> QED BY <1>3, <1>4, <1>5, <1>6, <1>7, <1>8, <1>9, <1>10, <1>11, <1>12, <1>13, <1>14
        DEF Next, Read

(* m_read_buffer has one owner, a read operation or the input handler, for  *)
(* users who do not start reading while a read is still outstanding: what   *)
(* stop_reading and start_reading in the input handler break.               *)
THEOREM ReadBufferHasOneOwner ==
  ASSUME "restart_reading" \notin UserOps
  PROVE  Spec => []ReadBufferOwned
<1>1. Init => ReadBufferOwned
  BY DEF Init, ReadBufferOwned
<1>2. TypeOK /\ ReadBufferOwned /\ [Next]_vars => ReadBufferOwned'
  BY ReadBufferOwnedNext
<1> QED BY <1>1, <1>2, TypeCorrect, PTL DEF Spec

-----------------------------------------------------------------------------
(* The watchdog of the write operation                                       *)

(* No timer on its way to the strand is newer than the last operation the    *)
(* watchdog was given, and one with its key belongs to that operation.       *)
TimersInv ==
  /\ \A t \in timeouts : /\ t.key <= watch.key
                         /\ t.key = watch.key => t.op = watch.op
  /\ ~Watchdog => ~watch.armed /\ timeouts = {}

(* Until the shutdown, the running flag says that an asynchronous write is   *)
(* outstanding, and it is the one that is watched.                           *)
WriteIsWatched ==
  shutReason = "none" /\ running
    => aw.st # "none" /\ (Watchdog => watch.op = aw.op)

WatchInv == TimersInv /\ WriteIsWatched

(* The watchdog w is the present one, or one that was given a later key.     *)
NotOlder(w) == w \in WatchState /\ (w = watch \/ (Watchdog /\ w.key > watch.key))

(* Starting and cancelling give the watchdog a later key, if there is one.   *)
LEMMA LaterKeys ==
  ASSUME TypeOK
  PROVE  /\ \A op \in Nat : NotOlder(StartWatch(watch, op))
         /\ \A w : NotOlder(w) => NotOlder(CancelWatch(w))
<1>1. watch \in WatchState /\ watch.key \in Nat
  BY DEF TypeOK, WatchState
<1>2. ASSUME NEW op \in Nat
      PROVE  NotOlder(StartWatch(watch, op))
  <2>1. StartWatch(watch, op) \in WatchState
    BY <1>1, WatchTypes
  <2>2. Watchdog => StartWatch(watch, op).key > watch.key
    BY <1>1 DEF StartWatch
  <2>3. ~Watchdog => StartWatch(watch, op) = watch
    BY DEF StartWatch
  <2> QED BY <2>1, <2>2, <2>3 DEF NotOlder
<1>3. ASSUME NEW w, NotOlder(w)
      PROVE  NotOlder(CancelWatch(w))
  <2>1. w \in WatchState /\ w.key \in Nat /\ w.key >= watch.key
    BY <1>1, <1>3 DEF NotOlder, WatchState
  <2>2. CancelWatch(w) \in WatchState
    BY <2>1, WatchTypes, 0 \in Nat
  <2>3. Watchdog => CancelWatch(w).key = w.key + 1
    BY <2>1 DEF CancelWatch, CancelWatchTimes, WatchState
  <2>4. Watchdog => CancelWatch(w).key > watch.key
    BY <1>1, <2>1, <2>3
  <2>5. ~Watchdog => CancelWatch(w) = w /\ w = watch
    BY <1>3 DEF CancelWatch, CancelWatchTimes, NotOlder
  <2> QED BY <2>2, <2>4, <2>5, <1>1 DEF NotOlder
<1> QED BY <1>2, <1>3

(* shutdown_impl leaves a reason and a watchdog that is not older.           *)
LEMMA ShutdownWatch ==
  ASSUME TypeOK, NEW w, NotOlder(w), NEW reason \in Reasons, ShutdownImpl(reason, w)
  PROVE  NotOlder(watch') /\ shutReason' # "none"
<1>1. CASE ShutdownWasCalled
  BY <1>1 DEF ShutdownImpl, ShutdownWasCalled, stateVars
<1>2. CASE ~ShutdownWasCalled
  <2>1. shutReason' # "none"
    BY <1>2 DEF ShutdownImpl, Reasons
  <2>2. PICK n \in CallsFromHandler : watch' = CancelWatchTimes(w, n + 1)
    BY <1>2 DEF ShutdownImpl
  <2>3. n + 1 \in Nat /\ n + 1 > 0
    BY CallsFromHandlerType
  <2>4. /\ w \in WatchState /\ w.key \in Nat /\ watch.key \in Nat
        /\ w.key >= watch.key
    BY DEF NotOlder, WatchState, TypeOK
  <2>5. watch' \in WatchState
    BY <2>2, <2>3, <2>4, CancelTimesType
  <2>6. CASE Watchdog
    <3>1. watch'.key = w.key + (n + 1)
      BY <2>2, <2>4, <2>6 DEF CancelWatchTimes, WatchState
    <3>2. watch'.key > watch.key
      BY <2>3, <2>4, <3>1
    <3> QED BY <2>1, <2>4, <2>5, <2>6, <3>2 DEF NotOlder
  <2>7. CASE ~Watchdog
    BY <2>1, <2>2, <2>7 DEF CancelWatchTimes
  <2> QED BY <2>6, <2>7
<1> QED BY <1>1, <1>2

(* A later key makes every timer on its way an old one.                      *)
LEMMA TimersKept ==
  ASSUME TypeOK, TimersInv, NotOlder(watch'), timeouts' \subseteq timeouts
  PROVE  TimersInv'
<1>1. watch \in WatchState /\ watch.key \in Nat
  BY DEF TypeOK, WatchState
<1>2. CASE watch' = watch
  BY <1>2 DEF TimersInv
<1>3. CASE Watchdog /\ watch'.key > watch.key
  <2>1. ASSUME NEW t \in timeouts'
        PROVE  t.key < watch'.key
    <3>1. t \in timeouts /\ t.key \in Nat /\ t.key <= watch.key
      BY DEF TypeOK, TimersInv
    <3>2. watch'.key \in Nat
      BY DEF NotOlder, WatchState
    <3> QED BY <1>1, <1>3, <3>1, <3>2
  <2>2. \A t \in timeouts' : t.key \in Nat
    BY DEF TypeOK
  <2>3. watch'.key \in Nat
    BY DEF NotOlder, WatchState
  <2>4. \A t \in timeouts' : t.key <= watch'.key /\ t.key # watch'.key
    BY <2>1, <2>2, <2>3
  <2> QED BY <1>3, <2>4 DEF TimersInv
<1> QED BY <1>2, <1>3 DEF NotOlder

(* What a step does to both parts of it. *)
WatchKept == TimersInv' /\ (WriteIsWatched => WriteIsWatched')

(* after_write, both ways. *)
LEMMA WatchAfterWrite ==
  ASSUME TypeOK, TimersInv, NEW q, AfterWriteOk(q) \/ AfterWriteError(q)
  PROVE  WatchKept
<1>1. NotOlder(CancelWatch(watch))
  BY LaterKeys DEF TypeOK, NotOlder
<1>2. CASE AfterWriteOk(q)
  <2>1. NotOlder(watch') /\ timeouts' = timeouts /\ running' = FALSE
    BY <1>1, <1>2 DEF AfterWriteOk
  <2> QED BY <2>1, TimersKept DEF WatchKept, WriteIsWatched
<1>3. CASE AfterWriteError(q)
  <2>1. NotOlder(watch') /\ shutReason' # "none"
    BY <1>1, <1>3, ShutdownWatch DEF AfterWriteError, Reasons
  <2>2. timeouts' = timeouts
    BY <1>3 DEF AfterWriteError
  <2> QED BY <2>1, <2>2, TimersKept DEF WatchKept, WriteIsWatched
<1> QED BY <1>2, <1>3

(* start_async_write: the new operation is outstanding, and watched.         *)
LEMMA WatchStartAsyncWrite ==
  ASSUME TypeOK, TimersInv, NEW left, StartAsyncWrite(left)
  PROVE  WatchKept
<1>1. aw.op + 1 \in Nat
  BY DEF TypeOK, AsyncWriteState
<1>2. NotOlder(StartWatch(watch, aw.op + 1))
  BY <1>1, LaterKeys
<1>3. NotOlder(watch') /\ timeouts' = timeouts
  BY <1>2 DEF StartAsyncWrite
<1>4. Watchdog => watch'.op = aw.op + 1
  BY DEF StartAsyncWrite, StartWatch
<1>5. aw'.st = "pending" /\ aw'.op = aw.op + 1
  BY DEF StartAsyncWrite
<1> QED BY <1>3, <1>4, <1>5, TimersKept DEF WatchKept, WriteIsWatched

(* Every step keeps the timers apart and the running write watched.          *)
LEMMA WatchNext ==
  ASSUME TypeOK, TimersInv, [Next]_vars
  PROVE  WatchKept
<1>1. NotOlder(watch)
  BY DEF TypeOK, NotOlder
<1>2. ASSUME UNCHANGED <<running, aw, shutReason, watch>>, timeouts' \subseteq timeouts
      PROVE  WatchKept
  BY <1>2 DEF WatchKept, TimersInv, WriteIsWatched
<1>3. ASSUME NEW reason \in Reasons, ShutdownImpl(reason, watch),
             timeouts' \subseteq timeouts
      PROVE  WatchKept
  <2>1. NotOlder(watch') /\ shutReason' # "none"
    BY <1>1, <1>3, ShutdownWatch
  <2> QED BY <1>3, <2>1, TimersKept DEF WatchKept, WriteIsWatched
<1>4. CASE Send
  BY <1>2, <1>4 DEF Send, ScheduleSend, RejectSend, stateVars
<1>5. CASE AppendStep
  BY <1>2, <1>5 DEF AppendStep, TakeNextBuffer, AggressiveWrite, AggressivePartial,
                    AppendOnly, TakeBuffer, AppendDone, stateVars
<1>6. CASE InitiateWrite
  <2>1. CASE SkipInitiate
    BY <1>2, <2>1 DEF SkipInitiate, stateVars
  <2>2. CASE SyncWriteAll
    BY <2>2, WatchAfterWrite DEF SyncWriteAll
  <2>3. ASSUME NEW k \in 0..Size(Front) - 1, SyncWriteError(k) \/ SyncWriteWouldBlock(k)
        PROVE  WatchKept
    BY <2>3, WatchAfterWrite, WatchStartAsyncWrite DEF SyncWriteError, SyncWriteWouldBlock
  <2>4. CASE StartLargeWrite
    BY <2>4, WatchStartAsyncWrite DEF StartLargeWrite
  <2> QED BY <1>6, <2>1, <2>2, <2>3, <2>4 DEF InitiateWrite
<1>7. CASE AsyncWrite
  <2>1. aw \in AsyncWriteState
    BY DEF TypeOK
  <2>2. ASSUME NEW k \in 1..Len(aw.left), AsyncTransfer(k)
        PROVE  WatchKept
    <3>1. aw'.st # "none" /\ aw'.op = aw.op
      BY <2>1, <2>2 DEF AsyncTransfer, AsyncWriteState
    <3>2. UNCHANGED <<running, shutReason, watch, timeouts>>
      BY <2>2 DEF AsyncTransfer, stateVars
    <3> QED BY <3>1, <3>2 DEF WatchKept, TimersInv, WriteIsWatched
  <2>3. CASE AsyncFail
    <3>1. aw'.st # "none" /\ aw'.op = aw.op
      BY <2>1, <2>3 DEF AsyncFail, AsyncWriteState
    <3>2. UNCHANGED <<running, shutReason, watch, timeouts>>
      BY <2>3 DEF AsyncFail
    <3> QED BY <3>1, <3>2 DEF WatchKept, TimersInv, WriteIsWatched
  <2>4. CASE AsyncWriteDone
    BY <2>4, WatchAfterWrite DEF AsyncWriteDone
  <2> QED BY <1>7, <2>2, <2>3, <2>4 DEF AsyncWrite
<1>8. CASE TimerExpires
  <2>1. watch \in WatchState
    BY DEF TypeOK
  <2>2. watch'.key = watch.key /\ watch'.op = watch.op /\ ~watch'.armed
    <3>1. watch' = [watch EXCEPT !.armed = FALSE]
      BY <1>8 DEF TimerExpires
    <3> QED BY <2>1, <3>1 DEF WatchState
  <2>3. timeouts' = timeouts \cup {[key |-> watch.key, op |-> watch.op]} /\ watch.armed
    BY <1>8 DEF TimerExpires
  <2>4. ASSUME NEW t \in timeouts'
        PROVE  t.key <= watch'.key /\ (t.key = watch'.key => t.op = watch'.op)
    <3>1. CASE t \in timeouts
      BY <2>2, <3>1 DEF TimersInv
    <3>2. CASE t = [key |-> watch.key, op |-> watch.op]
      BY <2>1, <2>2, <3>2 DEF WatchState
    <3> QED BY <2>3, <3>1, <3>2
  <2>5. Watchdog
    BY <2>3 DEF TimersInv
  <2>6. UNCHANGED <<running, aw, shutReason>>
    BY <1>8 DEF TimerExpires, writeVars, stateVars
  <2> QED BY <2>2, <2>4, <2>5, <2>6 DEF WatchKept, TimersInv, WriteIsWatched
<1>9. ASSUME NEW t \in timeouts, HandleWriteOperationTimeout(t)
      PROVE  WatchKept
  <2>1. timeouts' \subseteq timeouts
    BY <1>9 DEF HandleWriteOperationTimeout
  <2>2. CASE TimeoutIsCurrent(t)
    BY <1>3, <1>9, <2>1, <2>2 DEF HandleWriteOperationTimeout, Reasons
  <2>3. CASE ~TimeoutIsCurrent(t)
    BY <1>2, <1>9, <2>1, <2>3 DEF HandleWriteOperationTimeout, writeVars, stateVars
  <2> QED BY <2>2, <2>3
<1>10. CASE Read
  <2>1. ASSUME NEW reason \in {"eof", "io_error"}, AfterReadError(reason)
        PROVE  WatchKept
    BY <1>3, <2>1 DEF AfterReadError, Reasons
  <2> QED BY <1>2, <1>10, <2>1 DEF Read, StartReading, StopReading, AfterReadInput,
                                   AfterReadNext, writeVars, stateVars
<1>11. CASE Lifetime
  <2>1. CASE Shutdown
    BY <1>3, <2>1 DEF Shutdown, Reasons
  <2> QED BY <1>2, <1>11, <2>1 DEF Lifetime, ResetShutdownHandler, Release, StopIo,
                                   Destroy, Terminated, vars, writeVars, stateVars
<1>12. CASE UNCHANGED vars
  BY <1>2, <1>12 DEF vars, writeVars, stateVars
<1> QED BY <1>4, <1>5, <1>6, <1>7, <1>8, <1>9, <1>10, <1>11, <1>12 DEF Next, WriteTimeout

(* A new connection has no timer and no write. *)
LEMMA WatchInit == Init => WatchInv
BY DEF Init, WatchInv, TimersInv, WriteIsWatched

(* The write timeout is given as a reason only by the handler of a timer.    *)
LEMMA TimeoutHandled ==
  ASSUME [Next]_vars, shutReason = "none", shutReason' = "write_timeout"
  PROVE  \E t \in timeouts : HandleWriteOperationTimeout(t)
<1>1. ASSUME NEW reason, NEW w, ShutdownImpl(reason, w)
      PROVE  reason = "write_timeout"
  BY <1>1 DEF ShutdownImpl, ShutdownWasCalled
<1>2. ~UNCHANGED shutReason
  OBVIOUS
<1>3. ASSUME NEW q, AfterWriteOk(q) \/ AfterWriteError(q)
      PROVE  FALSE
  BY <1>1, <1>2, <1>3 DEF AfterWriteOk, AfterWriteError, stateVars
<1>4. ~Send /\ ~AppendStep
  BY <1>2 DEF Send, ScheduleSend, RejectSend, AppendStep, TakeNextBuffer,
              AggressiveWrite, AggressivePartial, AppendOnly, TakeBuffer, AppendDone,
              stateVars
<1>5. ~InitiateWrite
  BY <1>2, <1>3 DEF InitiateWrite, SkipInitiate, SyncWriteAll, SyncWriteError,
                    SyncWriteWouldBlock, StartLargeWrite, StartAsyncWrite, stateVars
<1>6. ~AsyncWrite
  BY <1>2, <1>3 DEF AsyncWrite, AsyncTransfer, AsyncFail, AsyncWriteDone, stateVars
<1>7. ~Read
  BY <1>1, <1>2 DEF Read, StartReading, StopReading, AfterReadInput, AfterReadNext,
                    AfterReadError, stateVars
<1>8. ~Lifetime
  BY <1>1, <1>2 DEF Lifetime, Shutdown, ResetShutdownHandler, Release, StopIo,
                    Destroy, Terminated, vars, stateVars
<1>9. ~TimerExpires /\ ~UNCHANGED vars
  BY <1>2 DEF TimerExpires, vars, stateVars
<1> QED BY <1>4, <1>5, <1>6, <1>7, <1>8, <1>9 DEF Next, WriteTimeout

(* A timer with the present key is the timer of the outstanding write.       *)
LEMMA TimeoutStep ==
  ASSUME TypeOK, WatchInv, [Next]_vars,
         shutReason = "none", shutReason' = "write_timeout"
  PROVE  aw.st # "none" /\ \E t \in timeouts \ timeouts' : t.op = aw.op
<1>1. PICK t \in timeouts : HandleWriteOperationTimeout(t)
  BY TimeoutHandled
<1>2. TimeoutIsCurrent(t) /\ timeouts' = timeouts \ {t}
  BY <1>1 DEF HandleWriteOperationTimeout, stateVars
<1>3. running /\ t.op = watch.op /\ Watchdog
  BY <1>2 DEF TimeoutIsCurrent, WatchInv, TimersInv
<1>4. aw.st # "none" /\ watch.op = aw.op
  BY <1>3 DEF WatchInv, WriteIsWatched
<1> QED BY <1>2, <1>3, <1>4

(* A late timer of a write that has ended never shuts the connection down:   *)
(* start_watch_operation and cancel_watch_operation give every operation a   *)
(* key of its own, so a timer whose key is the present one belongs to the    *)
(* write that is outstanding.                                                *)
THEOREM TimeoutIsNeverLate == Spec => NoSpuriousTimeout
<1>1. Init => WatchInv
  BY WatchInit
<1>2. TypeOK /\ WatchInv /\ [Next]_vars => WatchInv'
  BY WatchNext DEF WatchInv, WatchKept
<1>3. TypeOK /\ WatchInv /\ [Next]_vars
        => [shutReason = "none" /\ shutReason' = "write_timeout"
              => aw.st # "none" /\ \E t \in timeouts \ timeouts' : t.op = aw.op]_vars
  BY TimeoutStep
<1> QED BY <1>1, <1>2, <1>3, TypeCorrect, PTL DEF Spec, NoSpuriousTimeout

-----------------------------------------------------------------------------
(* The completion callbacks                                                  *)

(* The sends whose callbacks wait in an item, and the last of its bytes.     *)
CallbacksOf(item) == {item.cbs[j] : j \in DOMAIN item.cbs}
LastByte(item) == item.data[Len(item.data)]

(* Callbacks wait in items with bytes, behind the last byte of their send,   *)
(* in the order of the sends.  The send under way has not got there yet.     *)
CallbacksWait(q, log) ==
  /\ \A i \in 1..Len(q) : \A s \in CallbacksOf(q[i]) :
       /\ s \in 1..Len(log)
       /\ q[i].data # <<>>
       /\ log[s].upto <= LastByte(q[i])
  /\ \A i, k \in 1..Len(q) :
       i < k => \A s \in CallbacksOf(q[i]), t \in CallbacksOf(q[k]) : s <= t

(* A callback that was not called yet waits in the queue, unless its send is *)
(* still under way.                                                          *)
UnansweredWait ==
  alive => \A s \in 1..Len(sends) : sends[s].cb /\ ~Answered(s)
             => \/ pc = "append" /\ s = Len(sends)
                \/ \E i \in 1..Len(wq) : s \in CallbacksOf(wq[i])

(* The send under way: its callback was not called and does not wait yet; if *)
(* one of its buffers was queued there is something to write at the back of  *)
(* the queue; while a write runs, none went out at once.                     *)
CurrentSend ==
  pc = "append" =>
    /\ ~Answered(Len(sends))
    /\ \A i \in 1..Len(wq) : Len(sends) \notin CallbacksOf(wq[i])
    /\ ~call.aggr => wq[Len(wq)].data # <<>>
    /\ call.aggr /\ running => call.todo # <<>>

UptoInv == \A s \in 1..Len(sends) : sends[s].upto <= accepted
StoppedIsIdle == io = "stopped" => pc = "idle"

CallbackInv ==
  /\ CallbacksWait(wq, sends) /\ UnansweredWait /\ CurrentSend
  /\ UptoInv /\ StoppedIsIdle
  /\ SuccessMeansWritten /\ AnsweredInOrder /\ NoCallbackLost
-----------------------------------------------------------------------------
(* What a step does to the log of sends: the sends of D are answered, with   *)
(* success only if `ok`; nothing else of the log changes.                    *)
HasSuccess(send) == \E i \in DOMAIN send.res : send.res[i] = "success"

Answers(log, log2, D, ok) ==
  /\ log2 \in Seq(SendRecord)
  /\ Len(log2) = Len(log)
  /\ \A s \in 1..Len(log) :
       /\ log2[s].cb = log[s].cb
       /\ log2[s].from = log[s].from
       /\ log2[s].upto = log[s].upto
       /\ s \in D => log2[s].res # <<>>
       /\ s \notin D => log2[s].res = log[s].res
       /\ log[s].res # <<>> => log2[s].res # <<>>
       /\ HasSuccess(log2[s]) => HasSuccess(log[s]) \/ (s \in D /\ ok)

(* One more result in the record of a send. *)
WithResult(send, result) == [send EXCEPT !.res = Append(@, result)]

(* It keeps what the callback is about, and makes it an answered one.        *)
LEMMA OneMoreResult ==
  ASSUME NEW send \in SendRecord, NEW result \in Results
  PROVE  LET r == WithResult(send, result)
         IN  /\ r \in SendRecord
             /\ r.cb = send.cb /\ r.from = send.from /\ r.upto = send.upto
             /\ r.res # <<>>
             /\ HasSuccess(r) => HasSuccess(send) \/ result = "success"
<1> DEFINE res == Append(send.res, result)
           r == [send EXCEPT !.res = res]
<1>1. send.res \in Seq(Results)
  BY DEF SendRecord
<1>2. /\ res \in Seq(Results)
      /\ Len(res) = Len(send.res) + 1
      /\ \A i \in 1..Len(send.res) : res[i] = send.res[i]
      /\ res[Len(send.res) + 1] = result
  BY <1>1, AppendProperties
<1>3. res # <<>>
  BY <1>1, AppendProperties
<1> HIDE DEF res
<1>4. /\ r \in SendRecord /\ r.res = res
      /\ r.cb = send.cb /\ r.from = send.from /\ r.upto = send.upto
  BY <1>2 DEF SendRecord
<1>5. ASSUME HasSuccess(r), result # "success"
      PROVE  HasSuccess(send)
  <2>1. PICK i \in DOMAIN res : res[i] = "success"
    BY <1>4, <1>5 DEF HasSuccess
  <2>2. i \in 1..Len(send.res) + 1 /\ Len(send.res) \in Nat
    BY <1>1, <1>2, <2>1, LenProperties
  <2>3. i # Len(send.res) + 1
    BY <1>2, <1>5, <2>1
  <2>4. i \in 1..Len(send.res)
    BY <2>2, <2>3
  <2>5. i \in DOMAIN send.res /\ send.res[i] = "success"
    BY <1>1, <1>2, <2>1, <2>4, LenProperties
  <2> QED BY <2>5 DEF HasSuccess
<1> HIDE DEF r
<1>6. r = WithResult(send, result)
  BY DEF r, res, WithResult
<1> QED BY <1>3, <1>4, <1>5, <1>6

(* run_send_completion_callbacks answers the sends of an item. *)
LEMMA RunCallbacksAnswers ==
  ASSUME NEW log \in Seq(SendRecord), NEW item, NEW result \in Results, NEW ok,
         result = "success" => ok
  PROVE  Answers(log, RunCallbacks(log, item.cbs, result), CallbacksOf(item), ok)
<1> DEFINE r == RunCallbacks(log, item.cbs, result)
           D == CallbacksOf(item)
<1>1. r \in Seq(SendRecord)
  BY RunCallbacksType
<1>2. DOMAIN log = 1..Len(log) /\ Len(log) \in Nat
  BY LenProperties
<1>3. r = [s \in 1..Len(log) |->
             IF s \in D THEN WithResult(log[s], result) ELSE log[s]]
  BY <1>2 DEF RunCallbacks, WithResult, CallbacksOf
<1>4. Len(r) = Len(log)
  BY <1>1, <1>2, <1>3, LenProperties
<1> HIDE DEF r, D
<1>5. ASSUME NEW s \in 1..Len(log)
      PROVE  /\ r[s].cb = log[s].cb
             /\ r[s].from = log[s].from
             /\ r[s].upto = log[s].upto
             /\ s \in D => r[s].res # <<>>
             /\ s \notin D => r[s].res = log[s].res
             /\ log[s].res # <<>> => r[s].res # <<>>
             /\ HasSuccess(r[s]) => HasSuccess(log[s]) \/ (s \in D /\ ok)
  <2>1. log[s] \in SendRecord
    BY ElementOfSeq
  <2>2. CASE s \in D
    <3>1. r[s] = WithResult(log[s], result)
      BY <1>3, <2>2
    <3>2. /\ r[s].cb = log[s].cb /\ r[s].from = log[s].from /\ r[s].upto = log[s].upto
          /\ r[s].res # <<>>
          /\ HasSuccess(r[s]) => HasSuccess(log[s]) \/ ok
      BY <2>1, <3>1, OneMoreResult
    <3> QED BY <2>2, <3>2
  <2>3. CASE s \notin D
    BY <1>3, <2>3
  <2> QED BY <2>2, <2>3
<1> QED BY <1>1, <1>4, <1>5 DEF Answers, r, D
-----------------------------------------------------------------------------
(* The callbacks in the queue                                                *)

(* The callbacks of an item are numbers of sends. *)
LEMMA CallbacksAreNumbers ==
  ASSUME NEW q \in Seq(Item), NEW i \in 1..Len(q)
  PROVE  CallbacksOf(q[i]) \subseteq Nat
<1>1. q[i] \in Item
  BY ElementOfSeq
<1>2. q[i].cbs \in Seq(Nat)
  BY <1>1 DEF Item
<1> QED BY <1>2, LenProperties, ElementOfSeq DEF CallbacksOf

(* A queue keeps its callbacks in order when no item loses, moves or gets    *)
(* one, whatever happens to the items' bytes behind the sends' last ones.    *)
LEMMA CallbacksStay ==
  ASSUME NEW q \in Seq(Item), NEW r \in Seq(Item), NEW log, NEW log2,
         CallbacksWait(q, log), Len(log2) \in Nat, Len(log) \in Nat,
         Len(log) <= Len(log2), Len(q) <= Len(r),
         \A i \in 1..Len(q) : CallbacksOf(r[i]) = CallbacksOf(q[i]),
         \A i \in 1..Len(r) : i > Len(q) => CallbacksOf(r[i]) = {},
         \A i \in 1..Len(q) : \A s \in CallbacksOf(q[i]) :
            r[i].data # <<>> /\ log2[s].upto <= LastByte(r[i])
  PROVE  CallbacksWait(r, log2)
<1>1. Len(q) \in Nat /\ Len(r) \in Nat
  BY LenProperties
<1>2. ASSUME NEW i \in 1..Len(r), NEW s \in CallbacksOf(r[i])
      PROVE  i \in 1..Len(q) /\ s \in CallbacksOf(q[i])
  <2>1. ~(i > Len(q))
    OBVIOUS
  <2>2. i \in 1..Len(q)
    BY <1>1, <2>1
  <2> QED BY <2>2
<1>3. ASSUME NEW i \in 1..Len(r), NEW s \in CallbacksOf(r[i])
      PROVE  s \in 1..Len(log2) /\ r[i].data # <<>> /\ log2[s].upto <= LastByte(r[i])
  <2>1. i \in 1..Len(q) /\ s \in CallbacksOf(q[i])
    BY <1>2
  <2>2. s \in 1..Len(log)
    BY <2>1 DEF CallbacksWait
  <2>3. s \in 1..Len(log2)
    BY <2>2
  <2>4. r[i].data # <<>> /\ log2[s].upto <= LastByte(r[i])
    BY <2>1
  <2> QED BY <2>3, <2>4
<1>4. ASSUME NEW i \in 1..Len(r), NEW k \in 1..Len(r), i < k,
             NEW s \in CallbacksOf(r[i]), NEW t \in CallbacksOf(r[k])
      PROVE  s <= t
  <2>1. i \in 1..Len(q) /\ s \in CallbacksOf(q[i])
    BY <1>2
  <2>2. k \in 1..Len(q) /\ t \in CallbacksOf(q[k])
    BY <1>2
  <2> QED BY <1>4, <2>1, <2>2 DEF CallbacksWait
<1> QED BY <1>3, <1>4 DEF CallbacksWait

(* append_outgoing_buffer moves no callback; the last item has bytes then.   *)
LEMMA AppendKeepsCallbacks ==
  ASSUME NEW q \in Seq(Item), Len(q) >= 1, NEW bytes \in Seq(Bytes), bytes # <<>>
  PROVE  LET r == AppendOutgoingBuffer(q, bytes)
         IN  /\ r \in Seq(Item)
             /\ Len(q) <= Len(r)
             /\ \A i \in 1..Len(q) : CallbacksOf(r[i]) = CallbacksOf(q[i])
             /\ \A i \in 1..Len(r) : i > Len(q) => CallbacksOf(r[i]) = {}
             /\ \A i \in 1..Len(q) : \/ r[i].data = q[i].data
                                     \/ r[i].data = q[i].data \o bytes
             /\ r[Len(r)].data # <<>>
<1> DEFINE n == Len(q)
           r == AppendOutgoingBuffer(q, bytes)
<1>1. /\ r \in Seq(Item)
      /\ \A i \in 1..n - 1 : r[i] = q[i]
      /\ \/ /\ Len(r) = n
            /\ r[n].data = q[n].data \o bytes
            /\ r[n].cbs = q[n].cbs
         \/ /\ Len(r) = n + 1
            /\ r[n].data = q[n].data
            /\ r[n].cbs = q[n].cbs
            /\ r[n + 1].data = bytes
            /\ r[n + 1].cbs = <<>>
  BY AppendOutgoingFacts
<1>2. n \in Nat /\ n \in 1..n
  BY LenProperties
<1>3. q[n].data \in Seq(Bytes)
  <2>1. q[n] \in Item
    BY <1>2, ElementOfSeq
  <2> QED BY <2>1 DEF Item
<1>4. q[n].data \o bytes # <<>>
  BY <1>3, ConcatProperties, EmptySeq, LenProperties
<1> HIDE DEF r
<1>5. ASSUME NEW i \in 1..n
      PROVE  /\ CallbacksOf(r[i]) = CallbacksOf(q[i])
             /\ r[i].data = q[i].data \/ r[i].data = q[i].data \o bytes
  <2>1. CASE i = n
    BY <1>1, <2>1 DEF CallbacksOf
  <2>2. CASE i # n
    BY <1>1, <1>2, <2>2
  <2> QED BY <2>1, <2>2
<1>6. ASSUME NEW i \in 1..Len(r), i > n
      PROVE  CallbacksOf(r[i]) = {}
  <2>1. i = n + 1 /\ r[n + 1].cbs = <<>>
    BY <1>1, <1>2, <1>6
  <2> QED BY <2>1 DEF CallbacksOf
<1>7. r[Len(r)].data # <<>> /\ n <= Len(r)
  BY <1>1, <1>2, <1>4
<1> QED BY <1>1, <1>5, <1>6, <1>7 DEF r

(* freeze moves no callback. *)
LEMMA FreezeKeepsCallbacks ==
  ASSUME NEW q \in Seq(Item), Len(q) >= 1, NEW log, CallbacksWait(q, log),
         Len(log) \in Nat
  PROVE  /\ CallbacksWait(Freeze(q), log)
         /\ \A i \in 1..Len(q) : CallbacksOf(Freeze(q)[i]) = CallbacksOf(q[i])
         /\ Len(q) <= Len(Freeze(q))
<1>1. /\ Freeze(q) \in Seq(Item)
      /\ Len(Freeze(q)) = (IF Len(q) = 1 THEN 2 ELSE Len(q))
      /\ \A i \in 1..Len(q) : Freeze(q)[i] = q[i]
      /\ Len(q) = 1 => Freeze(q)[2] = EmptyItem
  BY FreezeFacts
<1>2. Len(q) \in Nat
  BY LenProperties
<1>3. CallbacksOf(EmptyItem) = {}
  BY DEF CallbacksOf, EmptyItem
<1>4. \A i \in 1..Len(Freeze(q)) : i > Len(q) => CallbacksOf(Freeze(q)[i]) = {}
  BY <1>1, <1>2, <1>3
<1>5. Len(q) <= Len(Freeze(q))
  BY <1>1, <1>2
<1>6. \A i \in 1..Len(q) : \A s \in CallbacksOf(q[i]) :
        Freeze(q)[i].data # <<>> /\ log[s].upto <= LastByte(Freeze(q)[i])
  BY <1>1 DEF CallbacksWait
<1>7. \A i \in 1..Len(q) : CallbacksOf(Freeze(q)[i]) = CallbacksOf(q[i])
  BY <1>1
<1>8. CallbacksWait(Freeze(q), log)
  <2>1. Freeze(q) \in Seq(Item) /\ Len(log) <= Len(log)
    BY <1>1
  <2> QED BY <2>1, <1>4, <1>5, <1>6, <1>7, CallbacksStay, Zenon
<1> QED BY <1>5, <1>7, <1>8

(* The last byte of an item is the last one before the next item begins.     *)
LEMMA LastByteOfChain ==
  ASSUME NEW q \in Seq(Item), NEW acc \in Nat,
         NEW st \in [1..Len(q) + 1 -> 0..acc], Chain(q, acc, st),
         NEW i \in 1..Len(q), q[i].data # <<>>
  PROVE  LastByte(q[i]) = st[i + 1]
<1>1. /\ q[i].data \in Seq(Bytes) /\ Len(q[i].data) \in Nat
      /\ IsRun(q[i].data, st[i])
      /\ st[i + 1] = st[i] + Len(q[i].data)
  BY ChainItem
<1>2. Len(q[i].data) \in 1..Len(q[i].data)
  BY <1>1, EmptySeq
<1> QED BY <1>1, <1>2 DEF LastByte, IsRun

(* Bytes that continue those accepted end behind all of them. *)
LEMMA LastByteAppended ==
  ASSUME NEW d \in Seq(Bytes), NEW bytes \in Seq(Bytes), bytes # <<>>,
         NEW a \in Nat, IsRun(bytes, a)
  PROVE  LET b == d \o bytes
         IN  b # <<>> /\ b[Len(b)] = a + Len(bytes) /\ b[Len(b)] > a
<1>1. Len(d) \in Nat /\ Len(bytes) \in Nat /\ Len(bytes) > 0
  BY LenProperties, EmptySeq
<1>2. /\ d \o bytes \in Seq(Bytes)
      /\ Len(d \o bytes) = Len(d) + Len(bytes)
      /\ \A i \in 1..Len(d) + Len(bytes) :
            (d \o bytes)[i] = IF i <= Len(d) THEN d[i] ELSE bytes[i - Len(d)]
  BY ConcatProperties
<1>3. (d \o bytes)[Len(d) + Len(bytes)] = bytes[Len(bytes)]
  <2>1. Len(d) + Len(bytes) \in 1..Len(d) + Len(bytes) /\ ~(Len(d) + Len(bytes) <= Len(d))
    BY <1>1
  <2>2. (Len(d) + Len(bytes)) - Len(d) = Len(bytes)
    BY <1>1
  <2> QED BY <1>2, <2>1, <2>2
<1>4. bytes[Len(bytes)] = a + Len(bytes)
  BY <1>1 DEF IsRun
<1>5. d \o bytes # <<>>
  BY <1>1, <1>2, EmptySeq
<1> QED BY <1>1, <1>2, <1>3, <1>4, <1>5

-----------------------------------------------------------------------------
(* What answers do to the properties of callbacks                            *)

(* Sends are numbered, and their records typed. *)
LEMMA SendsTyped ==
  ASSUME TypeOK
  PROVE  /\ Len(sends) \in Nat /\ DOMAIN sends = 1..Len(sends)
         /\ \A s \in 1..Len(sends) :
              /\ sends[s] \in SendRecord
              /\ sends[s].cb \in BOOLEAN
              /\ sends[s].from \in Nat /\ sends[s].upto \in Nat
<1>1. sends \in Seq(SendRecord)
  BY DEF TypeOK
<1>2. \A s \in 1..Len(sends) : sends[s] \in SendRecord
  BY <1>1, ElementOfSeq
<1> QED BY <1>1, <1>2, LenProperties DEF SendRecord

(* Answers of success for sends that are written keep SuccessMeansWritten.   *)
LEMMA SuccessKept ==
  ASSUME TypeOK, SuccessMeansWritten, NEW D, NEW ok, Answers(sends, sends', D, ok),
         wire' \in Seq(Bytes), Len(wire) <= Len(wire'),
         ok => \A s \in 1..Len(sends) : s \in D => sends[s].upto <= Len(wire')
  PROVE  SuccessMeansWritten'
<1>1. Len(wire) \in Nat /\ Len(wire') \in Nat
  BY LenProperties DEF TypeOK
<1>2. Len(sends') = Len(sends) /\ sends' \in Seq(SendRecord)
  BY DEF Answers
<1>3. ASSUME NEW s \in DOMAIN sends', HasSuccess(sends'[s])
      PROVE  sends'[s].upto <= Len(wire')
  <2>1. s \in 1..Len(sends) /\ sends[s].upto \in Nat
    BY <1>2, SendsTyped, LenProperties
  <2>2. /\ sends'[s].upto = sends[s].upto
        /\ HasSuccess(sends[s]) \/ (s \in D /\ ok)
    BY <1>3, <2>1 DEF Answers
  <2>3. CASE HasSuccess(sends[s])
    <3>1. s \in DOMAIN sends
      BY <2>1, SendsTyped
    <3>2. sends[s].upto <= Len(wire)
      BY <2>3, <3>1 DEF SuccessMeansWritten, HasSuccess
    <3> QED BY <1>1, <2>1, <2>2, <3>2
  <2>4. CASE s \in D /\ ok
    BY <2>1, <2>2, <2>4
  <2> QED BY <2>2, <2>3, <2>4
<1> QED BY <1>3 DEF SuccessMeansWritten, HasSuccess

(* Answers keep AnsweredInOrder when no earlier send is left without one.    *)
LEMMA OrderKept ==
  ASSUME TypeOK, AnsweredInOrder, NEW D, NEW ok, Answers(sends, sends', D, ok),
         \A s, t \in 1..Len(sends) :
            s < t /\ t \in D /\ sends[s].cb /\ Accepted(s) /\ ~Answered(s) => s \in D
  PROVE  AnsweredInOrder'
<1>1. Len(sends') = Len(sends) /\ sends' \in Seq(SendRecord)
  BY DEF Answers
<1>2. DOMAIN sends' = 1..Len(sends) /\ DOMAIN sends = 1..Len(sends)
  BY <1>1, SendsTyped, LenProperties
<1>3. ASSUME NEW s \in DOMAIN sends', NEW t \in DOMAIN sends',
             s < t, sends'[s].cb, sends'[t].cb, Accepted(s)', Accepted(t)', Answered(t)'
      PROVE  Answered(s)'
  <2>1. s \in 1..Len(sends) /\ t \in 1..Len(sends)
    BY <1>2
  <2>2. sends[s].cb /\ Accepted(s) /\ sends[t].cb /\ Accepted(t)
    BY <1>3, <2>1 DEF Answers, Accepted
  <2>3. CASE Answered(s)
    BY <2>1, <2>3 DEF Answers, Answered
  <2>4. CASE ~Answered(s)
    <3>1. ~Answered(t)
      BY <1>2, <1>3, <2>1, <2>2, <2>4 DEF AnsweredInOrder
    <3>2. t \in D
      <4>1. sends'[t].res # <<>> /\ sends[t].res = <<>>
        BY <1>3, <3>1 DEF Answered
      <4> QED BY <2>1, <4>1 DEF Answers
    <3>3. s \in D
      BY <1>3, <2>1, <2>2, <2>4, <3>2
    <3> QED BY <2>1, <3>3 DEF Answers, Answered
  <2> QED BY <2>3, <2>4
<1> QED BY <1>3 DEF AnsweredInOrder

(* Answers leave the callbacks that wait where they are, and no accepted     *)
(* byte moves.                                                               *)
LEMMA WaitingKept ==
  ASSUME TypeOK, NEW q \in Seq(Item), CallbacksWait(q, sends), UptoInv,
         NEW D, NEW ok, Answers(sends, sends', D, ok), accepted' = accepted
  PROVE  CallbacksWait(q, sends') /\ UptoInv'
<1>1. Len(sends') = Len(sends) /\ \A s \in 1..Len(sends) : sends'[s].upto = sends[s].upto
  BY DEF Answers
<1>2. CallbacksWait(q, sends')
  BY <1>1 DEF CallbacksWait
<1>3. UptoInv'
  BY <1>1 DEF UptoInv
<1> QED BY <1>2, <1>3

(* The sends before one whose callback waits in the first item are answered, *)
(* or wait there too.                                                        *)
LEMMA FirstInOrder ==
  ASSUME TypeOK, CallbackInv, alive, pc # "append", Len(wq) >= 1,
         NEW s \in 1..Len(sends), NEW t \in CallbacksOf(wq[1]), s < t,
         sends[s].cb, ~Answered(s)
  PROVE  s \in CallbacksOf(wq[1])
<1>1. PICK i \in 1..Len(wq) : s \in CallbacksOf(wq[i])
  BY DEF CallbackInv, UnansweredWait
<1>2. CASE i = 1
  BY <1>1, <1>2
<1>3. CASE i # 1
  <2>1. wq \in Seq(Item) /\ Len(wq) \in Nat /\ 1 \in 1..Len(wq) /\ 1 < i
    BY <1>3, LenProperties DEF TypeOK
  <2>2. t <= s
    BY <1>1, <2>1 DEF CallbackInv, CallbacksWait
  <2>3. t \in Nat
    BY <2>1, CallbacksAreNumbers
  <2> QED BY <2>2, <2>3
<1> QED BY <1>2, <1>3

(* Whenever the callbacks of the first item are called, and told success     *)
(* only when its last byte is on the wire, the properties of callbacks hold  *)
(* on, and those still to be called wait in the items behind it.             *)
LEMMA FirstAnswered ==
  ASSUME TypeOK, CallbackInv, alive, alive', pc # "append", Len(wq) >= 1,
         accepted' = accepted, wire' \in Seq(Bytes), Len(wire) <= Len(wire'),
         NEW result \in Results, NEW ok, result = "success" => ok,
         sends' = RunCallbacks(sends, wq[1].cbs, result),
         ok => \A s \in CallbacksOf(wq[1]) : sends[s].upto <= Len(wire')
  PROVE  /\ Answers(sends, sends', CallbacksOf(wq[1]), ok)
         /\ UptoInv' /\ SuccessMeansWritten' /\ AnsweredInOrder' /\ NoCallbackLost'
         /\ \A s \in 1..Len(sends') : sends'[s].cb /\ ~Answered(s)'
              => \E i \in 2..Len(wq) : s \in CallbacksOf(wq[i])
<1> DEFINE D == CallbacksOf(wq[1])
<1>1. sends \in Seq(SendRecord) /\ wq \in Seq(Item) /\ Len(wq) \in Nat
  BY LenProperties DEF TypeOK
<1>2. Answers(sends, sends', D, ok)
  BY <1>1, RunCallbacksAnswers
<1> HIDE DEF D
<1>3. SuccessMeansWritten'
  <2>1. SuccessMeansWritten
    BY DEF CallbackInv
  <2>2. ok =>
           \A s \in 1..Len(sends) : s \in D => sends[s].upto <= Len(wire')
    BY DEF D
  <2> QED BY <1>2, <2>1, <2>2, SuccessKept
<1>4. AnsweredInOrder'
  <2>1. \A s, t \in 1..Len(sends) :
            s < t /\ t \in D /\ sends[s].cb /\ Accepted(s) /\ ~Answered(s) => s \in D
    BY FirstInOrder DEF D
  <2>2. AnsweredInOrder
    BY DEF CallbackInv
  <2> QED BY <1>2, <2>1, <2>2, OrderKept
<1>5. UptoInv' /\ NoCallbackLost'
  <2>1. CallbacksWait(wq, sends) /\ UptoInv
    BY DEF CallbackInv
  <2>2. UptoInv'
    BY <1>1, <1>2, <2>1, WaitingKept
  <2> QED BY <2>2 DEF NoCallbackLost
<1>6. ASSUME NEW s \in 1..Len(sends'), sends'[s].cb, ~Answered(s)'
      PROVE  \E i \in 2..Len(wq) : s \in CallbacksOf(wq[i])
  <2>1. s \in 1..Len(sends) /\ sends[s].cb
    BY <1>2, <1>6 DEF Answers
  <2>2. s \notin D /\ ~Answered(s)
    BY <1>2, <1>6, <2>1 DEF Answers, Answered
  <2>3. PICK i \in 1..Len(wq) : s \in CallbacksOf(wq[i])
    BY <2>1, <2>2 DEF CallbackInv, UnansweredWait
  <2>4. i # 1
    BY <2>2, <2>3 DEF D
  <2> QED BY <1>1, <2>3, <2>4
<1> QED BY <1>2, <1>3, <1>4, <1>5, <1>6 DEF D

-----------------------------------------------------------------------------
(* Every step keeps the callback invariant                                   *)

(* Steps that leave the sends and the items alone: the rest of a handler     *)
(* without an answer, a write begun, bytes that reach the wire.              *)
LEMMA CallbackFrame ==
  ASSUME TypeOK, CallbackInv, Len(wq) >= 1, wire' \in Seq(Bytes),
         Len(wire) <= Len(wire'), StoppedIsIdle',
         UNCHANGED <<sends, accepted, alive>>,
         \/ UNCHANGED <<wq, pc, call, running>>
         \/ /\ pc # "append" /\ pc' # "append"
            /\ wq' = wq \/ wq' = Freeze(wq)
  PROVE  CallbackInv'
<1>1. wq \in Seq(Item) /\ Len(sends) \in Nat /\ Len(wire) \in Nat /\ Len(wire') \in Nat
      /\ Len(wq) \in Nat
  BY LenProperties DEF TypeOK
<1>2. CallbacksWait(wq, sends)
  BY DEF CallbackInv
<1>3. /\ CallbacksWait(wq', sends)
      /\ \A i \in 1..Len(wq) : CallbacksOf(wq'[i]) = CallbacksOf(wq[i])
      /\ Len(wq) <= Len(wq')
      /\ Len(wq') \in Nat
  <2>1. CASE wq' = wq
    BY <1>1, <1>2, <2>1
  <2>2. CASE wq' = Freeze(wq)
    <3>1. Freeze(wq) \in Seq(Item)
      BY <1>1, FreezeFacts
    <3> QED BY <1>1, <1>2, <2>2, <3>1, FreezeKeepsCallbacks, LenProperties
  <2> QED BY <2>1, <2>2
<1>4. UnansweredWait'
  <2>1. ASSUME alive', NEW s \in 1..Len(sends'), sends'[s].cb, ~Answered(s)',
               ~(pc' = "append" /\ s = Len(sends'))
        PROVE  \E i \in 1..Len(wq') : s \in CallbacksOf(wq'[i])
    <3>1. alive /\ s \in 1..Len(sends) /\ sends[s].cb /\ ~Answered(s)
      BY <2>1 DEF Answered
    <3>2. ~(pc = "append" /\ s = Len(sends))
      BY <2>1
    <3>3. PICK i \in 1..Len(wq) : s \in CallbacksOf(wq[i])
      BY <3>1, <3>2 DEF CallbackInv, UnansweredWait
    <3>4. i \in 1..Len(wq') /\ s \in CallbacksOf(wq'[i])
      BY <1>1, <1>3, <3>3
    <3> QED BY <3>4
  <2> QED BY <2>1 DEF UnansweredWait
<1>5. CurrentSend'
  <2>1. CASE pc' # "append"
    BY <2>1 DEF CurrentSend
  <2>2. CASE UNCHANGED <<wq, pc, call, running>>
    BY <2>2 DEF CallbackInv, CurrentSend, Answered
  <2> QED BY <2>1, <2>2
<1>6. SuccessMeansWritten'
  <2>1. ASSUME NEW s \in DOMAIN sends, \E i \in DOMAIN sends[s].res : sends[s].res[i] = "success"
        PROVE  sends[s].upto <= Len(wire')
    <3>1. sends[s].upto <= Len(wire)
      BY <2>1 DEF CallbackInv, SuccessMeansWritten
    <3>2. sends[s].upto \in Nat
      BY SendsTyped
    <3> QED BY <1>1, <3>1, <3>2
  <2> QED BY <2>1 DEF SuccessMeansWritten
<1>7. UptoInv' /\ AnsweredInOrder' /\ NoCallbackLost'
  <2>1. UptoInv'
    BY DEF CallbackInv, UptoInv
  <2>2. AnsweredInOrder'
    BY DEF CallbackInv, AnsweredInOrder, Accepted, Answered
  <2>3. NoCallbackLost'
    BY DEF CallbackInv, NoCallbackLost, Answered
  <2> QED BY <2>1, <2>2, <2>3
<1>8. CallbacksWait(wq, sends)'
  BY <1>3
<1> QED BY <1>4, <1>5, <1>6, <1>7, <1>8 DEF CallbackInv

(* A new record in the log: the send just begun, or one that was rejected.   *)
LEMMA NewSend ==
  ASSUME TypeOK, CallbackInv, NEW send \in SendRecord,
         sends' = Append(sends, send),
         send.from = accepted, send.upto = accepted, ~HasSuccess(send), alive,
         UNCHANGED <<wq, running, accepted, wire, io, alive>>,
         pc = "idle", io # "stopped",
         \/ send.cb /\ send.res # <<>> /\ pc' = "idle"
         \/ ~send.cb /\ pc' = "idle"
         \/ send.res = <<>> /\ pc' = "append" /\ call'.aggr /\ call'.todo # <<>>
  PROVE  CallbackInv'
<1> DEFINE n == Len(sends)
<1>1. /\ n \in Nat /\ Len(sends') = n + 1
      /\ sends' \in Seq(SendRecord)
      /\ \A s \in 1..n : sends'[s] = sends[s]
      /\ sends'[n + 1] = send
  BY AppendProperties, LenProperties DEF TypeOK
<1>2. DOMAIN sends = 1..n /\ DOMAIN sends' = 1..n + 1
  BY <1>1, SendsTyped, LenProperties
<1>3. accepted \in Nat /\ wq \in Seq(Item) /\ Len(wq) \in Nat
  BY LenProperties DEF TypeOK
<1> HIDE DEF n
<1>4. \A s \in 1..n + 1 : s \in 1..n \/ s = n + 1
  BY <1>1
<1>5. \A i \in 1..Len(wq) : \A s \in CallbacksOf(wq[i]) : s \in 1..n
  BY DEF CallbackInv, CallbacksWait, n
<1>6. CallbacksWait(wq', sends')
  <2>1. \A i \in 1..Len(wq) : \A s \in CallbacksOf(wq[i]) :
          /\ s \in 1..Len(sends')
          /\ wq[i].data # <<>>
          /\ sends'[s].upto <= LastByte(wq[i])
    BY <1>1, <1>5 DEF CallbackInv, CallbacksWait
  <2>2. \A i, k \in 1..Len(wq) :
          i < k => \A s \in CallbacksOf(wq[i]), t \in CallbacksOf(wq[k]) : s <= t
    BY DEF CallbackInv, CallbacksWait
  <2> QED BY <2>1, <2>2 DEF CallbacksWait
<1>7. UnansweredWait'
  <2>1. ASSUME NEW s \in 1..Len(sends'), sends'[s].cb, ~Answered(s)'
        PROVE  \/ pc' = "append" /\ s = Len(sends')
               \/ \E i \in 1..Len(wq) : s \in CallbacksOf(wq[i])
    <3>1. CASE s = n + 1
      BY <1>1, <2>1, <3>1 DEF Answered
    <3>2. CASE s \in 1..n
      <4>1. sends[s].cb /\ ~Answered(s)
        BY <1>1, <2>1, <3>2 DEF Answered
      <4>2. \E i \in 1..Len(wq) : s \in CallbacksOf(wq[i])
        BY <3>2, <4>1 DEF CallbackInv, UnansweredWait, n
      <4> QED BY <4>2
    <3> QED BY <1>1, <1>4, <3>1, <3>2
  <2> QED BY <2>1 DEF UnansweredWait
<1>8. CurrentSend'
  <2>1. CASE pc' = "append"
    <3>1. send.res = <<>> /\ call'.aggr /\ call'.todo # <<>>
      BY <2>1
    <3>2. ~Answered(Len(sends))'
      BY <1>1, <3>1 DEF Answered
    <3>3. \A i \in 1..Len(wq) : Len(sends') \notin CallbacksOf(wq[i])
      BY <1>1, <1>5
    <3> QED BY <3>1, <3>2, <3>3 DEF CurrentSend
  <2>2. CASE pc' # "append"
    BY <2>2 DEF CurrentSend
  <2> QED BY <2>1, <2>2
<1>9. UptoInv'
  BY <1>1, <1>3, <1>4 DEF CallbackInv, UptoInv, n
<1>10. SuccessMeansWritten'
  <2>1. ASSUME NEW s \in DOMAIN sends', HasSuccess(sends'[s])
        PROVE  sends'[s].upto <= Len(wire)
    <3>1. s \in 1..n /\ sends'[s] = sends[s]
      BY <1>1, <1>2, <1>4, <2>1
    <3> QED BY <1>2, <2>1, <3>1 DEF CallbackInv, SuccessMeansWritten, HasSuccess
  <2> QED BY <2>1 DEF SuccessMeansWritten, HasSuccess
<1>11. AnsweredInOrder'
  <2>1. ASSUME NEW s \in DOMAIN sends', NEW t \in DOMAIN sends', s < t,
               sends'[s].cb, sends'[t].cb, Accepted(s)', Accepted(t)', Answered(t)'
        PROVE  Answered(s)'
    <3>1. t # n + 1
      BY <1>1, <1>3, <2>1 DEF Accepted
    <3>2. t \in 1..n /\ s \in 1..n
      BY <1>1, <1>2, <1>4, <2>1, <3>1
    <3>3. sends'[s] = sends[s] /\ sends'[t] = sends[t]
      BY <1>1, <3>2
    <3>4. s \in DOMAIN sends /\ t \in DOMAIN sends
      BY <1>2, <3>2
    <3>5. sends[s].cb /\ sends[t].cb /\ Accepted(s) /\ Accepted(t) /\ Answered(t)
      BY <2>1, <3>3 DEF Accepted, Answered
    <3>6. Answered(s)
      BY <2>1, <3>4, <3>5 DEF CallbackInv, AnsweredInOrder
    <3> QED BY <3>3, <3>6 DEF Answered
  <2> QED BY <2>1 DEF AnsweredInOrder
<1>12. NoCallbackLost' /\ StoppedIsIdle'
  BY DEF NoCallbackLost, StoppedIsIdle
<1> QED BY <1>6, <1>7, <1>8, <1>9, <1>10, <1>11, <1>12 DEF CallbackInv

(* schedule_send, accepted or rejected. *)
LEMMA CallbackSend ==
  ASSUME TypeOK, CallbackInv, Send
  PROVE  CallbackInv'
<1>1. CASE \E sizes \in Shapes, cb \in CbOptions : ScheduleSend(sizes, cb)
  <2>1. PICK sizes \in Shapes, cb \in CbOptions : ScheduleSend(sizes, cb)
    BY <1>1
  <2> DEFINE send == [cb |-> cb, from |-> accepted, upto |-> accepted, res |-> <<>>]
  <2>2. send \in SendRecord
    BY EmptySeq, OptionsAssumption DEF TypeOK, SendRecord
  <2>3. send.from = accepted /\ send.upto = accepted /\ send.res = <<>>
    OBVIOUS
  <2>4. ~HasSuccess(send)
    BY <2>3, EmptySeq DEF HasSuccess
  <2>5. sends' = Append(sends, send)
    BY <2>1 DEF ScheduleSend
  <2> HIDE DEF send
  <2>6. sizes # <<>>
    BY ShapesAssumption
  <2>7. call'.aggr /\ call'.todo # <<>> /\ pc' = "append"
    BY <2>1, <2>6 DEF ScheduleSend
  <2>8. /\ UNCHANGED <<wq, running, accepted, wire, io, alive>>
        /\ pc = "idle" /\ io # "stopped" /\ alive
    BY <2>1 DEF ScheduleSend, UserCall, userVars
  <2> QED BY <2>2, <2>3, <2>4, <2>5, <2>7, <2>8, NewSend
<1>2. CASE \E cb \in CbOptions : RejectSend(cb)
  <2>1. PICK cb \in CbOptions : RejectSend(cb)
    BY <1>2
  <2>2. cb \in BOOLEAN
    BY OptionsAssumption
  <2> DEFINE res == IF cb THEN <<"rejected_schedule_send">> ELSE <<>>
             send == [cb |-> cb, from |-> accepted, upto |-> accepted, res |-> res]
  <2>3. res \in Seq(Results) /\ (cb => res # <<>>)
        /\ \A i \in DOMAIN res : res[i] # "success"
    <3>1. CASE cb
      BY <3>1 DEF Results
    <3>2. CASE ~cb
      BY <3>2, EmptySeq
    <3> QED BY <3>1, <3>2
  <2>4. sends' = Append(sends, send)
    BY <2>1 DEF RejectSend
  <2> HIDE DEF res
  <2>5. send \in SendRecord
    BY <2>2, <2>3 DEF TypeOK, SendRecord
  <2>6. send.from = accepted /\ send.upto = accepted /\ send.res = res /\ send.cb = cb
    OBVIOUS
  <2> HIDE DEF send
  <2>7. ~HasSuccess(send)
    BY <2>3, <2>6 DEF HasSuccess
  <2>8. /\ UNCHANGED <<wq, running, accepted, wire, io, alive>>
        /\ pc = "idle" /\ pc' = "idle" /\ io # "stopped" /\ alive
    BY <2>1 DEF RejectSend, UserCall, userVars
  <2>9. (send.cb /\ send.res # <<>>) \/ ~send.cb
    BY <2>2, <2>3, <2>6
  <2> QED BY <2>4, <2>5, <2>6, <2>7, <2>8, <2>9, NewSend
<1> QED BY <1>1, <1>2 DEF Send


(* Taking a buffer of the send under way, whose callback waits nowhere yet:  *)
(* its bytes come behind all those whose sends wait in the queue.            *)
LEMMA TakeBufferCallbacks ==
  ASSUME TypeOK, StreamInv, CallbackInv, NEW aggr \in BOOLEAN, TakeBuffer(aggr),
         wire' \in Seq(Bytes), Len(wire) <= Len(wire'),
         \/ aggr /\ ~running /\ wq' = wq
         \/ /\ ~aggr
            /\ \E bytes \in Seq(Bytes), a \in Nat :
                 /\ bytes # <<>> /\ a >= accepted /\ IsRun(bytes, a)
                 /\ wq' = AppendOutgoingBuffer(wq, bytes)
  PROVE  CallbackInv'
<1> DEFINE n == Len(sends)
           m == Head(call.todo)
<1>1. /\ pc = "append" /\ call.todo # <<>> /\ sends # <<>>
      /\ UNCHANGED <<running, pc, io, alive>>
      /\ call'.aggr = aggr
      /\ accepted' = accepted + m
      /\ sends' = [sends EXCEPT ![n].upto = accepted + m]
  BY DEF TakeBuffer, StreamInv, FlagsInv, userVars
<1>2. m \in Nat \ {0} /\ accepted \in Nat /\ wq \in Seq(Item) /\ Len(wq) >= 1
      /\ Len(wq) \in Nat /\ Len(wire) \in Nat /\ Len(wire') \in Nat
  BY <1>1, NextBufferType, LenProperties DEF TypeOK, StreamInv, QueueShape
<1>3. n \in 1..n /\ n \in Nat /\ sends \in Seq(SendRecord) /\ DOMAIN sends = 1..n
  BY <1>1, EmptySeq, LenProperties DEF TypeOK
<1> HIDE DEF m
<1>4. DOMAIN sends' = 1..n /\ Len(sends') = n
  BY <1>1, <1>3, LenProperties
<1>5. ASSUME NEW s \in 1..n
      PROVE  /\ sends'[s].cb = sends[s].cb /\ sends'[s].from = sends[s].from
             /\ sends'[s].res = sends[s].res
             /\ s # n => sends'[s] = sends[s]
             /\ s = n => sends'[s].upto = accepted + m
  <2>1. CASE s = n
    <3>1. sends[n] \in SendRecord
      BY <1>3, ElementOfSeq
    <3>2. sends'[n] = [sends[n] EXCEPT !.upto = accepted + m]
      BY <1>1, <1>3
    <3> QED BY <2>1, <3>1, <3>2 DEF SendRecord
  <2>2. CASE s # n
    BY <1>1, <1>3, <2>2
  <2> QED BY <2>1, <2>2
<1>6. /\ sends[n].res = <<>>
      /\ \A i \in 1..Len(wq) : n \notin CallbacksOf(wq[i])
  BY <1>1 DEF CallbackInv, CurrentSend, Answered
<1>7. \A i \in 1..Len(wq) : \A s \in CallbacksOf(wq[i]) :
        /\ s \in 1..n /\ sends'[s].upto = sends[s].upto
        /\ wq[i].data # <<>> /\ sends[s].upto <= LastByte(wq[i])
        /\ sends[s].upto \in Nat /\ sends[s].upto <= accepted
  <2>1. ASSUME NEW i \in 1..Len(wq), NEW s \in CallbacksOf(wq[i])
        PROVE  /\ s \in 1..n /\ sends'[s].upto = sends[s].upto
               /\ wq[i].data # <<>> /\ sends[s].upto <= LastByte(wq[i])
               /\ sends[s].upto \in Nat /\ sends[s].upto <= accepted
    <3>1. s \in 1..n /\ wq[i].data # <<>> /\ sends[s].upto <= LastByte(wq[i])
      BY DEF CallbackInv, CallbacksWait
    <3>2. sends'[s].upto = sends[s].upto
      BY <1>5, <1>6, <3>1
    <3>3. sends[s].upto \in Nat /\ sends[s].upto <= accepted
      BY <3>1, SendsTyped DEF CallbackInv, UptoInv
    <3> QED BY <3>1, <3>2, <3>3
  <2> QED BY <2>1
<1> HIDE DEF n
<1>8. /\ CallbacksWait(wq', sends')
      /\ Len(wq) <= Len(wq') /\ Len(wq') \in Nat
      /\ \A i \in 1..Len(wq) : CallbacksOf(wq'[i]) = CallbacksOf(wq[i])
      /\ \A i \in 1..Len(wq') : i > Len(wq) => CallbacksOf(wq'[i]) = {}
      /\ ~aggr => wq'[Len(wq')].data # <<>>
  <2>1. CallbacksWait(wq, sends)
    BY DEF CallbackInv
  <2>2. CASE aggr /\ ~running /\ wq' = wq
    <3>1. \A i, k \in 1..Len(wq) :
            i < k => \A s \in CallbacksOf(wq[i]), t \in CallbacksOf(wq[k]) : s <= t
      BY <2>1 DEF CallbacksWait
    <3>2. \A i \in 1..Len(wq) : \A s \in CallbacksOf(wq[i]) :
            s \in 1..Len(sends') /\ wq[i].data # <<>> /\ sends'[s].upto <= LastByte(wq[i])
      BY <1>4, <1>7
    <3> QED BY <1>2, <2>2, <3>1, <3>2 DEF CallbacksWait
  <2>3. ASSUME ~aggr, NEW bytes \in Seq(Bytes), NEW a \in Nat,
               bytes # <<>>, a >= accepted, IsRun(bytes, a),
               wq' = AppendOutgoingBuffer(wq, bytes)
        PROVE  /\ CallbacksWait(wq', sends')
               /\ Len(wq) <= Len(wq') /\ Len(wq') \in Nat
               /\ \A i \in 1..Len(wq) : CallbacksOf(wq'[i]) = CallbacksOf(wq[i])
               /\ \A i \in 1..Len(wq') : i > Len(wq) => CallbacksOf(wq'[i]) = {}
               /\ wq'[Len(wq')].data # <<>>
    <3>1. /\ wq' \in Seq(Item)
          /\ Len(wq) <= Len(wq')
          /\ \A i \in 1..Len(wq) : CallbacksOf(wq'[i]) = CallbacksOf(wq[i])
          /\ \A i \in 1..Len(wq') : i > Len(wq) => CallbacksOf(wq'[i]) = {}
          /\ \A i \in 1..Len(wq) : \/ wq'[i].data = wq[i].data
                                   \/ wq'[i].data = wq[i].data \o bytes
          /\ wq'[Len(wq')].data # <<>>
      <4> DEFINE r == AppendOutgoingBuffer(wq, bytes)
      <4>1. /\ r \in Seq(Item)
            /\ Len(wq) <= Len(r)
            /\ \A i \in 1..Len(wq) : CallbacksOf(r[i]) = CallbacksOf(wq[i])
            /\ \A i \in 1..Len(r) : i > Len(wq) => CallbacksOf(r[i]) = {}
            /\ \A i \in 1..Len(wq) : \/ r[i].data = wq[i].data
                                     \/ r[i].data = wq[i].data \o bytes
            /\ r[Len(r)].data # <<>>
        BY <1>2, <2>3, AppendKeepsCallbacks
      <4>2. wq' = r
        BY <2>3
      <4> HIDE DEF r
      <4> QED BY <4>1, <4>2
    <3>2. ASSUME NEW i \in 1..Len(wq), NEW s \in CallbacksOf(wq[i])
          PROVE  wq'[i].data # <<>> /\ sends'[s].upto <= LastByte(wq'[i])
      <4>1. wq[i].data \in Seq(Bytes)
        <5>1. wq[i] \in Item
          BY <1>2, ElementOfSeq
        <5> QED BY <5>1 DEF Item
      <4>2. /\ sends'[s].upto = sends[s].upto /\ wq[i].data # <<>>
            /\ sends[s].upto <= LastByte(wq[i])
            /\ sends[s].upto \in Nat /\ sends[s].upto <= accepted
        BY <1>7
      <4>3. CASE wq'[i].data = wq[i].data
        BY <4>2, <4>3 DEF LastByte
      <4>4. CASE wq'[i].data = wq[i].data \o bytes
        <5>1. wq'[i].data # <<>> /\ LastByte(wq'[i]) = a + Len(bytes)
          BY <2>3, <4>1, <4>4, LastByteAppended DEF LastByte
        <5>2. Len(bytes) \in Nat
          BY LenProperties
        <5> QED BY <1>2, <2>3, <4>2, <5>1, <5>2
      <4> QED BY <3>1, <4>3, <4>4
    <3>3. Len(sends) \in Nat /\ Len(sends') \in Nat /\ Len(sends) <= Len(sends')
      BY <1>3, <1>4 DEF n
    <3>4. CallbacksWait(wq', sends')
      BY <1>2, <2>1, <3>1, <3>2, <3>3, CallbacksStay, Zenon
    <3> QED BY <3>1, <3>4, LenProperties
  <2> QED BY <2>2, <2>3
<1>9. UnansweredWait'
  <2>1. ASSUME NEW s \in 1..Len(sends'), sends'[s].cb, ~Answered(s)', alive'
        PROVE  \/ pc' = "append" /\ s = Len(sends')
               \/ \E i \in 1..Len(wq') : s \in CallbacksOf(wq'[i])
    <3>1. s \in 1..Len(sends) /\ sends[s].cb /\ ~Answered(s) /\ alive
      BY <1>1, <1>4, <1>5, <2>1 DEF Answered, n
    <3>2. CASE s = Len(sends)
      BY <1>1, <1>4, <3>2 DEF n
    <3>3. CASE s # Len(sends)
      <4>1. PICK i \in 1..Len(wq) : s \in CallbacksOf(wq[i])
        BY <3>1, <3>3 DEF CallbackInv, UnansweredWait
      <4>2. i \in 1..Len(wq') /\ s \in CallbacksOf(wq'[i])
        BY <1>2, <1>8, <4>1
      <4> QED BY <4>2
    <3> QED BY <3>2, <3>3
  <2> QED BY <2>1 DEF UnansweredWait
<1>10. CurrentSend'
  <2>1. ~Answered(Len(sends))'
    BY <1>3, <1>4, <1>5, <1>6 DEF Answered
  <2>2. ASSUME NEW i \in 1..Len(wq')
        PROVE  Len(sends') \notin CallbacksOf(wq'[i])
    <3>1. CASE i \in 1..Len(wq)
      BY <1>4, <1>6, <1>8, <3>1
    <3>2. CASE i > Len(wq)
      BY <1>8, <3>2
    <3> QED BY <1>2, <1>8, <3>1, <3>2
  <2>3. call'.aggr /\ running' => call'.todo # <<>>
    BY <1>1, <1>8
  <2>4. ~call'.aggr => wq'[Len(wq')].data # <<>>
    BY <1>1, <1>8
  <2> QED BY <2>1, <2>2, <2>3, <2>4 DEF CurrentSend
<1>11. UptoInv'
  <2>1. ASSUME NEW s \in 1..n
        PROVE  sends'[s].upto <= accepted + m
    <3>1. sends[s].upto \in Nat /\ sends[s].upto <= accepted
      BY SendsTyped DEF CallbackInv, UptoInv, n
    <3> QED BY <1>2, <1>5, <3>1
  <2> QED BY <1>1, <1>4, <2>1 DEF UptoInv
<1>12. SuccessMeansWritten'
  <2>1. ASSUME NEW s \in DOMAIN sends', HasSuccess(sends'[s])
        PROVE  sends'[s].upto <= Len(wire')
    <3>1. s \in 1..n /\ sends'[s].res = sends[s].res /\ HasSuccess(sends[s])
      BY <1>4, <1>5, <2>1 DEF HasSuccess
    <3>2. s # n
      BY <1>6, <3>1, EmptySeq DEF HasSuccess
    <3>3. sends'[s] = sends[s] /\ sends[s].upto \in Nat
      BY <1>5, <3>1, <3>2, SendsTyped DEF n
    <3>4. sends[s].upto <= Len(wire)
      BY <1>3, <3>1 DEF CallbackInv, SuccessMeansWritten, HasSuccess
    <3> QED BY <1>2, <3>3, <3>4
  <2> QED BY <2>1 DEF SuccessMeansWritten, HasSuccess
<1>13. AnsweredInOrder'
  <2>1. ASSUME NEW s \in DOMAIN sends', NEW t \in DOMAIN sends', s < t,
               sends'[s].cb, sends'[t].cb, Accepted(s)', Accepted(t)', Answered(t)'
        PROVE  Answered(s)'
    <3>1. s \in 1..n /\ t \in 1..n
      BY <1>4
    <3>2. t # n
      BY <1>5, <1>6, <2>1, <3>1 DEF Answered
    <3>3. s # n
      BY <1>3, <2>1, <3>1
    <3>4. sends'[s] = sends[s] /\ sends'[t] = sends[t]
      BY <1>5, <3>1, <3>2, <3>3
    <3>5. sends[s].cb /\ sends[t].cb /\ Accepted(s) /\ Accepted(t) /\ Answered(t)
      BY <2>1, <3>4 DEF Accepted, Answered
    <3>6. Answered(s)
      BY <1>3, <2>1, <3>1, <3>5 DEF CallbackInv, AnsweredInOrder
    <3> QED BY <3>4, <3>6 DEF Answered
  <2> QED BY <2>1 DEF AnsweredInOrder
<1>14. NoCallbackLost' /\ StoppedIsIdle'
  <2>1. alive /\ alive'
    BY <1>1 DEF TakeBuffer
  <2> QED BY <1>1, <2>1 DEF NoCallbackLost, CallbackInv, StoppedIsIdle
<1> QED BY <1>8, <1>9, <1>10, <1>11, <1>12, <1>13, <1>14 DEF CallbackInv

(* The three ways in which a buffer is taken. *)
LEMMA CallbackTakeNextBuffer ==
  ASSUME TypeOK, StreamInv, CallbackInv, TakeNextBuffer, wire' \in Seq(Bytes)
  PROVE  CallbackInv'
<1>1. accepted \in Nat /\ wire \in Seq(Bytes) /\ Len(wire) \in Nat /\ 0 \in Nat
  BY LenProperties DEF TypeOK
<1>2. ASSUME call.todo # <<>>
      PROVE  /\ NextBuffer \in Seq(Bytes) /\ NextBuffer # <<>>
             /\ IsRun(NextBuffer, accepted)
             /\ Len(NextBuffer) = Head(call.todo) /\ Head(call.todo) \in Nat \ {0}
  BY <1>2, NextBufferType, EmptySeq
<1>3. CASE AggressiveWrite
  <2>1. TakeBuffer(TRUE) /\ wq' = wq /\ wire' = wire \o NextBuffer /\ ~running
    BY <1>3 DEF AggressiveWrite, TryAggressive
  <2>2. NextBuffer \in Seq(Bytes)
    BY <1>2, <2>1 DEF TakeBuffer
  <2>3. Len(wire) <= Len(wire')
    BY <1>1, <2>1, <2>2, ConcatProperties, LenProperties
  <2> QED BY <2>1, <2>3, TakeBufferCallbacks
<1>4. ASSUME NEW k \in 0..Head(call.todo) - 1, NEW outcome \in {"open", "broken"},
             AggressivePartial(k, outcome)
      PROVE  CallbackInv'
  <2> DEFINE bytes == SkipTransferred(NextBuffer, k)
  <2>1. /\ TakeBuffer(FALSE) /\ wire' = wire \o SubSeq(NextBuffer, 1, k)
        /\ wq' = AppendOutgoingBuffer(wq, bytes)
    BY <1>4 DEF AggressivePartial
  <2>2. /\ NextBuffer \in Seq(Bytes) /\ IsRun(NextBuffer, accepted)
        /\ k \in 0..Len(NextBuffer) /\ k < Len(NextBuffer) /\ k \in Nat
        /\ Len(NextBuffer) \in Nat
    BY <1>2, <2>1, SMTT(20) DEF TakeBuffer
  <2>3. /\ bytes \in Seq(Bytes) /\ Len(bytes) = Len(NextBuffer) - k
        /\ SubSeq(NextBuffer, 1, k) \in Seq(Bytes) /\ Len(SubSeq(NextBuffer, 1, k)) = k
    BY <2>2, Parts
  <2>4. IsRun(bytes, accepted + k)
    BY <1>1, <2>2, PartsOfRun
  <2> HIDE DEF bytes
  <2>5. bytes # <<>> /\ accepted + k \in Nat /\ accepted + k >= accepted
    BY <1>1, <2>2, <2>3, EmptySeq
  <2>6. Len(wire) <= Len(wire')
    BY <1>1, <2>1, <2>2, <2>3, ConcatProperties
  <2> QED BY <2>1, <2>3, <2>4, <2>5, <2>6, TakeBufferCallbacks
<1>5. CASE AppendOnly
  <2>1. TakeBuffer(FALSE) /\ wire' = wire /\ wq' = AppendOutgoingBuffer(wq, NextBuffer)
    BY <1>5 DEF AppendOnly
  <2>2. NextBuffer \in Seq(Bytes) /\ NextBuffer # <<>> /\ IsRun(NextBuffer, accepted)
    BY <1>2, <2>1 DEF TakeBuffer
  <2>3. Len(wire) <= Len(wire') /\ accepted >= accepted
    BY <1>1, <2>1
  <2> QED BY <1>1, <2>1, <2>2, <2>3, TakeBufferCallbacks
<1> QED BY <1>3, <1>4, <1>5 DEF TakeNextBuffer


(* A step that answers nothing. *)
LEMMA NothingAnswered ==
  ASSUME NEW log \in Seq(SendRecord), NEW ok
  PROVE  Answers(log, log, {}, ok)
BY DEF Answers

(* The end of a send all of whose bytes went out at once: no callback waits  *)
(* then, so the one of this send is called in its turn.                      *)
LEMMA CallbackAggressiveEnd ==
  ASSUME TypeOK, StreamInv, CallbackInv, AppendDone, AllAggressive
  PROVE  CallbackInv'
<1> DEFINE n == Len(sends)
           D == IF sends[n].cb THEN {n} ELSE {}
<1>1. /\ pc = "append" /\ alive /\ call.todo = <<>> /\ call.aggr
      /\ pc' = "idle"
      /\ UNCHANGED <<wq, accepted, wire, alive, io>>
      /\ sends' = IF sends[n].cb THEN RunCallbacks(sends, <<n>>, "success") ELSE sends
  BY DEF AppendDone, AllAggressive, userVars
<1>2. /\ sends \in Seq(SendRecord) /\ wq \in Seq(Item) /\ wire \in Seq(Bytes)
      /\ accepted \in Nat /\ Len(wire) \in Nat
  BY LenProperties DEF TypeOK
<1>3. ~running /\ Len(wq) = 1 /\ wq[1].data = <<>> /\ writeEnabled /\ sends # <<>>
  BY <1>1 DEF CallbackInv, CurrentSend, StreamInv, AggressiveInv, FlagsInv
<1>4. n \in 1..n
  BY <1>2, <1>3, EmptySeq, LenProperties
<1>5. \A s : s \notin CallbacksOf(wq[1])
  BY <1>3 DEF CallbackInv, CallbacksWait
<1>6. ASSUME NEW s \in 1..n, sends[s].cb, ~Answered(s)
      PROVE  s = n
  BY <1>1, <1>3, <1>5, <1>6 DEF CallbackInv, UnansweredWait
<1>7. Len(wire) = accepted
  <2>1. PICK st \in [1..Len(wq) + 1 -> 0..accepted] :
          Chain(wq, accepted, st) /\ Frontier(st)
    BY DEF StreamInv, OrderInv
  <2>2. st[1] = accepted
    BY <1>3, <2>1, EmptyQueue
  <2>3. st[1] = Len(wire)
    BY <1>3, <2>1 DEF Frontier
  <2> QED BY <2>2, <2>3
<1>8. Answers(sends, sends', D, TRUE)
  <2>1. CASE sends[n].cb
    <3> DEFINE item == [cbs |-> <<n>>]
    <3>1. item.cbs = <<n>>
      OBVIOUS
    <3>2. CallbacksOf(item) = {n}
      BY <3>1 DEF CallbacksOf
    <3> HIDE DEF item
    <3>3. Answers(sends, RunCallbacks(sends, item.cbs, "success"), CallbacksOf(item), TRUE)
      BY <1>2, RunCallbacksAnswers DEF Results
    <3>4. D = {n} /\ sends' = RunCallbacks(sends, <<n>>, "success")
      BY <1>1, <2>1
    <3> HIDE DEF D, n
    <3> QED BY <3>1, <3>2, <3>3, <3>4
  <2>2. CASE ~sends[n].cb
    <3>1. D = {} /\ sends' = sends
      BY <1>1, <2>2
    <3> HIDE DEF D
    <3> QED BY <1>2, <3>1, NothingAnswered
  <2> QED BY <2>1, <2>2
<1>9. \A s : s \in D => s = n
  OBVIOUS
<1>10. sends[n].cb => n \in D
  OBVIOUS
<1> HIDE DEF D, n
<1>11. SuccessMeansWritten'
  <2>1. \A s \in 1..Len(sends) : s \in D => sends[s].upto <= Len(wire')
    BY <1>1, <1>7 DEF CallbackInv, UptoInv
  <2>2. wire' \in Seq(Bytes) /\ Len(wire) <= Len(wire')
    BY <1>1, <1>2
  <2>3. SuccessMeansWritten
    BY DEF CallbackInv
  <2> QED BY <1>8, <2>1, <2>2, <2>3, SuccessKept
<1>12. AnsweredInOrder'
  <2>1. ASSUME NEW s \in 1..Len(sends), NEW t \in 1..Len(sends), s < t, t \in D,
               sends[s].cb, ~Answered(s)
        PROVE  s \in D
    BY <1>6, <1>9, <2>1 DEF n
  <2>2. AnsweredInOrder
    BY DEF CallbackInv
  <2> QED BY <1>8, <2>1, <2>2, OrderKept
<1>13. CallbacksWait(wq, sends') /\ UptoInv'
  BY <1>1, <1>2, <1>8, WaitingKept DEF CallbackInv
<1>14. UnansweredWait'
  <2>1. ASSUME NEW s \in 1..Len(sends'), sends'[s].cb, ~Answered(s)'
        PROVE  FALSE
    <3>1. s \in 1..n /\ sends[s].cb /\ ~Answered(s) /\ s \notin D
      BY <1>8, <2>1 DEF Answers, Answered, n
    <3> QED BY <1>6, <1>10, <3>1
  <2> QED BY <2>1 DEF UnansweredWait
<1>15. CurrentSend' /\ StoppedIsIdle' /\ NoCallbackLost'
  BY <1>1 DEF CurrentSend, StoppedIsIdle, NoCallbackLost
<1>16. CallbacksWait(wq, sends)'
  BY <1>1, <1>13
<1> QED BY <1>11, <1>12, <1>13, <1>14, <1>15, <1>16 DEF CallbackInv

(* The end of a send some of whose bytes are queued: they are behind the     *)
(* last item's, and there the callback goes.                                 *)
LEMMA CallbackQueuedEnd ==
  ASSUME TypeOK, StreamInv, CallbackInv, AppendDone, ~AllAggressive
  PROVE  CallbackInv'
<1> DEFINE n == Len(sends)
           l == Len(wq)
<1>1. /\ pc = "append" /\ alive /\ ~call.aggr
      /\ pc' = "initiate"
      /\ UNCHANGED <<sends, accepted, wire, alive, io>>
      /\ wq' = IF sends[n].cb
               THEN [wq EXCEPT ![l] = AppendCompletionCb(@, n)]
               ELSE wq
  BY DEF AppendDone, AllAggressive, CallbackItem, userVars
<1>2. /\ sends \in Seq(SendRecord) /\ wq \in Seq(Item)
      /\ accepted \in Nat /\ n \in Nat /\ l \in Nat /\ l \in 1..l
  BY LenProperties DEF TypeOK, StreamInv, QueueShape
<1>3. n \in 1..n
  BY <1>1, <1>2, EmptySeq DEF StreamInv, FlagsInv
<1>4. wq[l].data # <<>>
  BY <1>1 DEF CallbackInv, CurrentSend
<1>5. LastByte(wq[l]) = accepted
  <2>1. PICK st \in [1..Len(wq) + 1 -> 0..accepted] : Chain(wq, accepted, st)
    BY DEF StreamInv, OrderInv
  <2>2. LastByte(wq[l]) = st[l + 1]
    BY <1>2, <1>4, <2>1, LastByteOfChain
  <2>3. st[l + 1] = accepted
    BY <2>1 DEF Chain
  <2> QED BY <2>2, <2>3
<1>6. CallbacksWait(wq, sends)
  BY DEF CallbackInv
<1>7. \A i \in 1..l : CallbacksOf(wq[i]) \subseteq 1..n
  BY <1>6 DEF CallbacksWait
<1>8. sends[n].upto <= accepted
  BY <1>3 DEF CallbackInv, UptoInv
<1> HIDE DEF n, l
<1>9. ASSUME sends[n].cb
      PROVE  /\ Len(wq') = l
             /\ \A i \in 1..l : wq'[i].data = wq[i].data
             /\ \A i \in 1..l : i # l => CallbacksOf(wq'[i]) = CallbacksOf(wq[i])
             /\ CallbacksOf(wq'[l]) = CallbacksOf(wq[l]) \cup {n}
  <2> DEFINE b == AppendCompletionCb(wq[l], n)
  <2>1. wq[l] \in Item /\ wq[l].cbs \in Seq(Nat)
    <3>1. l \in 1..Len(wq)
      BY <1>2 DEF l
    <3>2. wq[l] \in Item
      BY <1>2, <3>1, ElementOfSeq
    <3> QED BY <3>2 DEF Item
  <2>2. b = [wq[l] EXCEPT !.cbs = Append(wq[l].cbs, n)]
    BY DEF AppendCompletionCb
  <2>3. b.data = wq[l].data /\ b.cbs = Append(wq[l].cbs, n)
    BY <2>1, <2>2 DEF Item
  <2>4. /\ Len(b.cbs) = Len(wq[l].cbs) + 1 /\ b.cbs \in Seq(Nat)
        /\ \A j \in 1..Len(wq[l].cbs) : b.cbs[j] = wq[l].cbs[j]
        /\ b.cbs[Len(wq[l].cbs) + 1] = n
    BY <1>2, <2>1, <2>3, AppendProperties
  <2>5. Len(wq[l].cbs) \in Nat /\ DOMAIN wq[l].cbs = 1..Len(wq[l].cbs)
        /\ DOMAIN b.cbs = 1..Len(wq[l].cbs) + 1
    BY <2>1, <2>4, LenProperties
  <2> HIDE DEF b
  <2>6. CallbacksOf(b) = CallbacksOf(wq[l]) \cup {n}
    <3>1. \A j \in 1..Len(wq[l].cbs) + 1 : j \in 1..Len(wq[l].cbs) \/ j = Len(wq[l].cbs) + 1
      BY <2>5
    <3>2. \A j \in 1..Len(wq[l].cbs) : j \in 1..Len(wq[l].cbs) + 1
      BY <2>5
    <3>3. Len(wq[l].cbs) + 1 \in 1..Len(wq[l].cbs) + 1
      BY <2>5
    <3>4. ASSUME NEW s \in CallbacksOf(b)
          PROVE  s \in CallbacksOf(wq[l]) \cup {n}
      <4>1. PICK j \in 1..Len(wq[l].cbs) + 1 : b.cbs[j] = s
        BY <2>5 DEF CallbacksOf
      <4> QED BY <2>4, <2>5, <3>1, <4>1 DEF CallbacksOf
    <3>5. ASSUME NEW s \in CallbacksOf(wq[l])
          PROVE  s \in CallbacksOf(b)
      <4>1. PICK j \in 1..Len(wq[l].cbs) : wq[l].cbs[j] = s
        BY <2>5 DEF CallbacksOf
      <4> QED BY <2>4, <2>5, <3>2, <4>1 DEF CallbacksOf
    <3>6. n \in CallbacksOf(b)
      BY <2>4, <2>5, <3>3 DEF CallbacksOf
    <3> QED BY <3>4, <3>5, <3>6
  <2>7. wq' = [wq EXCEPT ![l] = b]
    BY <1>1, <1>9 DEF b
  <2>8. Len(wq') = l /\ \A i \in 1..l : wq'[i] = IF i = l THEN b ELSE wq[i]
    BY <1>2, <2>7, LenProperties DEF l
  <2> QED BY <1>2, <2>3, <2>6, <2>8
<1>10. CallbacksWait(wq', sends)
  <2>1. CASE ~sends[n].cb
    BY <1>1, <1>6, <2>1
  <2>2. CASE sends[n].cb
    <3>1. ASSUME NEW i \in 1..l, NEW s \in CallbacksOf(wq'[i])
          PROVE  s \in 1..n /\ wq'[i].data # <<>> /\ sends[s].upto <= LastByte(wq'[i])
      <4>1. wq'[i].data = wq[i].data /\ LastByte(wq'[i]) = LastByte(wq[i])
        BY <1>9, <2>2 DEF LastByte
      <4>2. CASE s \in CallbacksOf(wq[i])
        BY <1>6, <4>1, <4>2 DEF CallbacksWait, l, n
      <4>3. CASE s \notin CallbacksOf(wq[i])
        <5>1. i = l /\ s = n
          BY <1>9, <2>2, <3>1, <4>3
        <5> QED BY <1>3, <1>4, <1>5, <1>8, <4>1, <5>1
      <4> QED BY <4>2, <4>3
    <3>2. ASSUME NEW i \in 1..l, NEW k \in 1..l, i < k,
                 NEW s \in CallbacksOf(wq'[i]), NEW t \in CallbacksOf(wq'[k])
          PROVE  s <= t
      <4>1. i # l
        BY <1>2, <3>2
      <4>2. s \in CallbacksOf(wq[i]) /\ s \in 1..n
        BY <1>7, <1>9, <2>2, <4>1
      <4>3. CASE t \in CallbacksOf(wq[k])
        BY <1>6, <3>2, <4>2, <4>3 DEF CallbacksWait, l
      <4>4. CASE t \notin CallbacksOf(wq[k])
        <5>1. t = n
          BY <1>9, <2>2, <4>4
        <5> QED BY <1>2, <4>2, <5>1
      <4> QED BY <4>3, <4>4
    <3>3. Len(wq') = l
      BY <1>9, <2>2
    <3> QED BY <3>1, <3>2, <3>3 DEF CallbacksWait, n
  <2> QED BY <2>1, <2>2
<1>11. UnansweredWait'
  <2>1. ASSUME NEW s \in 1..n, sends[s].cb, ~Answered(s)
        PROVE  \E i \in 1..Len(wq') : s \in CallbacksOf(wq'[i])
    <3>1. CASE s = n
      BY <1>2, <1>9, <2>1, <3>1
    <3>2. CASE s # n
      <4>1. PICK i \in 1..l : s \in CallbacksOf(wq[i])
        BY <1>1, <2>1, <3>2 DEF CallbackInv, UnansweredWait, n, l
      <4>2. CASE ~sends[n].cb
        BY <1>1, <4>1, <4>2 DEF l
      <4>3. CASE sends[n].cb
        BY <1>9, <4>1, <4>3
      <4> QED BY <4>2, <4>3
    <3> QED BY <3>1, <3>2
  <2>2. sends' = sends
    BY <1>1
  <2> QED BY <2>1, <2>2 DEF UnansweredWait, Answered, n
<1>12. CurrentSend' /\ StoppedIsIdle' /\ NoCallbackLost'
  BY <1>1 DEF CallbackInv, CurrentSend, StoppedIsIdle, NoCallbackLost
<1>13. UptoInv' /\ SuccessMeansWritten' /\ AnsweredInOrder'
  <2>1. UptoInv'
    BY <1>1 DEF CallbackInv, UptoInv
  <2>2. SuccessMeansWritten'
    BY <1>1 DEF CallbackInv, SuccessMeansWritten
  <2>3. AnsweredInOrder'
    BY <1>1 DEF CallbackInv, AnsweredInOrder, Accepted, Answered
  <2> QED BY <2>1, <2>2, <2>3
<1>14. CallbacksWait(wq, sends)'
  BY <1>1, <1>10
<1> QED BY <1>11, <1>12, <1>13, <1>14 DEF CallbackInv


(* Behind the first item the callbacks wait on as they are. *)
LEMMA TailWaits ==
  ASSUME NEW q \in Seq(Item), Len(q) >= 1, NEW log, CallbacksWait(q, log)
  PROVE  /\ CallbacksWait(Tail(q), log)
         /\ \A i \in 2..Len(q) : /\ i - 1 \in 1..Len(Tail(q))
                                 /\ CallbacksOf(Tail(q)[i - 1]) = CallbacksOf(q[i])
<1>1. Len(q) \in Nat /\ q # <<>>
  BY LenProperties, EmptySeq
<1>2. /\ Len(Tail(q)) = Len(q) - 1
      /\ \A i \in 1..Len(Tail(q)) : Tail(q)[i] = q[i + 1]
  BY <1>1, HeadTailProperties
<1>3. \A i \in 1..Len(Tail(q)) : i + 1 \in 1..Len(q)
  BY <1>1, <1>2
<1>4. \A i, k \in 1..Len(Tail(q)) : i < k => i + 1 < k + 1
  BY <1>1, <1>2
<1>5. CallbacksWait(Tail(q), log)
  BY <1>2, <1>3, <1>4 DEF CallbacksWait
<1>6. ASSUME NEW i \in 2..Len(q)
      PROVE  /\ i - 1 \in 1..Len(Tail(q))
             /\ CallbacksOf(Tail(q)[i - 1]) = CallbacksOf(q[i])
  <2>1. i - 1 \in 1..Len(Tail(q)) /\ (i - 1) + 1 = i
    BY <1>1, <1>2
  <2> QED BY <1>2, <2>1
<1> QED BY <1>5, <1>6

(* The callbacks of the first item, frozen or not, and those behind it. *)
LEMMA FrozenQueue ==
  ASSUME TypeOK, CallbackInv, Len(wq) >= 1, NEW q, q = wq \/ q = Freeze(wq)
  PROVE  /\ q \in Seq(Item) /\ q[1] = wq[1] /\ Len(wq) <= Len(q) /\ Len(q) \in Nat
         /\ CallbacksWait(q, sends)
         /\ \A i \in 1..Len(wq) : CallbacksOf(q[i]) = CallbacksOf(wq[i])
<1>1. wq \in Seq(Item) /\ Len(wq) \in Nat /\ Len(sends) \in Nat /\ CallbacksWait(wq, sends)
  BY LenProperties DEF TypeOK, CallbackInv
<1>2. 1 \in 1..Len(wq)
  BY <1>1
<1>3. CASE q = wq
  BY <1>1, <1>3
<1>4. CASE q = Freeze(wq)
  <2>1. q \in Seq(Item) /\ \A i \in 1..Len(wq) : q[i] = wq[i]
    BY <1>1, <1>4, FreezeFacts
  <2>2. CallbacksWait(q, sends) /\ Len(wq) <= Len(q)
    BY <1>1, <1>4, FreezeKeepsCallbacks
  <2> QED BY <1>2, <2>1, <2>2, LenProperties
<1> QED BY <1>3, <1>4

(* after_write, without an error and with one. *)
LEMMA CallbackAfterWrite ==
  ASSUME TypeOK, CallbackInv, alive, pc # "append", io # "stopped", Len(wq) >= 1,
         wire' \in Seq(Bytes), Len(wire) <= Len(wire'),
         NEW q, q = wq \/ q = Freeze(wq), Len(q) >= 2,
         \/ /\ AfterWriteOk(q)
            /\ \A s \in CallbacksOf(wq[1]) : sends[s].upto <= Len(wire')
         \/ AfterWriteError(q)
  PROVE  CallbackInv'
<1>1. /\ q \in Seq(Item) /\ q[1] = wq[1] /\ Len(wq) <= Len(q) /\ Len(q) \in Nat
      /\ CallbacksWait(q, sends)
      /\ \A i \in 1..Len(wq) : CallbacksOf(q[i]) = CallbacksOf(wq[i])
  BY FrozenQueue
<1>2. alive' /\ accepted' = accepted /\ io' = io /\ pc' # "append"
  BY DEF AfterWriteOk, AfterWriteError, userVars
<1>3. CurrentSend' /\ StoppedIsIdle'
  BY <1>2 DEF CurrentSend, StoppedIsIdle
<1>4. Len(wq) \in Nat
  BY LenProperties DEF TypeOK
<1>5. CASE /\ AfterWriteOk(q)
           /\ \A s \in CallbacksOf(wq[1]) : sends[s].upto <= Len(wire')
  <2>1. sends' = RunCallbacks(sends, wq[1].cbs, "success") /\ wq' = Tail(q)
    BY <1>1, <1>5 DEF AfterWriteOk
  <2>2. "success" \in Results
    BY DEF Results
  <2>3. /\ Answers(sends, sends', CallbacksOf(wq[1]), TRUE)
        /\ UptoInv' /\ SuccessMeansWritten' /\ AnsweredInOrder' /\ NoCallbackLost'
        /\ \A s \in 1..Len(sends') : sends'[s].cb /\ ~Answered(s)'
              => \E i \in 2..Len(wq) : s \in CallbacksOf(wq[i])
    BY <1>2, <1>5, <2>1, <2>2, FirstAnswered
  <2>4. CallbacksWait(q, sends')
    BY <1>1, <1>2, <2>3, WaitingKept DEF CallbackInv
  <2>5. /\ CallbacksWait(wq', sends')
        /\ \A i \in 2..Len(q) : /\ i - 1 \in 1..Len(wq')
                                /\ CallbacksOf(wq'[i - 1]) = CallbacksOf(q[i])
    BY <1>1, <2>1, <2>4, TailWaits
  <2>6. UnansweredWait'
    <3>1. ASSUME NEW s \in 1..Len(sends'), sends'[s].cb, ~Answered(s)'
          PROVE  \E i \in 1..Len(wq') : s \in CallbacksOf(wq'[i])
      <4>1. PICK i \in 2..Len(wq) : s \in CallbacksOf(wq[i])
        BY <2>3, <3>1
      <4>2. i \in 1..Len(wq) /\ i \in 2..Len(q)
        BY <1>1, <1>4
      <4>3. i - 1 \in 1..Len(wq') /\ s \in CallbacksOf(wq'[i - 1])
        BY <1>1, <2>5, <4>1, <4>2
      <4> QED BY <4>3
    <3> QED BY <3>1 DEF UnansweredWait
  <2>7. CallbacksWait(wq, sends)'
    BY <2>5
  <2> QED BY <1>3, <2>3, <2>6, <2>7 DEF CallbackInv
<1>6. CASE AfterWriteError(q)
  <2>1. sends' = RunCallbacks(sends, wq[1].cbs, "io_error") /\ wq' = q
    BY <1>1, <1>6 DEF AfterWriteError
  <2>2. "io_error" \in Results /\ "io_error" # "success"
    BY DEF Results
  <2>3. /\ Answers(sends, sends', CallbacksOf(wq[1]), FALSE)
        /\ UptoInv' /\ SuccessMeansWritten' /\ AnsweredInOrder' /\ NoCallbackLost'
        /\ \A s \in 1..Len(sends') : sends'[s].cb /\ ~Answered(s)'
              => \E i \in 2..Len(wq) : s \in CallbacksOf(wq[i])
    BY <1>2, <2>1, <2>2, FirstAnswered
  <2>4. CallbacksWait(q, sends')
    BY <1>1, <1>2, <2>3, WaitingKept DEF CallbackInv
  <2>5. UnansweredWait'
    <3>1. ASSUME NEW s \in 1..Len(sends'), sends'[s].cb, ~Answered(s)'
          PROVE  \E i \in 1..Len(wq') : s \in CallbacksOf(wq'[i])
      <4>1. PICK i \in 2..Len(wq) : s \in CallbacksOf(wq[i])
        BY <2>3, <3>1
      <4>2. i \in 1..Len(wq) /\ i \in 1..Len(q)
        BY <1>1, <1>4
      <4> QED BY <1>1, <2>1, <4>1, <4>2
    <3> QED BY <3>1 DEF UnansweredWait
  <2>6. CallbacksWait(wq, sends)'
    BY <2>1, <2>4
  <2> QED BY <1>3, <2>3, <2>5, <2>6 DEF CallbackInv
<1> QED BY <1>5, <1>6

(* handle_remainig_write_queue: the destructor calls every callback that     *)
(* waits, and with that every one that was not called.                       *)
LEMMA CallbackDestroy ==
  ASSUME TypeOK, StreamInv, CallbackInv, Destroy
  PROVE  CallbackInv'
<1>1. /\ alive /\ ~alive' /\ pc' = pc /\ pc = "idle"
      /\ UNCHANGED <<wq, accepted, wire, io>>
      /\ HandleRemainingWriteQueue
  BY DEF Destroy, Unreferenced, CallbackInv, StoppedIsIdle
<1>2. /\ sends \in Seq(SendRecord) /\ Len(sends) \in Nat /\ DOMAIN sends = 1..Len(sends)
      /\ wq \in Seq(Item) /\ Len(wq) \in Nat /\ Len(wq) >= 1 /\ DOMAIN wq = 1..Len(wq)
      /\ wire \in Seq(Bytes)
  BY LenProperties DEF TypeOK, StreamInv, QueueShape
<1> DEFINE D == {s \in 1..Len(sends) : \E i \in 1..Len(wq) : s \in CallbacksOf(wq[i])}
<1>3. ASSUME NEW s \in 1..Len(sends), sends[s].cb, ~Answered(s)
      PROVE  s \in D
  BY <1>1, <1>3 DEF CallbackInv, UnansweredWait
<1>4. Answers(sends, sends', D, FALSE)
  <2>1. CASE Len(wq) > 1 \/ Size(Front) > 0
    <3> DEFINE at(s) == {i \in 1..Len(wq) : s \in CallbacksOf(wq[i])}
               r(s) == RemainingResult(Min(at(s)))
    <3>1. sends' = [s \in 1..Len(sends) |->
                      IF at(s) = {} THEN sends[s] ELSE WithResult(sends[s], r(s))]
      <4> DEFINE atJ(s) == {i \in RemainingItems :
                              \E j \in DOMAIN wq[i].cbs : wq[i].cbs[j] = s}
      <4>1. sends' = [s \in 1..Len(sends) |->
                        IF atJ(s) = {} THEN sends[s]
                        ELSE [sends[s] EXCEPT
                                !.res = Append(@, RemainingResult(Min(atJ(s))))]]
        BY <1>1, <1>2, <2>1 DEF HandleRemainingWriteQueue
      <4>2. ASSUME NEW s
            PROVE  atJ(s) = at(s)
        BY <1>2 DEF RemainingItems, CallbacksOf
      <4> HIDE DEF atJ, at
      <4> QED BY <4>1, <4>2 DEF WithResult
    <3>2. \A s \in 1..Len(sends) : at(s) = {} <=> s \notin D
      OBVIOUS
    <3>3. ASSUME NEW s \in 1..Len(sends)
          PROVE  r(s) \in Results /\ r(s) # "success"
      BY DEF RemainingResult, Results
    <3> HIDE DEF at, r, D
    <3>4. ASSUME NEW s \in 1..Len(sends)
          PROVE  /\ sends'[s] \in SendRecord
                 /\ sends'[s].cb = sends[s].cb
                 /\ sends'[s].from = sends[s].from
                 /\ sends'[s].upto = sends[s].upto
                 /\ s \in D => sends'[s].res # <<>>
                 /\ s \notin D => sends'[s].res = sends[s].res
                 /\ sends[s].res # <<>> => sends'[s].res # <<>>
                 /\ HasSuccess(sends'[s]) => HasSuccess(sends[s])
      <4>1. sends[s] \in SendRecord
        BY <1>2, ElementOfSeq
      <4>2. CASE s \in D
        <5>1. sends'[s] = WithResult(sends[s], r(s))
          BY <3>1, <3>2, <4>2
        <5> QED BY <3>3, <4>1, <4>2, <5>1, OneMoreResult
      <4>3. CASE s \notin D
        BY <3>1, <3>2, <4>1, <4>3
      <4> QED BY <4>2, <4>3
    <3>5. sends' \in [1..Len(sends) -> SendRecord]
      BY <3>1, <3>4
    <3>6. sends' \in Seq(SendRecord) /\ Len(sends') = Len(sends)
      BY <1>2, <3>5
    <3> QED BY <3>4, <3>6 DEF Answers
  <2>2. CASE ~(Len(wq) > 1 \/ Size(Front) > 0)
    <3>1. sends' = sends
      BY <1>1, <2>2 DEF HandleRemainingWriteQueue
    <3>2. Len(wq) = 1
      BY <1>2, <2>2
    <3>3. wq[1].data = <<>>
      <4>1. Front.data \in Seq(Bytes) /\ Size(Front) \in Nat /\ Size(Front) = Len(Front.data)
        BY <1>2, FrontType
      <4> QED BY <2>2, <4>1, EmptySeq DEF Front
    <3>4. D = {}
      BY <3>2, <3>3 DEF CallbackInv, CallbacksWait
    <3> HIDE DEF D
    <3> QED BY <1>2, <3>1, <3>4, NothingAnswered
  <2> QED BY <2>1, <2>2
<1> HIDE DEF D
<1>5. SuccessMeansWritten'
  <2>1. wire' \in Seq(Bytes) /\ Len(wire) <= Len(wire') /\ SuccessMeansWritten
    BY <1>1, <1>2, LenProperties DEF CallbackInv
  <2> QED BY <1>4, <2>1, SuccessKept
<1>6. AnsweredInOrder'
  BY <1>3, <1>4, OrderKept DEF CallbackInv
<1>7. CallbacksWait(wq, sends') /\ UptoInv'
  BY <1>1, <1>2, <1>4, WaitingKept DEF CallbackInv
<1>8. NoCallbackLost'
  <2>1. ASSUME NEW s \in DOMAIN sends', sends'[s].cb
        PROVE  Answered(s)'
    <3>1. s \in 1..Len(sends) /\ sends[s].cb
      BY <1>4, <2>1, LenProperties DEF Answers
    <3>2. s \in D \/ sends[s].res # <<>>
      BY <1>3, <3>1 DEF Answered
    <3> QED BY <1>4, <3>1, <3>2 DEF Answers, Answered
  <2> QED BY <2>1 DEF NoCallbackLost
<1>9. UnansweredWait' /\ CurrentSend' /\ StoppedIsIdle'
  BY <1>1 DEF UnansweredWait, CurrentSend, StoppedIsIdle
<1>10. CallbacksWait(wq, sends)'
  BY <1>1, <1>7
<1> QED BY <1>5, <1>6, <1>7, <1>8, <1>9, <1>10 DEF CallbackInv


(* initiate_write_if_necessary. *)
LEMMA CallbackInitiateWrite ==
  ASSUME TypeOK, StreamInv, CallbackInv, InitiateWrite, wire' \in Seq(Bytes)
  PROVE  CallbackInv'
<1>1. /\ wq \in Seq(Item) /\ Len(wq) \in Nat /\ Len(wq) >= 1 /\ 1 \in 1..Len(wq)
      /\ wire \in Seq(Bytes) /\ Len(wire) \in Nat /\ accepted \in Nat
  BY LenProperties DEF TypeOK, StreamInv, QueueShape
<1>2. pc = "initiate" /\ alive /\ io # "stopped"
  <2>1. pc = "initiate" /\ alive
    BY DEF InitiateWrite, SkipInitiate, SyncWriteAll, SyncWriteError,
           SyncWriteWouldBlock, StartLargeWrite, CanInitiate
  <2> QED BY <2>1 DEF CallbackInv, StoppedIsIdle
<1>3. /\ Front.data \in Seq(Bytes) /\ Size(Front) \in Nat /\ Size(Front) = Len(Front.data)
  BY <1>1, FrontType
<1>4. Freeze(wq) \in Seq(Item) /\ Len(Freeze(wq)) >= 2
  <2>1. /\ Freeze(wq) \in Seq(Item)
        /\ Len(Freeze(wq)) = (IF Len(wq) = 1 THEN 2 ELSE Len(wq))
    BY <1>1, FreezeFacts
  <2>2. CASE Len(wq) = 1
    BY <2>1, <2>2
  <2>3. CASE Len(wq) # 1
    <3> DEFINE n == Len(wq)
    <3>1. n \in Nat /\ n >= 1 /\ n # 1
      BY <1>1, <2>3, Zenon
    <3> HIDE DEF n
    <3>2. n >= 2
      BY <3>1
    <3>3. Len(wq) >= 2
      BY <3>2 DEF n
    <3> QED BY <2>1, <2>3, <3>3
  <2> QED BY <2>2, <2>3
<1>5. ASSUME NEW left, StartAsyncWrite(left), Len(wire) <= Len(wire')
      PROVE  CallbackInv'
  <2>1. /\ pc' = "idle" /\ wq' = Freeze(wq)
        /\ UNCHANGED <<sends, accepted, alive>>
    BY <1>5 DEF StartAsyncWrite, userVars
  <2>2. StoppedIsIdle'
    BY <2>1 DEF StoppedIsIdle
  <2> QED BY <1>1, <1>2, <1>5, <2>1, <2>2, CallbackFrame
<1>6. CASE SkipInitiate
  <2>1. /\ pc' = "idle" /\ wq' = wq /\ wire' = wire
        /\ UNCHANGED <<sends, accepted, alive>>
    BY <1>6 DEF SkipInitiate, userVars
  <2>2. StoppedIsIdle' /\ Len(wire) <= Len(wire')
    BY <1>1, <2>1 DEF StoppedIsIdle
  <2> QED BY <1>1, <1>2, <2>1, <2>2, CallbackFrame
<1>7. CASE SyncWriteAll
  <2>1. AfterWriteOk(Freeze(wq)) /\ wire' = wire \o Front.data /\ ~running
    BY <1>7 DEF SyncWriteAll, CanInitiate
  <2>2. Len(wire') = Len(wire) + Len(Front.data)
    BY <1>1, <1>3, <2>1, ConcatProperties
  <2>3. PICK st \in [1..Len(wq) + 1 -> 0..accepted] :
          Chain(wq, accepted, st) /\ Frontier(st)
    BY DEF StreamInv, OrderInv
  <2>4. st[1] = Len(wire)
    BY <1>2, <2>1, <2>3 DEF Frontier
  <2>5. st[1 + 1] = st[1] + Len(wq[1].data) /\ st[1] \in Nat
    BY <1>1, <2>3, ChainItem
  <2>6. ASSUME NEW s \in CallbacksOf(wq[1])
        PROVE  sends[s].upto <= Len(wire')
    <3>1. wq[1].data # <<>> /\ sends[s].upto <= LastByte(wq[1])
      BY <1>1 DEF CallbackInv, CallbacksWait
    <3>2. LastByte(wq[1]) = st[1 + 1]
      BY <1>1, <2>3, <3>1, LastByteOfChain
    <3>3. st[1 + 1] = Len(wire')
      BY <2>2, <2>4, <2>5 DEF Front
    <3> QED BY <3>1, <3>2, <3>3
  <2>7. Len(wire) <= Len(wire')
    BY <1>1, <1>3, <2>2
  <2> QED BY <1>1, <1>2, <1>4, <2>1, <2>6, <2>7, CallbackAfterWrite
<1>8. ASSUME NEW k \in 0..Size(Front) - 1, SyncWriteError(k) \/ SyncWriteWouldBlock(k)
      PROVE  CallbackInv'
  <2>1. k \in 0..Len(Front.data)
    BY <1>3
  <2>2. SubSeq(Front.data, 1, k) \in Seq(Bytes) /\ Len(SubSeq(Front.data, 1, k)) = k
    BY <1>3, <2>1, Parts
  <2>3. wire' = wire \o SubSeq(Front.data, 1, k)
    BY <1>8, Zenon DEF SyncWriteError, SyncWriteWouldBlock
  <2>4. Len(wire) <= Len(wire')
    BY <1>1, <2>1, <2>2, <2>3, ConcatProperties
  <2>5. CASE SyncWriteError(k)
    <3>1. AfterWriteError(Freeze(wq))
      BY <2>5 DEF SyncWriteError
    <3> QED BY <1>1, <1>2, <1>4, <2>4, <3>1, CallbackAfterWrite
  <2>6. CASE SyncWriteWouldBlock(k)
    BY <1>5, <2>4, <2>6 DEF SyncWriteWouldBlock
  <2> QED BY <1>8, <2>5, <2>6
<1>9. CASE StartLargeWrite
  <2>1. Len(wire) <= Len(wire')
    BY <1>1, <1>9 DEF StartLargeWrite
  <2> QED BY <1>5, <1>9, <2>1 DEF StartLargeWrite
<1> QED BY <1>6, <1>7, <1>8, <1>9 DEF InitiateWrite

(* The asynchronous write: when it has succeeded, the bytes on the wire end  *)
(* with those of its item.                                                   *)
LEMMA CallbackAsyncWrite ==
  ASSUME TypeOK, StreamInv, CallbackInv, AsyncWrite, wire' \in Seq(Bytes)
  PROVE  CallbackInv'
<1>1. /\ wq \in Seq(Item) /\ Len(wq) \in Nat /\ Len(wq) >= 1 /\ 1 \in 1..Len(wq)
      /\ wire \in Seq(Bytes) /\ Len(wire) \in Nat /\ accepted \in Nat
      /\ aw.left \in Seq(Bytes) /\ Len(aw.left) \in Nat
  BY LenProperties DEF TypeOK, StreamInv, QueueShape, AsyncWriteState
<1>2. ASSUME NEW k \in 1..Len(aw.left), AsyncTransfer(k)
      PROVE  CallbackInv'
  <2>1. k \in 0..Len(aw.left)
    BY <1>1
  <2>2. SubSeq(aw.left, 1, k) \in Seq(Bytes)
    BY <1>1, <2>1, Parts
  <2>3. /\ wire' = wire \o SubSeq(aw.left, 1, k)
        /\ UNCHANGED <<wq, pc, call, running, sends, accepted, alive, io>>
    BY <1>2 DEF AsyncTransfer, userVars
  <2>4. Len(wire) <= Len(wire')
    BY <1>1, <2>2, <2>3, ConcatProperties, LenProperties
  <2>5. StoppedIsIdle'
    BY <2>3 DEF CallbackInv, StoppedIsIdle
  <2> QED BY <1>1, <2>3, <2>4, <2>5, CallbackFrame
<1>3. CASE AsyncFail
  <2>1. UNCHANGED <<wq, pc, call, running, sends, accepted, wire, alive, io>>
    BY <1>3 DEF AsyncFail, userVars
  <2>2. StoppedIsIdle' /\ Len(wire) <= Len(wire')
    BY <1>1, <2>1 DEF CallbackInv, StoppedIsIdle
  <2> QED BY <1>1, <2>1, <2>2, CallbackFrame
<1>4. CASE AsyncWriteDone
  <2>1. /\ pc # "append" /\ alive /\ io # "stopped" /\ wire' = wire
        /\ aw.st \in {"ok", "error"}
        /\ IF aw.st = "ok" THEN AfterWriteOk(wq) ELSE AfterWriteError(wq)
    BY <1>4 DEF AsyncWriteDone, StrandFree
  <2>2. Len(wq) >= 2
    BY <2>1 DEF StreamInv, FlagsInv, QueueShape
  <2>3. ASSUME aw.st = "ok", NEW s \in CallbacksOf(wq[1])
        PROVE  sends[s].upto <= Len(wire')
    <3>1. PICK st \in [1..Len(wq) + 1 -> 0..accepted] :
            Chain(wq, accepted, st) /\ Frontier(st)
      BY DEF StreamInv, OrderInv
    <3>2. Len(wire) + Len(aw.left) = st[2] /\ aw.left = <<>>
      BY <2>3, <3>1 DEF Frontier, StreamInv, FlagsInv
    <3>3. Len(aw.left) = 0
      BY <3>2
    <3>4. wq[1].data # <<>> /\ sends[s].upto <= LastByte(wq[1])
      BY <1>1 DEF CallbackInv, CallbacksWait
    <3>5. LastByte(wq[1]) = st[1 + 1]
      BY <1>1, <3>1, <3>4, LastByteOfChain
    <3>6. st[1 + 1] = Len(wire')
      BY <1>1, <2>1, <3>2, <3>3
    <3> QED BY <3>4, <3>5, <3>6
  <2>4. Len(wire) <= Len(wire')
    BY <1>1, <2>1
  <2>5. CASE aw.st = "ok"
    BY <1>1, <2>1, <2>2, <2>3, <2>4, <2>5, CallbackAfterWrite
  <2>6. CASE aw.st # "ok"
    BY <1>1, <2>1, <2>2, <2>4, <2>6, CallbackAfterWrite
  <2> QED BY <2>5, <2>6
<1> QED BY <1>2, <1>3, <1>4 DEF AsyncWrite

(* Every step keeps the callback invariant. *)
LEMMA CallbackNext ==
  ASSUME TypeOK, StreamInv, CallbackInv, [Next]_vars
  PROVE  CallbackInv'
<1>1. TypeOK' /\ StreamInv'
  BY StreamNext
<1>2. wire' \in Seq(Bytes) /\ wire \in Seq(Bytes) /\ Len(wire) \in Nat
      /\ Len(wq) \in Nat /\ Len(wq) >= 1
  BY <1>1, LenProperties DEF TypeOK, StreamInv, QueueShape
<1>3. ASSUME UNCHANGED <<wq, pc, call, running, sends, accepted, wire, alive>>,
             io' = io \/ pc = "idle"
      PROVE  CallbackInv'
  <2>1. StoppedIsIdle' /\ Len(wire) <= Len(wire')
    BY <1>2, <1>3 DEF CallbackInv, StoppedIsIdle
  <2> QED BY <1>2, <1>3, <2>1, CallbackFrame
<1>4. CASE Send
  BY <1>4, CallbackSend
<1>5. CASE AppendStep
  <2>1. TakeNextBuffer \/ AppendDone
    BY <1>5, Zenon DEF AppendStep
  <2> QED BY <1>2, <2>1, CallbackTakeNextBuffer, CallbackAggressiveEnd, CallbackQueuedEnd
<1>6. CASE InitiateWrite
  BY <1>2, <1>6, CallbackInitiateWrite
<1>7. CASE AsyncWrite
  BY <1>2, <1>7, CallbackAsyncWrite
<1>8. CASE WriteTimeout
  BY <1>3, <1>8 DEF WriteTimeout, TimerExpires, HandleWriteOperationTimeout, writeVars,
                    userVars
<1>9. CASE Read
  BY <1>3, <1>9 DEF Read, StartReading, StopReading, AfterReadInput, AfterReadNext,
                    AfterReadError, writeVars, userVars
<1>10. CASE Lifetime
  <2>1. CASE Shutdown
    BY <1>3, <2>1 DEF Shutdown, writeVars, userVars
  <2>2. ASSUME NEW h \in BOOLEAN, ResetShutdownHandler(h)
        PROVE  CallbackInv'
    BY <1>3, <2>2 DEF ResetShutdownHandler, writeVars
  <2>3. CASE Release
    BY <1>3, <2>3 DEF Release, writeVars
  <2>4. CASE StopIo
    BY <1>3, <2>4 DEF StopIo, writeVars
  <2>5. CASE Terminated
    BY <1>3, <2>5 DEF Terminated, vars, writeVars, userVars
  <2> QED BY <1>10, <2>1, <2>2, <2>3, <2>4, <2>5, CallbackDestroy DEF Lifetime
<1>11. CASE UNCHANGED vars
  BY <1>3, <1>11 DEF vars, writeVars, userVars
<1> QED BY <1>4, <1>5, <1>6, <1>7, <1>8, <1>9, <1>10, <1>11 DEF Next

(* A new connection has no sends. *)
LEMMA CallbackInit == Init => CallbackInv
<1> SUFFICES ASSUME Init PROVE CallbackInv
  OBVIOUS
<1>1. sends = <<>> /\ wq = <<EmptyItem>> /\ alive /\ pc = "idle" /\ io = "running"
  BY DEF Init
<1>2. DOMAIN sends = {} /\ Len(sends) = 0
  BY <1>1, EmptySeq
<1>3. Len(wq) = 1 /\ wq[1] = EmptyItem
  BY <1>1
<1>4. CallbacksOf(wq[1]) = {}
  BY <1>3 DEF CallbacksOf, EmptyItem
<1>5. CallbacksWait(wq, sends)
  BY <1>3, <1>4 DEF CallbacksWait
<1>6. UnansweredWait /\ CurrentSend /\ UptoInv /\ StoppedIsIdle
  BY <1>1, <1>2 DEF UnansweredWait, CurrentSend, UptoInv, StoppedIsIdle
<1>7. SuccessMeansWritten /\ AnsweredInOrder /\ NoCallbackLost
  BY <1>1, <1>2 DEF SuccessMeansWritten, AnsweredInOrder, NoCallbackLost
<1> QED BY <1>5, <1>6, <1>7 DEF CallbackInv

(* The invariant of the callbacks: they wait in the order of their sends,    *)
(* each behind the last byte of its send, and none is anywhere else.         *)
THEOREM CallbackInvariant == Spec => []CallbackInv
<1>1. TypeOK /\ StreamInv /\ CallbackInv /\ [Next]_vars => CallbackInv'
  BY CallbackNext
<1> QED BY <1>1, CallbackInit, ConnectionInvariant, PTL DEF Spec

(* A callback hears success only when every byte of its send was handed to   *)
(* the socket, whichever of the four ways of writing they took.              *)
THEOREM SuccessIsTold == Spec => []SuccessMeansWritten
<1>1. CallbackInv => SuccessMeansWritten
  BY DEF CallbackInv
<1> QED BY <1>1, CallbackInvariant, PTL

(* Callbacks of accepted sends are called in the order of the sends.         *)
THEOREM CallbacksInOrder == Spec => []AnsweredInOrder
<1>1. CallbackInv => AnsweredInOrder
  BY DEF CallbackInv
<1> QED BY <1>1, CallbackInvariant, PTL

(* When the connection is gone every callback given to it was called.        *)
THEOREM EveryCallbackIsCalled == Spec => []NoCallbackLost
<1>1. CallbackInv => NoCallbackLost
  BY DEF CallbackInv
<1> QED BY <1>1, CallbackInvariant, PTL

-----------------------------------------------------------------------------
(* Callbacks of asynchronous writes that call the connection back            *)

(* A synchronous write whose callbacks are called: those do not call back.   *)
InSync == frames # <<>> /\ frames[1].by = "sync"

Ascending(s) == \A j, k \in DOMAIN s : j <= k => s[j] <= s[k]
SortedInv == \A i \in 1..Len(wq) : Ascending(wq[i].cbs)

(* The callbacks f of the first item of q are called, with the bytes w on    *)
(* the wire: the item is written, and those of its callbacks that were not   *)
(* called are left, in order.                                                *)
Calling(f, q, log, w) ==
  /\ Len(f) = 1 /\ f \in Seq([cbs : Seq(Nat), by : {"sync", "async"}])
  /\ Len(q) >= 2 /\ q[1].data # <<>> /\ LastByte(q[1]) = Len(w)
  /\ Ascending(f[1].cbs)
  /\ CallbacksOf(f[1]) \subseteq CallbacksOf(q[1])
  /\ \A s \in CallbacksOf(q[1]) : s \in CallbacksOf(f[1]) \/ log[s].res # <<>>

(* after_write is under way once at most, and the running flag says so when  *)
(* its callbacks call back.                                                  *)
FrameInv ==
  /\ pc = "callbacks" => frames # <<>>
  /\ frames # <<>> =>
       /\ Calling(frames, wq, sends, wire)
       /\ alive /\ io = "running" /\ aw.st = "none"
       /\ IF InSync THEN pc = "callbacks" ELSE running

(* What holds of the queue in the middle of after_write, too. *)
QueueInv ==
  /\ FlagsInv /\ QueueShape /\ WellFormed(wq) /\ StreamInOrder
  /\ \E st \in [1..Len(wq) + 1 -> 0..accepted] : Chain(wq, accepted, st)

CbInv ==
  /\ TypeOK /\ QueueInv /\ CallbackInv /\ SortedInv /\ FrameInv
  /\ ~InSync => StreamInv

(* The handlers and the calls that do not come from after_write are those of *)
(* Connection.                                                               *)
Inner == AnyTime \/ HandlerOfItsOwn

(* Each of them is a step of Connection. *)
LEMMA InnerIsNext ==
  ASSUME Inner
  PROVE  Next
<1>1. CASE AnyTime
  BY <1>1 DEF AnyTime, Next, InitiateWrite, AsyncWrite, WriteTimeout, Read, Lifetime
<1>2. CASE HandlerOfItsOwn
  BY <1>2 DEF HandlerOfItsOwn, Next, AsyncWrite, WriteTimeout, Read, Lifetime
<1> QED BY <1>1, <1>2 DEF Inner

(* The stream invariant says as much of the queue, and more. *)
LEMMA StreamIsQueue ==
  ASSUME StreamInv
  PROVE  QueueInv
BY DEF StreamInv, QueueInv, OrderInv

(* Only after_write calls callbacks one by one. *)
LEMMA NextHasNoCallbacks ==
  ASSUME Next, pc # "callbacks"
  PROVE  pc' # "callbacks"
<1>1. CASE Send
  BY <1>1 DEF Send, ScheduleSend, RejectSend
<1>2. CASE AppendStep
  BY <1>2 DEF AppendStep, TakeNextBuffer, AggressiveWrite, AggressivePartial,
              AppendOnly, TakeBuffer, AppendDone
<1>3. CASE InitiateWrite
  BY <1>3 DEF InitiateWrite, SkipInitiate, SyncWriteAll, SyncWriteError,
              SyncWriteWouldBlock, StartLargeWrite, AfterWriteOk,
              AfterWriteError, StartAsyncWrite
<1>4. CASE AsyncWrite
  BY <1>4 DEF AsyncWrite, AsyncTransfer, AsyncFail, AsyncWriteDone,
              AfterWriteOk, AfterWriteError
<1>5. CASE WriteTimeout
  BY <1>5 DEF WriteTimeout, TimerExpires, HandleWriteOperationTimeout, writeVars
<1>6. CASE Read
  BY <1>6 DEF Read, StartReading, StopReading, AfterReadInput, AfterReadNext,
              AfterReadError, writeVars
<1>7. CASE Lifetime
  BY <1>7 DEF Lifetime, Shutdown, ResetShutdownHandler, Release, StopIo,
              Destroy, Terminated, vars, writeVars
<1> QED BY <1>1, <1>2, <1>3, <1>4, <1>5, <1>6, <1>7 DEF Next

(* Appending to the queue keeps the callbacks of its items, one by one.      *)
LEMMA AppendKeepsSorted ==
  ASSUME NEW q \in Seq(Item), Len(q) >= 1, NEW bytes \in Seq(Bytes),
         \A i \in 1..Len(q) : Ascending(q[i].cbs)
  PROVE  LET r == AppendOutgoingBuffer(q, bytes)
         IN  \A i \in 1..Len(r) : Ascending(r[i].cbs)
<1> DEFINE n == Len(q)
           r == AppendOutgoingBuffer(q, bytes)
<1>1. /\ \A i \in 1..n - 1 : r[i] = q[i]
      /\ \/ Len(r) = n /\ r[n].cbs = q[n].cbs
         \/ /\ Len(r) = n + 1
            /\ r[n].cbs = q[n].cbs
            /\ r[n + 1].cbs = <<>>
  BY AppendOutgoingFacts
<1>2. n \in Nat
  BY LenProperties
<1>3. Ascending(<<>>)
  BY DEF Ascending
<1> HIDE DEF r
<1>4. ASSUME NEW i \in 1..Len(r)
      PROVE  Ascending(r[i].cbs)
  <2>1. i \in 1..n - 1 \/ i = n \/ (i = n + 1 /\ Len(r) = n + 1)
    BY <1>1, <1>2
  <2>2. n \in 1..n /\ (i \in 1..n - 1 => i \in 1..n)
    BY <1>2
  <2>3. CASE i = n + 1 /\ Len(r) = n + 1
    BY <1>1, <1>2, <1>3, <2>3
  <2>4. CASE i \in 1..n - 1 \/ i = n
    BY <1>1, <2>2, <2>4
  <2> QED BY <2>1, <2>3, <2>4
<1> QED BY <1>4 DEF r

(* What a step of Connection does to the queue. *)
QueueStep ==
  \/ wq' = wq \/ wq' = Freeze(wq) \/ wq' = Tail(wq) \/ wq' = Tail(Freeze(wq))
  \/ \E bytes \in Seq(Bytes) : wq' = AppendOutgoingBuffer(wq, bytes)
  \/ /\ pc = "append"
     /\ wq' = [wq EXCEPT ![Len(wq)] = AppendCompletionCb(@, Len(sends))]

(* There is nothing else it may do to it. *)
LEMMA NextQueue ==
  ASSUME TypeOK, Next
  PROVE  QueueStep
<1>1. CASE Send
  BY <1>1 DEF Send, ScheduleSend, RejectSend, QueueStep
<1>2. CASE AppendStep
  <2>1. CASE call.todo # <<>>
    <3>1. NextBuffer \in Seq(Bytes) /\ Len(NextBuffer) = Head(call.todo)
          /\ Head(call.todo) \in Nat \ {0}
      BY <2>1, NextBufferType
    <3>2. \A k \in 0..Head(call.todo) - 1 : SkipTransferred(NextBuffer, k) \in Seq(Bytes)
      <4>1. \A k \in 0..Head(call.todo) - 1 : k \in 0..Len(NextBuffer)
        BY <3>1
      <4> QED BY <3>1, <4>1, Parts
    <3>3. CASE AggressiveWrite
      BY <3>3 DEF AggressiveWrite, QueueStep
    <3>4. CASE \E k \in 0..Head(call.todo) - 1, outcome \in {"open", "broken"} :
                  AggressivePartial(k, outcome)
      BY <3>2, <3>4 DEF AggressivePartial, QueueStep
    <3>5. CASE AppendOnly
      BY <3>1, <3>5 DEF AppendOnly, QueueStep
    <3> QED BY <1>2, <2>1, <3>3, <3>4, <3>5 DEF AppendStep, TakeNextBuffer
  <2>2. CASE call.todo = <<>>
    BY <1>2, <2>2 DEF AppendStep, AppendDone, CallbackItem, QueueStep
  <2> QED BY <2>1, <2>2
<1>3. CASE InitiateWrite
  BY <1>3 DEF InitiateWrite, SkipInitiate, SyncWriteAll, SyncWriteError,
              SyncWriteWouldBlock, StartLargeWrite, AfterWriteOk,
              AfterWriteError, StartAsyncWrite, QueueStep
<1>4. CASE AsyncWrite
  BY <1>4 DEF AsyncWrite, AsyncTransfer, AsyncFail, AsyncWriteDone,
              AfterWriteOk, AfterWriteError, QueueStep
<1>5. CASE WriteTimeout
  BY <1>5 DEF WriteTimeout, TimerExpires, HandleWriteOperationTimeout, writeVars, QueueStep
<1>6. CASE Read
  BY <1>6 DEF Read, StartReading, StopReading, AfterReadInput, AfterReadNext,
              AfterReadError, writeVars, QueueStep
<1>7. CASE Lifetime
  BY <1>7 DEF Lifetime, Shutdown, ResetShutdownHandler, Release, StopIo,
              Destroy, Terminated, vars, writeVars, QueueStep
<1> QED BY <1>1, <1>2, <1>3, <1>4, <1>5, <1>6, <1>7 DEF Next

(* A queue less its first item, and one that was frozen, are as sorted.      *)
LEMMA TailKeepsSorted ==
  ASSUME NEW q \in Seq(Item), Len(q) >= 1, \A i \in 1..Len(q) : Ascending(q[i].cbs)
  PROVE  \A i \in 1..Len(Tail(q)) : Ascending(Tail(q)[i].cbs)
<1>1. Len(q) \in Nat /\ q # <<>>
  BY LenProperties, EmptySeq
<1>2. /\ Len(Tail(q)) = Len(q) - 1
      /\ \A i \in 1..Len(Tail(q)) : Tail(q)[i] = q[i + 1]
  BY <1>1, HeadTailProperties
<1>3. \A i \in 1..Len(Tail(q)) : i + 1 \in 1..Len(q)
  BY <1>1, <1>2
<1> QED BY <1>2, <1>3

(* The second item that freezing may add has no callbacks. *)
LEMMA FreezeKeepsSorted ==
  ASSUME NEW q \in Seq(Item), Len(q) >= 1, \A i \in 1..Len(q) : Ascending(q[i].cbs)
  PROVE  /\ Freeze(q) \in Seq(Item) /\ Len(Freeze(q)) >= 1
         /\ \A i \in 1..Len(Freeze(q)) : Ascending(Freeze(q)[i].cbs)
<1>1. /\ Freeze(q) \in Seq(Item)
      /\ Len(Freeze(q)) = (IF Len(q) = 1 THEN 2 ELSE Len(q))
      /\ \A i \in 1..Len(q) : Freeze(q)[i] = q[i]
      /\ Len(q) = 1 => Freeze(q)[2] = EmptyItem
  BY FreezeFacts
<1>2. CASE Len(q) = 1
  <2>1. Ascending(EmptyItem.cbs)
    BY DEF Ascending, EmptyItem
  <2>2. \A i \in 1..2 : i = 1 \/ i = 2
    OBVIOUS
  <2> QED BY <1>1, <1>2, <2>1, <2>2, 1 \in 1..1
<1>3. CASE Len(q) # 1
  BY <1>1, <1>3
<1> QED BY <1>2, <1>3

(* The callback of the latest send goes behind those of earlier ones.        *)
LEMMA CallbackKeepsSorted ==
  ASSUME NEW q \in Seq(Item), Len(q) >= 1, NEW n \in Nat,
         \A i \in 1..Len(q) : Ascending(q[i].cbs) /\ CallbacksOf(q[i]) \subseteq 1..n,
         NEW r, r = [q EXCEPT ![Len(q)] = AppendCompletionCb(@, n)]
  PROVE  \A i \in 1..Len(r) : Ascending(r[i].cbs)
<1> DEFINE l == Len(q)
           b == AppendCompletionCb(q[l], n)
           c == q[l].cbs
<1>1. l \in Nat /\ l \in 1..l /\ q[l] \in Item /\ c \in Seq(Nat)
  <2>1. l \in Nat /\ l \in 1..l
    BY LenProperties
  <2>2. q[l] \in Item
    BY <2>1, ElementOfSeq
  <2> QED BY <2>1, <2>2 DEF Item
<1>2. b.cbs = Append(c, n)
  BY <1>1 DEF AppendCompletionCb, Item
<1>3. /\ Len(Append(c, n)) = Len(c) + 1 /\ Append(c, n) \in Seq(Nat)
      /\ \A j \in 1..Len(c) : Append(c, n)[j] = c[j]
      /\ Append(c, n)[Len(c) + 1] = n
  BY <1>1, AppendProperties
<1>4. Len(c) \in Nat /\ DOMAIN c = 1..Len(c) /\ DOMAIN Append(c, n) = 1..Len(c) + 1
  BY <1>1, <1>3, LenProperties
<1>5. Ascending(c) /\ \A j \in 1..Len(c) : c[j] \in 1..n
  BY <1>1, <1>4 DEF CallbacksOf
<1>6. Ascending(Append(c, n))
  <2>1. ASSUME NEW j \in 1..Len(c) + 1, NEW k \in 1..Len(c) + 1, j <= k
        PROVE  Append(c, n)[j] <= Append(c, n)[k]
    <3>1. (j \in 1..Len(c) \/ j = Len(c) + 1) /\ (k \in 1..Len(c) \/ k = Len(c) + 1)
      BY <1>4
    <3>2. CASE k \in 1..Len(c)
      <4>1. j \in 1..Len(c)
        BY <1>4, <2>1, <3>1, <3>2
      <4> QED BY <1>3, <1>4, <1>5, <2>1, <3>2, <4>1 DEF Ascending
    <3>3. CASE k = Len(c) + 1 /\ j \in 1..Len(c)
      <4>1. Append(c, n)[j] = c[j] /\ c[j] \in 1..n /\ Append(c, n)[k] = n
        BY <1>3, <1>5, <3>3
      <4> QED BY <4>1
    <3>4. CASE k = Len(c) + 1 /\ j = Len(c) + 1
      BY <1>3, <3>4
    <3> QED BY <3>1, <3>2, <3>3, <3>4
  <2> QED BY <1>4, <2>1 DEF Ascending
<1>7. r = [q EXCEPT ![l] = b]
  OBVIOUS
<1> HIDE DEF b
<1>8. Len(r) = l /\ r[l] = b /\ \A i \in 1..l : i # l => r[i] = q[i]
  <2>1. DOMAIN r = DOMAIN q /\ DOMAIN q = 1..l
    BY <1>7, LenProperties
  <2>2. r[l] = b /\ \A i \in 1..l : i # l => r[i] = q[i]
    BY <1>1, <1>7, <2>1
  <2>3. Len(r) = l
    BY <1>1, <2>1
  <2> QED BY <2>2, <2>3
<1> QED BY <1>2, <1>6, <1>8

(* No step brings the callbacks of an item out of order. *)
LEMMA SortedNext ==
  ASSUME TypeOK, SortedInv, CallbackInv, QueueStep, Len(wq) >= 1
  PROVE  SortedInv'
<1>1. wq \in Seq(Item) /\ Len(sends) \in Nat
      /\ \A i \in 1..Len(wq) : Ascending(wq[i].cbs)
  BY LenProperties DEF TypeOK, SortedInv
<1>2. CASE wq' = wq
  BY <1>2 DEF SortedInv
<1>3. CASE wq' = Freeze(wq) \/ wq' = Tail(wq) \/ wq' = Tail(Freeze(wq))
  <2>1. /\ Freeze(wq) \in Seq(Item) /\ Len(Freeze(wq)) >= 1
        /\ \A i \in 1..Len(Freeze(wq)) : Ascending(Freeze(wq)[i].cbs)
    BY <1>1, FreezeKeepsSorted
  <2> QED BY <1>1, <1>3, <2>1, TailKeepsSorted DEF SortedInv
<1>4. CASE \E bytes \in Seq(Bytes) : wq' = AppendOutgoingBuffer(wq, bytes)
  BY <1>1, <1>4, AppendKeepsSorted DEF SortedInv
<1>5. CASE wq' = [wq EXCEPT ![Len(wq)] = AppendCompletionCb(@, Len(sends))]
  <2>1. \A i \in 1..Len(wq) : CallbacksOf(wq[i]) \subseteq 1..Len(sends)
    BY DEF CallbackInv, CallbacksWait
  <2>2. \A i \in 1..Len(wq') : Ascending(wq'[i].cbs)
    BY <1>1, <1>5, <2>1, CallbackKeepsSorted
  <2> QED BY <2>2 DEF SortedInv
<1> QED BY <1>2, <1>3, <1>4, <1>5 DEF QueueStep

(* While callbacks of an asynchronous write run, the connection only takes   *)
(* more sends, behind the written item; nothing is unanswered.               *)
LEMMA CallsInFrame ==
  ASSUME TypeOK, StreamInv, CallbackInv, AnyTime, running, aw.st = "none", Len(wq) >= 2
  PROVE  /\ wire' = wire /\ running' /\ aw' = aw /\ alive' = alive /\ io' = io
         /\ \/ wq' = wq
            \/ \E bytes \in Seq(Bytes) : wq' = AppendOutgoingBuffer(wq, bytes)
            \/ wq' = [wq EXCEPT ![Len(wq)] = AppendCompletionCb(@, Len(sends))]
         /\ \A s \in 1..Len(sends) : Answered(s) => Answered(s)'
<1>1. sends \in Seq(SendRecord) /\ Len(sends) \in Nat /\ DOMAIN sends = 1..Len(sends)
  BY LenProperties DEF TypeOK
<1>2. ASSUME sends' = sends
      PROVE  \A s \in 1..Len(sends) : Answered(s) => Answered(s)'
  BY <1>2 DEF Answered
<1>3. CASE Send
  <2>1. PICK e : sends' = Append(sends, e)
    BY <1>3 DEF Send, ScheduleSend, RejectSend
  <2>2. \A s \in 1..Len(sends) : sends'[s] = sends[s]
    BY <1>1, <2>1
  <2>3. \A s \in 1..Len(sends) : Answered(s) => Answered(s)'
    BY <2>2 DEF Answered
  <2> QED BY <1>3, <2>3 DEF Send, ScheduleSend, RejectSend, userVars
<1>4. CASE AppendStep
  <2>1. CASE call.todo # <<>>
    <3>1. ~TryAggressive
      BY DEF TryAggressive
    <3>2. AppendOnly
      BY <1>4, <2>1, <3>1 DEF AppendStep, TakeNextBuffer, AggressiveWrite, AggressivePartial
    <3>3. NextBuffer \in Seq(Bytes)
      BY <2>1, NextBufferType
    <3>4. sends' = [sends EXCEPT ![Len(sends)].upto = accepted + Head(call.todo)]
      BY <3>2 DEF AppendOnly, TakeBuffer
    <3>5. \A s \in 1..Len(sends) : sends'[s].res = sends[s].res
      <4>1. \A s \in 1..Len(sends) : sends[s] \in SendRecord
        BY <1>1, ElementOfSeq
      <4> QED BY <1>1, <3>4, <4>1 DEF SendRecord
    <3>6. \A s \in 1..Len(sends) : Answered(s) => Answered(s)'
      BY <3>5 DEF Answered
    <3> QED BY <3>2, <3>3, <3>6 DEF AppendOnly, TakeBuffer, userVars
  <2>2. CASE call.todo = <<>>
    <3>1. ~AllAggressive
      BY <1>4, <2>2 DEF AppendStep, CallbackInv, CurrentSend, AllAggressive
    <3> QED BY <1>2, <1>4, <2>2, <3>1 DEF AppendStep, AppendDone, CallbackItem, userVars
  <2> QED BY <2>1, <2>2
<1>5. CASE SkipInitiate
  BY <1>2, <1>5 DEF SkipInitiate, userVars
<1>6. CASE StartLargeWrite \/ \E k \in 0..Size(Front) - 1 : SyncWriteError(k) \/ SyncWriteWouldBlock(k)
  BY <1>6 DEF StartLargeWrite, SyncWriteError, SyncWriteWouldBlock, CanInitiate
<1>7. CASE AsyncFail \/ \E k \in 1..Len(aw.left) : AsyncTransfer(k)
  BY <1>7 DEF AsyncFail, AsyncTransfer
<1>8. CASE TimerExpires \/ StartReading \/ StopReading
  BY <1>2, <1>8 DEF TimerExpires, StartReading, StopReading, writeVars, userVars
<1>9. CASE Shutdown \/ Release \/ \E h \in BOOLEAN : ResetShutdownHandler(h)
  BY <1>2, <1>9 DEF Shutdown, Release, ResetShutdownHandler, writeVars, userVars
<1> QED BY <1>3, <1>4, <1>5, <1>6, <1>7, <1>8, <1>9 DEF AnyTime

(* They leave the item in front alone. *)
LEMMA FrontIsKept ==
  ASSUME NEW q \in Seq(Item), Len(q) >= 2, NEW r, NEW n,
         \/ r = q
         \/ \E bytes \in Seq(Bytes) : r = AppendOutgoingBuffer(q, bytes)
         \/ r = [q EXCEPT ![Len(q)] = AppendCompletionCb(@, n)]
  PROVE  r[1] = q[1] /\ Len(r) >= 2
<1>1. /\ Len(q) \in Nat /\ DOMAIN q = 1..Len(q) /\ 1 \in 1..Len(q) - 1
      /\ Len(q) >= 1 /\ 1 # Len(q) /\ 1 \in 1..Len(q)
  <2>1. Len(q) \in Nat /\ DOMAIN q = 1..Len(q)
    BY LenProperties
  <2>2. \A m \in Nat : m >= 2 => 1 \in 1..m - 1 /\ m >= 1 /\ 1 # m /\ 1 \in 1..m
    OBVIOUS
  <2> QED BY <2>1, <2>2
<1>2. ASSUME NEW bytes \in Seq(Bytes), r = AppendOutgoingBuffer(q, bytes)
      PROVE  r[1] = q[1] /\ Len(r) >= 2
  <2>1. (\A i \in 1..Len(q) - 1 : r[i] = q[i]) /\ (Len(r) = Len(q) \/ Len(r) = Len(q) + 1)
    BY <1>1, <1>2, AppendOutgoingFacts
  <2> QED BY <1>1, <2>1
<1>3. CASE r = [q EXCEPT ![Len(q)] = AppendCompletionCb(@, n)]
  <2>1. DOMAIN r = 1..Len(q) /\ r[1] = q[1]
    BY <1>1, <1>3
  <2>2. Len(r) = Len(q)
    BY <1>1, <2>1
  <2> QED BY <2>1, <2>2
<1> QED BY <1>2, <1>3

(* What callbacks of an asynchronous write do leaves after_write where it is. *)
LEMMA InnerInFrame ==
  ASSUME TypeOK, StreamInv, CallbackInv, FrameInv, frames # <<>>, ~InSync,
         Inner, frames' = frames
  PROVE  FrameInv'
<1>1. /\ Calling(frames, wq, sends, wire)
      /\ alive /\ io = "running" /\ aw.st = "none" /\ running
  BY DEF FrameInv
<1>2. AnyTime
  BY DEF Inner, HandlerOfItsOwn
<1>3. Len(wq) >= 2
  BY <1>1 DEF Calling
<1>4. /\ wire' = wire /\ running' /\ aw' = aw /\ alive' = alive /\ io' = io
      /\ \/ wq' = wq
         \/ \E bytes \in Seq(Bytes) : wq' = AppendOutgoingBuffer(wq, bytes)
         \/ wq' = [wq EXCEPT ![Len(wq)] = AppendCompletionCb(@, Len(sends))]
      /\ \A s \in 1..Len(sends) : Answered(s) => Answered(s)'
  BY <1>1, <1>2, <1>3, CallsInFrame
<1>5. wq \in Seq(Item) /\ 1 \in 1..Len(wq)
  BY <1>3, LenProperties DEF TypeOK
<1>6. wq'[1] = wq[1] /\ Len(wq') >= 2
  <2> DEFINE r == wq'
             n == Len(sends)
  <2>1. \/ r = wq
        \/ \E bytes \in Seq(Bytes) : r = AppendOutgoingBuffer(wq, bytes)
        \/ r = [wq EXCEPT ![Len(wq)] = AppendCompletionCb(@, n)]
    BY <1>4
  <2> SUFFICES r[1] = wq[1] /\ Len(r) >= 2
    OBVIOUS
  <2> HIDE DEF r, n
  <2>2. CASE r = wq
    BY <1>3, <2>2
  <2>3. CASE \E bytes \in Seq(Bytes) : r = AppendOutgoingBuffer(wq, bytes)
    BY <1>3, <1>5, <2>3, FrontIsKept
  <2>4. CASE r = [wq EXCEPT ![Len(wq)] = AppendCompletionCb(@, n)]
    BY <1>3, <1>5, <2>4, FrontIsKept
  <2> QED BY <2>1, <2>2, <2>3, <2>4
<1>7. \A s \in CallbacksOf(wq[1]) : s \in 1..Len(sends)
  BY <1>5 DEF CallbackInv, CallbacksWait
<1>8. \A s \in CallbacksOf(wq[1]) : sends[s].res # <<>> => sends'[s].res # <<>>
  BY <1>4, <1>7 DEF Answered
<1>9. Calling(frames', wq', sends', wire')
  BY <1>1, <1>4, <1>6, <1>8 DEF Calling
<1>10. ~InSync'
  BY DEF InSync
<1> QED BY <1>1, <1>4, <1>9, <1>10 DEF FrameInv

(* In the middle of a synchronous write's callbacks only a timer can expire  *)
(* and the user let go of the connection.                                    *)
LEMMA InnerInSync ==
  ASSUME CbInv, InSync, Inner
  PROVE  TimerExpires \/ Release
<1>1. pc = "callbacks" /\ frames # <<>> /\ aw.st = "none"
  BY DEF CbInv, FrameInv, InSync
<1>2. ~HandlerOfItsOwn
  BY <1>1 DEF HandlerOfItsOwn
<1>3. ~Send /\ ~AppendStep
  BY <1>1 DEF Send, ScheduleSend, RejectSend, UserCall, AppendStep
<1>4. ~SkipInitiate /\ ~StartLargeWrite /\ \A k : ~SyncWriteError(k) /\ ~SyncWriteWouldBlock(k)
  BY <1>1 DEF SkipInitiate, StartLargeWrite, SyncWriteError, SyncWriteWouldBlock, CanInitiate
<1>5. ~AsyncFail /\ \A k : ~AsyncTransfer(k)
  BY <1>1 DEF AsyncFail, AsyncTransfer
<1>6. ~StartReading /\ ~StopReading /\ ~Shutdown /\ \A h : ~ResetShutdownHandler(h)
  BY <1>1 DEF StartReading, StopReading, Shutdown, ResetShutdownHandler, UserCall
<1> QED BY <1>2, <1>3, <1>4, <1>5, <1>6 DEF Inner, AnyTime

(* The parts of the invariant do not depend on the timers and the user.      *)
LEMMA CbFrame ==
  ASSUME CbInv, UNCHANGED <<writeVars, frames, writeEnabled, shutReason, sock, io, alive>>, TypeOK'
  PROVE  CbInv'
<1>1. /\ wq' = wq /\ running' = running /\ aw' = aw /\ pc' = pc /\ call' = call
      /\ sends' = sends /\ accepted' = accepted /\ wire' = wire
      /\ frames' = frames /\ writeEnabled' = writeEnabled /\ shutReason' = shutReason
      /\ sock' = sock /\ io' = io /\ alive' = alive
  BY DEF writeVars
<1>2. InSync' <=> InSync
  BY <1>1 DEF InSync
<1>3. FlagsInv' /\ QueueShape' /\ WellFormed(wq)' /\ StreamInOrder'
  BY <1>1 DEF CbInv, QueueInv, FlagsInv, QueueShape, WellFormed, StreamInOrder
<1>4. QueueInv'
  <2>1. PICK st \in [1..Len(wq) + 1 -> 0..accepted] : Chain(wq, accepted, st)
    BY DEF CbInv, QueueInv
  <2>2. Chain(wq, accepted, st)'
    BY <1>1, <2>1 DEF Chain
  <2>3. st \in [1..Len(wq') + 1 -> 0..accepted']
    BY <1>1
  <2> QED BY <1>3, <2>2, <2>3 DEF QueueInv
<1>5. ~InSync' => StreamInv'
  <2>1. SUFFICES ASSUME ~InSync PROVE StreamInv'
    BY <1>2
  <2>2. TypeOK /\ StreamInv
    BY <2>1 DEF CbInv
  <2>3. /\ pc = "append" => sends # <<>> /\ writeEnabled
        /\ writeEnabled <=> shutReason = "none"
        /\ sock = "shut" <=> ~writeEnabled
    BY <2>2 DEF StreamInv, FlagsInv
  <2> QED BY <1>1, <2>2, <2>3, StreamFrame
<1>6. CallbackInv'
  <2>1. Len(wq) >= 1 /\ TypeOK /\ CallbackInv
    BY DEF CbInv, QueueInv, QueueShape
  <2>2. StoppedIsIdle' /\ wire' \in Seq(Bytes) /\ Len(wire) \in Nat
    BY <1>1, <2>1, LenProperties DEF CallbackInv, StoppedIsIdle, TypeOK
  <2>3. Len(wire) <= Len(wire')
    BY <1>1, <2>2
  <2> QED BY <1>1, <2>1, <2>2, <2>3, CallbackFrame
<1>7. SortedInv'
  BY <1>1 DEF CbInv, SortedInv, Ascending
<1>8. FrameInv'
  <2>1. FrameInv
    BY DEF CbInv
  <2> QED BY <1>1, <1>2, <2>1 DEF FrameInv
<1> QED BY <1>4, <1>5, <1>6, <1>7, <1>8 DEF CbInv

(* The calls and the handlers of Connection keep the invariant.              *)
LEMMA InnerKeeps ==
  ASSUME CbInv, Inner, frames' = frames
  PROVE  CbInv'
<1>1. Next
  BY InnerIsNext
<1>2. CASE InSync
  <2>1. CASE TimerExpires
    <3>1. TypeOK'
      BY <2>1, WriteTimeoutType DEF CbInv, WriteTimeout
    <3> QED BY <2>1, <3>1, CbFrame DEF TimerExpires, stateVars, userVars
  <2>2. CASE Release
    <3>1. TypeOK'
      BY <2>2, LifetimeType DEF CbInv, Lifetime
    <3> QED BY <2>2, <3>1, CbFrame DEF Release, stateVars
  <2> QED BY <1>2, <2>1, <2>2, InnerInSync
<1>3. CASE ~InSync
  <2>1. TypeOK /\ StreamInv /\ CallbackInv /\ SortedInv /\ FrameInv
    BY <1>3 DEF CbInv
  <2>2. TypeOK' /\ StreamInv' /\ CallbackInv'
    BY <1>1, <2>1, StreamNext, CallbackNext
  <2>3. QueueInv'
    BY <2>2 DEF StreamInv, QueueInv, OrderInv
  <2>4. SortedInv'
    BY <1>1, <2>1, NextQueue, SortedNext DEF StreamInv, QueueShape
  <2>5. FrameInv'
    <3>1. CASE frames = <<>>
      <4>1. pc # "callbacks"
        BY <2>1, <3>1 DEF FrameInv
      <4>2. pc' # "callbacks"
        BY <1>1, <4>1, NextHasNoCallbacks
      <4> QED BY <3>1, <4>2 DEF FrameInv
    <3>2. CASE frames # <<>>
      BY <1>3, <2>1, <3>2, InnerInFrame
    <3> QED BY <3>1, <3>2
  <2> QED BY <2>2, <2>3, <2>4, <2>5 DEF CbInv
<1> QED BY <1>2, <1>3

-----------------------------------------------------------------------------
(* after_write comes to the callbacks of an item whose bytes, up to the last *)
(* one, are on the wire.                                                     *)
LEMMA CallsBegin ==
  ASSUME CbInv, frames = <<>>, alive, io = "running", pc # "append",
         NEW q, q = wq \/ q = Freeze(wq), Len(q) >= 2, WellFormed(q),
         NEW st \in [1..Len(q) + 1 -> 0..accepted], Chain(q, accepted, st),
         NEW by \in {"sync", "async"}, AfterWriteCalls(q, by),
         wire' \in Seq(Bytes), IsRun(wire', 0), Len(wire') = st[2],
         Len(wire) <= Len(wire'),
         aw' \in AsyncWriteState, aw'.st = "none", by = "async" => running
  PROVE  CbInv'
<1>1. /\ TypeOK /\ FlagsInv /\ QueueShape /\ CallbackInv /\ SortedInv
      /\ accepted \in Nat /\ wq \in Seq(Item) /\ Len(wq) >= 1
  BY DEF CbInv, QueueInv, QueueShape, TypeOK
<1>2. /\ q \in Seq(Item) /\ q[1] = wq[1] /\ Len(wq) <= Len(q) /\ Len(q) \in Nat
      /\ CallbacksWait(q, sends)
      /\ \A i \in 1..Len(wq) : CallbacksOf(q[i]) = CallbacksOf(wq[i])
  BY <1>1, FrozenQueue
<1>3. /\ wq' = q /\ pc' = "callbacks" /\ watch' = CancelWatch(watch)
      /\ running' = running /\ call' = call /\ sends' = sends
      /\ accepted' = accepted /\ timeouts' = timeouts
      /\ UNCHANGED <<stateVars, readVars, userVars>>
  BY DEF AfterWriteCalls
<1>4. 1 \in 1..Len(q) /\ 1 \in 1..Len(q) - 1 /\ 2 \in 1..Len(q) + 1 /\ 1 \in 1..1
  <2>1. \A n \in Nat : n >= 2 => 1 \in 1..n /\ 1 \in 1..n - 1 /\ 2 \in 1..n + 1
    OBVIOUS
  <2> QED BY <1>2, <2>1
<1>5. q[1].data # <<>> /\ q[1] \in Item
  BY <1>2, <1>4, ElementOfSeq DEF WellFormed
<1> DEFINE f == [cbs |-> q[1].cbs, by |-> by]
<1>6. frames' = <<f>>
  BY DEF AfterWriteCalls
<1>7. TypeOK'
  <2>1. watch' \in WatchState
    BY <1>1, <1>3, WatchTypes, 0 \in Nat DEF TypeOK
  <2> QED BY <1>1, <1>2, <1>3, <2>1 DEF TypeOK, stateVars, readVars, userVars
<1>8. FlagsInv'
  BY <1>1, <1>3 DEF FlagsInv, stateVars
<1>9. QueueShape' /\ WellFormed(wq)'
  <2>1. \A i \in 1..Len(q) - 1 : q[i].data # <<>>
    BY DEF WellFormed
  <2>2. Len(q) >= 1
    BY <1>2
  <2> QED BY <1>3, <2>1, <2>2 DEF QueueShape, WellFormed
<1>10. StreamInOrder'
  <2>1. st[2] \in 0..accepted
    BY <1>4
  <2>2. Len(wire') <= accepted'
    BY <1>1, <1>3, <2>1
  <2> QED BY <2>2 DEF StreamInOrder, IsRun
<1>11. QueueInv'
  <2>1. st \in [1..Len(wq') + 1 -> 0..accepted'] /\ Chain(wq, accepted, st)'
    BY <1>3 DEF Chain
  <2> QED BY <1>8, <1>9, <1>10, <2>1 DEF QueueInv
<1>12. CallbackInv'
  <2>1. StoppedIsIdle'
    BY <1>3 DEF StoppedIsIdle, userVars
  <2>2. UNCHANGED <<sends, accepted, alive>>
    BY <1>3 DEF userVars
  <2> QED BY <1>1, <1>3, <2>1, <2>2, CallbackFrame
<1>13. \A i \in 1..Len(q) : Ascending(q[i].cbs)
  <2>1. \A i \in 1..Len(wq) : Ascending(wq[i].cbs)
    BY <1>1 DEF SortedInv
  <2> QED BY <1>1, <2>1, FreezeKeepsSorted
<1>14. SortedInv'
  BY <1>3, <1>13 DEF SortedInv
<1>15. Calling(frames', wq', sends', wire')
  <2>1. f \in [cbs : Seq(Nat), by : {"sync", "async"}]
    BY <1>5 DEF Item
  <2>2. LastByte(q[1]) = st[1 + 1]
    BY <1>1, <1>2, <1>4, <1>5, LastByteOfChain
  <2>3. /\ Len(<<f>>) = 1 /\ <<f>>[1] = f
        /\ <<f>> \in Seq([cbs : Seq(Nat), by : {"sync", "async"}])
    BY <2>1
  <2>4. f.cbs = q[1].cbs /\ CallbacksOf(f) = CallbacksOf(q[1])
    BY DEF CallbacksOf
  <2>5. Ascending(f.cbs)
    BY <1>4, <1>13, <2>4
  <2> HIDE DEF f
  <2> QED BY <1>3, <1>5, <1>6, <2>2, <2>3, <2>4, <2>5 DEF Calling
<1>16. InSync' <=> by = "sync"
  BY <1>6 DEF InSync
<1>17. FrameInv'
  <2>1. frames' # <<>>
    BY <1>6
  <2>2. alive' /\ io' = "running" /\ aw'.st = "none" /\ pc' = "callbacks"
    BY <1>3 DEF userVars
  <2>3. ~InSync' => running'
    BY <1>3, <1>16
  <2> QED BY <1>15, <2>1, <2>2, <2>3 DEF FrameInv
<1>18. ~InSync' => StreamInv'
  <2>1. SUFFICES ASSUME by = "async" PROVE StreamInv'
    BY <1>16
  <2>2. running' /\ aw'.st \notin {"pending", "ok"}
    BY <1>3, <2>1
  <2>3. AggressiveInv' /\ NothingStuck'
    BY <1>3 DEF AggressiveInv, NothingStuck
  <2>4. OrderInv'
    <3>1. st \in [1..Len(wq') + 1 -> 0..accepted'] /\ Chain(wq', accepted', st)
      BY <1>3
    <3> QED BY <2>2, <3>1, OrderInvNext
  <2> QED BY <1>8, <1>9, <1>10, <2>3, <2>4 DEF StreamInv
<1> QED BY <1>7, <1>11, <1>12, <1>14, <1>17, <1>18 DEF CbInv

(* A synchronous write has handed the whole first item to the socket. *)
LEMMA SyncCallsBegin ==
  ASSUME CbInv, SyncWriteAllCalls
  PROVE  CbInv' /\ frames = <<>> /\ StreamInv /\ sock = "open"
         /\ Len(wire) <= Len(wire')
<1>1. /\ pc = "initiate" /\ alive /\ ~running /\ Front.ends # {}
      /\ wire' = wire \o Front.data /\ aw' = aw /\ sock = "open"
      /\ AfterWriteCalls(Freeze(wq), "sync")
  BY DEF SyncWriteAllCalls, CanInitiate
<1>2. frames = <<>> /\ ~InSync
  BY <1>1 DEF CbInv, FrameInv, InSync
<1>3. TypeOK /\ StreamInv /\ CallbackInv
  BY <1>2 DEF CbInv
<1>4. PICK st \in [1..Len(wq) + 1 -> 0..accepted] :
         Chain(wq, accepted, st) /\ Frontier(st)
  BY <1>3 DEF StreamInv, OrderInv
<1>5. /\ wq \in Seq(Item) /\ accepted \in Nat /\ wire \in Seq(Bytes)
      /\ Len(wire) \in Nat /\ Len(wq) \in Nat /\ Len(wq) >= 1
      /\ WellFormed(wq) /\ IsRun(wire, 0) /\ io = "running"
      /\ aw \in AsyncWriteState /\ aw.st = "none"
  BY <1>1, <1>3, LenProperties
     DEF TypeOK, StreamInv, QueueShape, StreamInOrder, IsRun, FlagsInv,
         CallbackInv, StoppedIsIdle, AsyncWriteState
<1>6. /\ Front.data \in Seq(Bytes) /\ Len(Front.data) \in Nat
      /\ st[1] = Len(wire) /\ IsRun(Front.data, st[1])
      /\ st[2] = st[1] + Len(Front.data)
  <2>1. 1 \in 1..Len(wq)
    BY <1>5
  <2>2. /\ wq[1].data \in Seq(Bytes) /\ Len(wq[1].data) \in Nat
        /\ IsRun(wq[1].data, st[1]) /\ st[1 + 1] = st[1] + Len(wq[1].data)
    BY <1>4, <1>5, <2>1, ChainItem
  <2>3. st[1] = Len(wire)
    BY <1>1, <1>4 DEF Frontier
  <2> QED BY <2>2, <2>3 DEF Front
<1>7. /\ wire' \in Seq(Bytes) /\ Len(wire') = st[2] /\ IsRun(wire', 0)
      /\ Len(wire) <= Len(wire')
  <2>1. IsRun(Front.data, 0 + Len(wire))
    BY <1>5, <1>6
  <2>2. /\ wire \o Front.data \in Seq(Bytes)
        /\ Len(wire \o Front.data) = Len(wire) + Len(Front.data)
        /\ IsRun(wire \o Front.data, 0)
    BY <1>5, <1>6, <2>1, ConcatRuns, 0 \in Nat
  <2> QED BY <1>1, <1>5, <1>6, <2>2
<1>8. WellFormed(Freeze(wq)) /\ Len(Freeze(wq)) >= 2
  BY <1>1, <1>5, WellFormedFreeze DEF Front
<1>9. PICK u \in [1..Len(Freeze(wq)) + 1 -> 0..accepted] :
         Chain(Freeze(wq), accepted, u) /\ u[2] = st[2]
  BY <1>4, <1>5, ChainFreeze
<1>10. CbInv'
  <2> DEFINE q == Freeze(wq)
  <2>1. q = Freeze(wq)
    OBVIOUS
  <2>2. WellFormed(q) /\ Len(q) >= 2 /\ AfterWriteCalls(q, "sync")
    BY <1>1, <1>8
  <2>3. u \in [1..Len(q) + 1 -> 0..accepted] /\ Chain(q, accepted, u)
    BY <1>9
  <2>4. Len(wire') = u[2]
    BY <1>7, <1>9
  <2>5. aw' \in AsyncWriteState /\ aw'.st = "none"
    BY <1>1, <1>5
  <2> HIDE DEF q
  <2> QED BY <1>1, <1>2, <1>5, <1>7, <2>1, <2>2, <2>3, <2>4, <2>5, CallsBegin
<1> QED BY <1>1, <1>2, <1>3, <1>7, <1>10

(* Of an asynchronous write that ended well nothing is left. *)
LEMMA AsyncCallsBegin ==
  ASSUME CbInv, AsyncWriteDoneCalls
  PROVE  CbInv'
<1>1. /\ pc = "idle" /\ alive /\ io = "running" /\ frames = <<>> /\ aw.st = "ok"
      /\ wire' = wire /\ aw' = [aw EXCEPT !.st = "none"]
      /\ AfterWriteCalls(wq, "async")
  BY DEF AsyncWriteDoneCalls, StrandFree
<1>2. TypeOK /\ StreamInv
  BY <1>1 DEF CbInv, InSync
<1>3. PICK st \in [1..Len(wq) + 1 -> 0..accepted] :
         Chain(wq, accepted, st) /\ Frontier(st)
  BY <1>2 DEF StreamInv, OrderInv
<1>4. /\ running /\ Len(wq) >= 2 /\ WellFormed(wq) /\ aw.left = <<>>
      /\ wire \in Seq(Bytes) /\ Len(wire) \in Nat /\ IsRun(wire, 0)
      /\ aw \in AsyncWriteState
  BY <1>1, <1>2, LenProperties
     DEF TypeOK, StreamInv, FlagsInv, QueueShape, StreamInOrder, IsRun
<1>5. Len(wire) = st[2]
  <2>1. Len(aw.left) = 0 /\ Len(wire) + Len(aw.left) = st[2]
    BY <1>1, <1>3, <1>4, EmptySeq DEF Frontier
  <2> QED BY <1>4, <2>1
<1>6. aw' \in AsyncWriteState /\ aw'.st = "none"
  BY <1>1, <1>4 DEF AsyncWriteState
<1>7. wire' \in Seq(Bytes) /\ IsRun(wire', 0) /\ Len(wire') = st[2] /\ Len(wire) <= Len(wire')
  BY <1>1, <1>4, <1>5
<1> QED BY <1>1, <1>3, <1>4, <1>6, <1>7, CallsBegin

-----------------------------------------------------------------------------
(* Between the first callback and the end of after_write a step of its own   *)
(* moves no byte and no item.                                                *)
LEMMA WithinCalls ==
  ASSUME CbInv, frames # <<>>, TypeOK', CallbackInv',
         UNCHANGED <<wq, running, aw, call, accepted, wire, stateVars, readVars,
                     userVars>>,
         pc # "append", pc' \in {"idle", "callbacks"},
         Calling(frames', wq, sends', wire),
         InSync' <=> InSync, InSync => pc' = "callbacks"
  PROVE  CbInv'
<1>1. /\ wq' = wq /\ running' = running /\ aw' = aw /\ accepted' = accepted
      /\ call' = call /\ wire' = wire /\ writeEnabled' = writeEnabled
      /\ shutReason' = shutReason /\ sock' = sock /\ io' = io /\ alive' = alive
  BY DEF stateVars, userVars
<1>2. FlagsInv' /\ QueueShape' /\ WellFormed(wq)' /\ StreamInOrder'
  BY <1>1 DEF CbInv, QueueInv, FlagsInv, QueueShape, WellFormed, StreamInOrder
<1>3. QueueInv'
  <2>1. PICK st \in [1..Len(wq) + 1 -> 0..accepted] : Chain(wq, accepted, st)
    BY DEF CbInv, QueueInv
  <2>2. Chain(wq, accepted, st)'
    BY <1>1, <2>1 DEF Chain
  <2>3. st \in [1..Len(wq') + 1 -> 0..accepted']
    BY <1>1
  <2> QED BY <1>2, <2>2, <2>3 DEF QueueInv
<1>4. SortedInv'
  BY <1>1 DEF CbInv, SortedInv, Ascending
<1>5. frames' # <<>>
  <2>1. Len(frames') = 1
    BY DEF Calling
  <2> QED BY <2>1, EmptySeq
<1>6. FrameInv'
  <2>1. /\ alive /\ io = "running" /\ aw.st = "none" /\ (~InSync => running)
    BY DEF CbInv, FrameInv
  <2>2. Calling(frames, wq, sends, wire)'
    BY <1>1
  <2> QED BY <1>1, <1>5, <2>1, <2>2 DEF FrameInv
<1>7. ~InSync' => StreamInv'
  <2>1. SUFFICES ASSUME ~InSync PROVE StreamInv'
    OBVIOUS
  <2>2. StreamInv /\ running /\ aw.st = "none"
    BY <2>1 DEF CbInv, FrameInv
  <2>3. AggressiveInv' /\ NothingStuck'
    BY <1>1, <2>2 DEF AggressiveInv, NothingStuck
  <2>4. PICK st \in [1..Len(wq) + 1 -> 0..accepted] : Chain(wq, accepted, st)
    BY <2>2 DEF StreamInv, OrderInv
  <2>5. OrderInv'
    <3>1. st \in [1..Len(wq') + 1 -> 0..accepted'] /\ Chain(wq', accepted', st)
      BY <1>1, <2>4
    <3> QED BY <1>1, <2>2, <3>1, OrderInvNext
  <2> QED BY <1>2, <2>3, <2>5 DEF StreamInv
<1> QED BY <1>3, <1>4, <1>6, <1>7 DEF CbInv

(* A callback comes back to the loop over the callbacks. *)
LEMMA ReturnKeeps ==
  ASSUME CbInv, CallbackReturns
  PROVE  CbInv'
<1>1. /\ pc = "idle" /\ frames # <<>> /\ pc' = "callbacks" /\ frames' = frames
      /\ UNCHANGED <<wq, running, aw, call, sends, accepted, wire, stateVars,
                     readVars, userVars, watch, timeouts>>
  BY DEF CallbackReturns
<1>2. TypeOK /\ CallbackInv /\ FrameInv /\ Len(wq) >= 1
  BY DEF CbInv, QueueInv, QueueShape
<1>3. TypeOK'
  BY <1>1, <1>2 DEF TypeOK, stateVars, readVars, userVars
<1>4. CallbackInv'
  <2>1. StoppedIsIdle'
    BY <1>1, <1>2 DEF StoppedIsIdle, FrameInv, userVars
  <2>2. wire' \in Seq(Bytes) /\ Len(wire) <= Len(wire')
    BY <1>1, <1>2, LenProperties DEF TypeOK
  <2>3. UNCHANGED <<sends, accepted, alive>> /\ pc # "append" /\ pc' # "append" /\ wq' = wq
    BY <1>1 DEF userVars
  <2> QED BY <1>2, <2>1, <2>2, <2>3, CallbackFrame
<1>5. Calling(frames', wq, sends', wire)
  BY <1>1, <1>2 DEF FrameInv
<1>6. InSync' <=> InSync
  BY <1>1 DEF InSync
<1> QED BY <1>1, <1>3, <1>4, <1>5, <1>6, WithinCalls

(* The next callback in a frame: the first that is left.                     *)
LEMMA OneCallLess ==
  ASSUME NEW f \in Seq([cbs : Seq(Nat), by : {"sync", "async"}]), Len(f) = 1,
         f[1].cbs # <<>>, Ascending(f[1].cbs)
  PROVE  LET g == [f EXCEPT ![1].cbs = Tail(@)]
             c == Head(f[1].cbs)
         IN  /\ Len(g) = 1 /\ g \in Seq([cbs : Seq(Nat), by : {"sync", "async"}])
             /\ g[1].by = f[1].by /\ Ascending(g[1].cbs)
             /\ c \in CallbacksOf(f[1]) /\ c \in Nat
             /\ CallbacksOf(g[1]) \subseteq CallbacksOf(f[1])
             /\ \A s \in CallbacksOf(f[1]) : s = c \/ s \in CallbacksOf(g[1])
             /\ \A s \in CallbacksOf(f[1]) : c <= s
<1> DEFINE F == [cbs : Seq(Nat), by : {"sync", "async"}]
           s0 == f[1].cbs
           g == [f EXCEPT ![1].cbs = Tail(@)]
           e == [f[1] EXCEPT !.cbs = Tail(s0)]
           c == Head(s0)
<1>1. 1 \in 1..Len(f) /\ DOMAIN f = 1..1 /\ f[1] \in F /\ f \in Seq(F)
  <2>1. 1 \in 1..Len(f)
    OBVIOUS
  <2>2. f[1] \in F
    BY <2>1, ElementOfSeq, Zenon
  <2>3. DOMAIN f = 1..Len(f)
    BY LenProperties
  <2> QED BY <2>1, <2>2, <2>3
<1>2. s0 \in Seq(Nat) /\ s0 # <<>> /\ Len(s0) \in Nat /\ DOMAIN s0 = 1..Len(s0)
  BY <1>1, LenProperties
<1>3. /\ c = s0[1] /\ c \in Nat /\ Tail(s0) \in Seq(Nat)
      /\ Len(Tail(s0)) = Len(s0) - 1
      /\ \A i \in 1..Len(Tail(s0)) : Tail(s0)[i] = s0[i + 1]
  BY <1>2, HeadTailProperties
<1>4. DOMAIN Tail(s0) = 1..Len(s0) - 1 /\ Len(s0) >= 1
  BY <1>2, <1>3, LenProperties, EmptySeq
<1>5. e \in F /\ e.cbs = Tail(s0) /\ e.by = f[1].by
  BY <1>1, <1>3
<1>6. g = [f EXCEPT ![1] = e]
  OBVIOUS
<1> HIDE DEF e
<1> HIDE DEF F
<1>7. DOMAIN g = 1..1 /\ g[1] = e
  BY <1>1, <1>6
<1>8. Len(g) = 1 /\ g \in Seq(F)
  <2>1. /\ [f EXCEPT ![1] = e] \in Seq(F)
        /\ Len([f EXCEPT ![1] = e]) = Len(f)
    <3>1. f \in Seq(F) /\ 1 \in 1..Len(f) /\ e \in F
      BY <1>1, <1>5
    <3> HIDE DEF e
    <3> QED BY ONLY <3>1, ExceptSeq
  <2> QED BY <1>6, <2>1
<1> HIDE DEF g, s0, c
<1>10. Ascending(e.cbs)
  <2>1. ASSUME NEW j \in DOMAIN Tail(s0), NEW k \in DOMAIN Tail(s0), j <= k
        PROVE  Tail(s0)[j] <= Tail(s0)[k]
    <3>1. j + 1 \in DOMAIN s0 /\ k + 1 \in DOMAIN s0 /\ j + 1 <= k + 1
      BY <1>2, <1>4, <2>1
    <3>2. s0[j + 1] <= s0[k + 1]
      BY <3>1 DEF Ascending, s0
    <3> QED BY <1>3, <1>4, <2>1, <3>2
  <2> QED BY <1>5, <2>1 DEF Ascending
<1>11. ASSUME NEW j \in DOMAIN s0
       PROVE  /\ s0[j] = c \/ s0[j] \in CallbacksOf(e)
              /\ c <= s0[j]
  <2>1. 1 \in DOMAIN s0 /\ 1 <= j
    BY <1>2, <1>4
  <2>2. c <= s0[j]
    BY <1>3, <2>1 DEF Ascending, s0
  <2>3. CASE j = 1
    BY <1>3, <2>2, <2>3
  <2>4. CASE j # 1
    <3>1. j - 1 \in DOMAIN Tail(s0) /\ (j - 1) + 1 = j
      BY <1>2, <1>4, <2>1, <2>4
    <3>2. Tail(s0)[j - 1] = s0[j]
      BY <1>3, <1>4, <3>1
    <3>3. s0[j] \in CallbacksOf(e)
      BY <1>5, <3>1, <3>2 DEF CallbacksOf
    <3> QED BY <2>2, <3>3
  <2> QED BY <2>3, <2>4
<1>12. CallbacksOf(e) \subseteq CallbacksOf(f[1])
  <2>1. ASSUME NEW j \in DOMAIN Tail(s0) PROVE Tail(s0)[j] \in CallbacksOf(f[1])
    <3>1. j + 1 \in DOMAIN s0 /\ Tail(s0)[j] = s0[j + 1]
      BY <1>2, <1>3, <1>4
    <3> QED BY <3>1 DEF CallbacksOf, s0
  <2> QED BY <1>5, <2>1 DEF CallbacksOf
<1>13. c \in CallbacksOf(f[1])
  <2>1. 1 \in DOMAIN s0
    BY <1>2, <1>4
  <2> QED BY <1>3, <2>1 DEF CallbacksOf, s0
<1>14. \A s \in CallbacksOf(f[1]) : (s = c \/ s \in CallbacksOf(e)) /\ c <= s
  BY <1>11 DEF CallbacksOf, s0
<1> QED BY <1>3, <1>5, <1>7, <1>8, <1>10, <1>12, <1>13, <1>14 DEF g, F, s0, c

(* A callback of the item that is written hears of success: its bytes are    *)
(* on the wire, and those of earlier sends were called before it.            *)
LEMMA CallKeeps ==
  ASSUME CallbackSends \subseteq {"async"}, CbInv, RunNextCallback
  PROVE  CbInv'
<1> DEFINE c == Head(frames[1].cbs)
           item == [cbs |-> <<c>>]
           D == CallbacksOf(item)
           F == [cbs : Seq(Nat), by : {"sync", "async"}]
<1>1. /\ pc = "callbacks" /\ frames[1].cbs # <<>>
      /\ sends' = RunCallbacks(sends, item.cbs, "success")
      /\ frames' = [frames EXCEPT ![1].cbs = Tail(@)]
      /\ pc' = IF frames[1].by \in CallbackSends THEN "idle" ELSE "callbacks"
      /\ UNCHANGED <<wq, running, aw, call, accepted, wire, stateVars, readVars,
                     userVars, watch, timeouts>>
  BY DEF RunNextCallback
<1>2. /\ TypeOK /\ CallbackInv /\ frames # <<>> /\ Calling(frames, wq, sends, wire)
      /\ alive /\ io = "running" /\ Len(wq) >= 1
  BY <1>1 DEF CbInv, FrameInv, QueueInv, QueueShape
<1>3. /\ frames \in Seq(F) /\ Len(frames) = 1 /\ Ascending(frames[1].cbs)
      /\ LastByte(wq[1]) = Len(wire) /\ wq[1].data # <<>> /\ Len(wq) >= 2
      /\ CallbacksOf(frames[1]) \subseteq CallbacksOf(wq[1])
      /\ \A s \in CallbacksOf(wq[1]) : s \in CallbacksOf(frames[1]) \/ sends[s].res # <<>>
  BY <1>2 DEF Calling
<1>4. /\ Len(frames') = 1 /\ frames' \in Seq(F)
      /\ frames'[1].by = frames[1].by /\ Ascending(frames'[1].cbs)
      /\ c \in CallbacksOf(frames[1]) /\ c \in Nat
      /\ CallbacksOf(frames'[1]) \subseteq CallbacksOf(frames[1])
      /\ \A s \in CallbacksOf(frames[1]) : s = c \/ s \in CallbacksOf(frames'[1])
      /\ \A s \in CallbacksOf(frames[1]) : c <= s
  BY <1>1, <1>3, OneCallLess
<1>5. /\ wq \in Seq(Item) /\ sends \in Seq(SendRecord) /\ 1 \in 1..Len(wq)
      /\ wire' \in Seq(Bytes) /\ wire' = wire /\ Len(wire) \in Nat
      /\ Len(wire) <= Len(wire') /\ accepted' = accepted /\ wq' = wq /\ alive' = alive
      /\ io' = io
  BY <1>1, <1>2, LenProperties DEF TypeOK, userVars
<1>6. D = {c}
  BY DEF CallbacksOf
<1>7. Answers(sends, sends', {c}, TRUE)
  <2>1. "success" \in Results
    BY DEF Results
  <2>2. Answers(sends, RunCallbacks(sends, item.cbs, "success"), D, TRUE)
    BY <1>5, <2>1, RunCallbacksAnswers
  <2> QED BY <1>1, <1>6, <2>2
<1> HIDE DEF c, item, D, F
<1>8. c \in CallbacksOf(wq[1]) /\ c \in 1..Len(sends) /\ sends[c].upto <= Len(wire)
  <2>1. c \in CallbacksOf(wq[1])
    BY <1>3, <1>4
  <2> QED BY <1>2, <1>3, <1>5, <2>1 DEF CallbackInv, CallbacksWait
<1>9. TypeOK'
  <2>1. sends' \in Seq(SendRecord) /\ pc' \in {"idle", "callbacks"}
    BY <1>1, <1>7 DEF Answers
  <2> QED BY <1>1, <1>2, <2>1 DEF TypeOK, stateVars, readVars, userVars
<1>10. SuccessMeansWritten'
  <2>1. SuccessMeansWritten
    BY <1>2 DEF CallbackInv
  <2>2. \A s \in 1..Len(sends) : s \in {c} => sends[s].upto <= Len(wire')
    BY <1>5, <1>8
  <2> QED BY <1>2, <1>5, <1>7, <2>1, <2>2, SuccessKept
<1>11. AnsweredInOrder'
  <2>1. ASSUME NEW s \in 1..Len(sends), NEW t \in 1..Len(sends), s < t, t \in {c},
               sends[s].cb, Accepted(s), ~Answered(s)
        PROVE  s \in {c}
    <3>1. t \in CallbacksOf(wq[1])
      BY <1>8, <2>1
    <3>2. s \in CallbacksOf(wq[1])
      BY <1>1, <1>2, <2>1, <3>1, FirstInOrder
    <3>3. c <= s
      BY <1>3, <1>4, <2>1, <3>2 DEF Answered
    <3>4. s \in Nat /\ t \in Nat /\ t = c
      BY <1>4, <2>1
    <3> QED BY <2>1, <3>3, <3>4
  <2>2. AnsweredInOrder
    BY <1>2 DEF CallbackInv
  <2> QED BY <1>2, <1>7, <2>1, <2>2, OrderKept
<1>12. CallbacksWait(wq, sends') /\ UptoInv'
  <2>1. CallbacksWait(wq, sends) /\ UptoInv
    BY <1>2 DEF CallbackInv
  <2> QED BY <1>2, <1>5, <1>7, <2>1, WaitingKept
<1>13. UnansweredWait'
  <2>1. ASSUME NEW s \in 1..Len(sends'), sends'[s].cb, ~Answered(s)'
        PROVE  \E i \in 1..Len(wq') : s \in CallbacksOf(wq'[i])
    <3>1. s \in 1..Len(sends) /\ sends[s].cb /\ ~Answered(s)
      BY <1>7, <2>1 DEF Answers, Answered
    <3>2. PICK i \in 1..Len(wq) : s \in CallbacksOf(wq[i])
      BY <1>1, <1>2, <3>1 DEF CallbackInv, UnansweredWait
    <3> QED BY <1>5, <3>2
  <2> QED BY <2>1 DEF UnansweredWait
<1>14. CallbackInv'
  <2>1. pc' # "append" /\ alive' /\ io' = "running"
    BY <1>1, <1>2, <1>5
  <2>2. CurrentSend' /\ StoppedIsIdle' /\ NoCallbackLost'
    BY <2>1 DEF CurrentSend, StoppedIsIdle, NoCallbackLost
  <2>3. CallbacksWait(wq, sends)'
    BY <1>5, <1>12
  <2> QED BY <1>10, <1>11, <1>12, <1>13, <2>2, <2>3 DEF CallbackInv
<1>15. Calling(frames', wq, sends', wire)
  <2>1. \A s \in CallbacksOf(wq[1]) : s \in CallbacksOf(frames'[1]) \/ sends'[s].res # <<>>
    <3>1. SUFFICES ASSUME NEW s \in CallbacksOf(wq[1]), s \notin CallbacksOf(frames'[1])
                   PROVE  sends'[s].res # <<>>
      OBVIOUS
    <3>2. s \in 1..Len(sends)
      BY <1>2, <1>5 DEF CallbackInv, CallbacksWait
    <3>3. s = c \/ sends[s].res # <<>>
      BY <1>3, <1>4, <3>1
    <3> QED BY <1>7, <3>2, <3>3 DEF Answers
  <2> QED BY <1>3, <1>4, <2>1 DEF Calling, F
<1>16. frames' # <<>>
  BY <1>4, EmptySeq
<1>17. InSync' <=> InSync
  BY <1>2, <1>4, <1>16 DEF InSync
<1>18. InSync => pc' = "callbacks"
  BY <1>1 DEF InSync
<1>19. pc' \in {"idle", "callbacks"}
  BY <1>1
<1> QED BY <1>1, <1>2, <1>9, <1>14, <1>15, <1>17, <1>18, <1>19, WithinCalls

-----------------------------------------------------------------------------
(* The end of after_write: every callback of the item was called, and the    *)
(* item leaves the queue.                                                    *)
LEMMA CallsEnd ==
  ASSUME CbInv, CallbacksDone
  PROVE  CbInv' /\ frames' = <<>>
<1>1. /\ pc = "callbacks" /\ frames[1].cbs = <<>> /\ frames' = Tail(frames)
      /\ wq' = Tail(wq) /\ running' = FALSE /\ pc' = "initiate"
      /\ UNCHANGED <<aw, call, sends, accepted, wire, stateVars, readVars,
                     userVars, watch, timeouts>>
  BY DEF CallbacksDone
<1>2. /\ TypeOK /\ FlagsInv /\ CallbackInv /\ SortedInv /\ WellFormed(wq)
      /\ frames # <<>> /\ Calling(frames, wq, sends, wire) /\ StreamInOrder
      /\ alive /\ io = "running" /\ aw.st = "none"
  BY <1>1 DEF CbInv, FrameInv, QueueInv
<1>3. /\ frames \in Seq([cbs : Seq(Nat), by : {"sync", "async"}]) /\ Len(frames) = 1
      /\ Len(wq) >= 2 /\ wq[1].data # <<>> /\ LastByte(wq[1]) = Len(wire)
      /\ \A s \in CallbacksOf(wq[1]) : s \in CallbacksOf(frames[1]) \/ sends[s].res # <<>>
  BY <1>2 DEF Calling
<1>4. /\ wq \in Seq(Item) /\ accepted \in Nat /\ Len(wq) \in Nat /\ 1 \in 1..Len(wq)
      /\ Len(wq) >= 1
  <2>1. wq \in Seq(Item) /\ accepted \in Nat /\ Len(wq) \in Nat
    BY <1>2, LenProperties DEF TypeOK
  <2> QED BY <1>3, <2>1
<1>5. frames' = <<>>
  <2>1. Tail(frames) \in Seq([cbs : Seq(Nat), by : {"sync", "async"}])
        /\ Len(Tail(frames)) = 0
    BY <1>2, <1>3, HeadTailProperties
  <2> QED BY <1>1, <2>1, EmptySeq
<1>6. ~InSync' /\ FrameInv'
  BY <1>1, <1>5 DEF InSync, FrameInv
<1>7. TypeOK'
  <2>1. Tail(wq) \in Seq(Item)
    BY <1>3, <1>4, HeadTailProperties, EmptySeq
  <2> QED BY <1>1, <1>2, <2>1 DEF TypeOK, stateVars, readVars, userVars
<1>8. StreamInv'
  <2>1. PICK st \in [1..Len(wq) + 1 -> 0..accepted] : Chain(wq, accepted, st)
    BY DEF CbInv, QueueInv
  <2>2. st[1 + 1] = Len(wire)
    BY <1>3, <1>4, <2>1, LastByteOfChain
  <2>3. /\ call' = call /\ accepted' = accepted /\ writeEnabled' = writeEnabled
        /\ shutReason' = shutReason /\ sock' = sock /\ wire' = wire /\ aw' = aw
    BY <1>1 DEF stateVars
  <2>4. IsRun(wire', 0) /\ Len(wire') = st[2] /\ aw'.st = "none"
    BY <1>2, <2>2, <2>3 DEF StreamInOrder, IsRun
  <2> QED BY <1>1, <1>2, <1>3, <1>4, <2>1, <2>3, <2>4, ItemIsPopped
<1>9. SortedInv'
  <2>1. \A i \in 1..Len(wq) : Ascending(wq[i].cbs)
    BY <1>2 DEF SortedInv
  <2> QED BY <1>1, <1>4, <2>1, TailKeepsSorted DEF SortedInv
<1>10. CallbackInv'
  <2>1. CallbacksWait(wq, sends)
    BY <1>2 DEF CallbackInv
  <2>2. /\ CallbacksWait(wq', sends)
        /\ \A i \in 2..Len(wq) : /\ i - 1 \in 1..Len(wq')
                                 /\ CallbacksOf(wq'[i - 1]) = CallbacksOf(wq[i])
    BY <1>1, <1>4, <2>1, TailWaits
  <2>3. CallbacksOf(frames[1]) = {}
    BY <1>1, EmptySeq DEF CallbacksOf
  <2>4. sends' = sends /\ wire' = wire /\ accepted' = accepted /\ alive' /\ io' = io
    BY <1>1, <1>2 DEF userVars
  <2>5. UnansweredWait'
    <3>1. ASSUME NEW s \in 1..Len(sends), sends[s].cb, ~Answered(s)
          PROVE  \E i \in 1..Len(wq') : s \in CallbacksOf(wq'[i])
      <4>1. PICK i \in 1..Len(wq) : s \in CallbacksOf(wq[i])
        BY <1>1, <1>2, <3>1 DEF CallbackInv, UnansweredWait
      <4>2. i # 1
        BY <1>3, <2>3, <3>1, <4>1 DEF Answered
      <4>3. i \in 2..Len(wq)
        BY <1>4, <4>2
      <4> QED BY <2>2, <4>1, <4>3
    <3> QED BY <2>4, <3>1 DEF UnansweredWait, Answered
  <2>6. CurrentSend' /\ StoppedIsIdle' /\ NoCallbackLost'
    BY <1>1, <1>2, <2>4 DEF CurrentSend, StoppedIsIdle, NoCallbackLost
  <2>7. UptoInv' /\ SuccessMeansWritten' /\ AnsweredInOrder'
    BY <1>2, <2>4 DEF CallbackInv, UptoInv, SuccessMeansWritten, AnsweredInOrder,
                      Accepted, Answered
  <2>8. CallbacksWait(wq, sends)'
    BY <2>2, <2>4
  <2> QED BY <2>5, <2>6, <2>7, <2>8 DEF CallbackInv
<1>11. QueueInv'
  <2>1. \E st \in [1..Len(wq') + 1 -> 0..accepted'] : Chain(wq', accepted', st)
    BY <1>8 DEF StreamInv, OrderInv
  <2> QED BY <1>8, <2>1 DEF StreamInv, QueueInv
<1> QED BY <1>5, <1>6, <1>7, <1>8, <1>9, <1>10, <1>11 DEF CbInv

(* Every step keeps the invariant, if callbacks of synchronous writes do not *)
(* call back.                                                               *)
LEMMA CbNextKeeps ==
  ASSUME CallbackSends \subseteq {"async"}, CbInv, [CbNext]_cbVars
  PROVE  CbInv'
<1>1. CASE AfterWriteSuccess
  BY <1>1, SyncCallsBegin, AsyncCallsBegin, CallKeeps, ReturnKeeps, CallsEnd
     DEF AfterWriteSuccess
<1>2. CASE (AnyTime \/ HandlerOfItsOwn) /\ UNCHANGED frames
  BY <1>2, InnerKeeps DEF Inner
<1>3. CASE UNCHANGED cbVars
  <2>1. UNCHANGED vars /\ frames' = frames
    BY <1>3 DEF cbVars
  <2>2. TypeOK'
    BY <2>1 DEF CbInv, TypeOK, vars, writeVars, stateVars, readVars, userVars
  <2> QED BY <2>1, <2>2, CbFrame DEF vars, writeVars, stateVars, userVars
<1> QED BY <1>1, <1>2, <1>3 DEF CbNext

(* A new connection is in no callback. *)
LEMMA CbInitHolds == CbInit => CbInv
<1> SUFFICES ASSUME CbInit PROVE CbInv
  OBVIOUS
<1>1. TypeOK /\ StreamInv /\ CallbackInv /\ frames = <<>> /\ pc = "idle"
  BY TypeInit, StreamInit, CallbackInit DEF CbInit, Init
<1>2. SortedInv
  <2>1. wq = <<EmptyItem>>
    BY DEF CbInit, Init
  <2>2. Ascending(EmptyItem.cbs)
    BY DEF Ascending, EmptyItem
  <2>3. Len(wq) = 1 /\ wq[1] = EmptyItem /\ \A i \in 1..1 : i = 1
    BY <2>1
  <2> QED BY <2>2, <2>3 DEF SortedInv
<1>3. FrameInv
  BY <1>1 DEF FrameInv
<1> QED BY <1>1, <1>2, <1>3, StreamIsQueue DEF CbInv

-----------------------------------------------------------------------------
(* A step of ConnectionCallbacks is one of Connection, or after_write's.     *)
LEMMA CbSteps ==
  ASSUME [CbNext]_cbVars
  PROVE  \/ AfterWriteSuccess
         \/ Inner /\ frames' = frames /\ Next
         \/ UNCHANGED cbVars
<1>1. Inner => Next
  BY InnerIsNext
<1> QED BY <1>1 DEF CbNext, Inner

(* Of after_write only the synchronous write moves bytes; the rest is as in   *)
(* Connection.                                                                *)
LEMMA CbStreamStep ==
  ASSUME CallbackSends \subseteq {"async"}, CbInv, [CbNext]_cbVars
  PROVE  [Stream!Next]_(Stream!streamVars)
<1>1. /\ TypeOK /\ StreamInOrder /\ TypeOK' /\ StreamInOrder'
      /\ wire \in Seq(Bytes) /\ Len(wire) \in Nat /\ accepted \in Nat
  BY CbNextKeeps, LenProperties DEF CbInv, QueueInv, TypeOK
<1>2. CASE UNCHANGED <<accepted, wire, writeEnabled>>
  BY <1>2 DEF Stream!streamVars
<1>3. CASE AfterWriteSuccess
  <2>1. CASE SyncWriteAllCalls
    <3>1. StreamInv /\ sock = "open" /\ Len(wire) <= Len(wire')
      BY <2>1, SyncCallsBegin
    <3>2. writeEnabled /\ writeEnabled' = writeEnabled /\ accepted' = accepted
      BY <2>1, <3>1 DEF StreamInv, FlagsInv, SyncWriteAllCalls, AfterWriteCalls, stateVars
    <3>3. accepted <= accepted'
      BY <1>1, <3>2
    <3> QED BY <1>1, <3>1, <3>2, <3>3, StreamStep
  <2>2. CASE AsyncWriteDoneCalls
    BY <1>2, <2>2 DEF AsyncWriteDoneCalls, AfterWriteCalls, stateVars
  <2>3. CASE RunNextCallback \/ CallbackReturns \/ CallbacksDone
    BY <1>2, <2>3 DEF RunNextCallback, CallbackReturns, CallbacksDone, stateVars
  <2> QED BY <1>3, <2>1, <2>2, <2>3 DEF AfterWriteSuccess
<1>4. CASE Inner /\ frames' = frames /\ Next
  <2>1. CASE InSync
    <3>1. TimerExpires \/ Release
      BY <1>4, <2>1, InnerInSync
    <3> QED BY <1>2, <3>1 DEF TimerExpires, Release, writeVars, stateVars
  <2>2. CASE ~InSync
    <3>1. StreamInv
      BY <2>2 DEF CbInv
    <3> QED BY <1>1, <1>4, <3>1, ConnectionStep, StreamStep
  <2> QED BY <2>1, <2>2
<1>5. CASE UNCHANGED cbVars
  BY <1>2, <1>5 DEF cbVars, vars, writeVars, stateVars
<1> QED BY <1>3, <1>4, <1>5, CbSteps

(* While callbacks are called no write is outstanding, and nothing is said   *)
(* of the running flag.                                                      *)
CbWatchInv == TimersInv /\ (frames = <<>> => WriteIsWatched)

(* Every step keeps it: after_write cancels the watch before any callback.    *)
LEMMA CbWatchNext ==
  ASSUME CbInv, CbWatchInv, [CbNext]_cbVars
  PROVE  CbWatchInv'
<1>1. TypeOK /\ TimersInv
  BY DEF CbInv, CbWatchInv
<1>2. NotOlder(watch) /\ NotOlder(CancelWatch(watch))
  BY <1>1, LaterKeys DEF NotOlder, TypeOK
<1>3. CASE AfterWriteSuccess
  <2>1. ASSUME NEW q, NEW by, frames = <<>>, AfterWriteCalls(q, by)
        PROVE  CbWatchInv'
    <3>1. NotOlder(watch') /\ timeouts' = timeouts
      BY <1>2, <2>1 DEF AfterWriteCalls
    <3>2. frames' # <<>>
      BY <2>1 DEF AfterWriteCalls
    <3> QED BY <1>1, <3>1, <3>2, TimersKept DEF CbWatchInv
  <2>2. CASE SyncWriteAllCalls
    <3>1. frames = <<>>
      BY <2>2, SyncCallsBegin
    <3> QED BY <2>1, <2>2, <3>1 DEF SyncWriteAllCalls
  <2>3. CASE AsyncWriteDoneCalls
    BY <2>1, <2>3 DEF AsyncWriteDoneCalls
  <2>4. CASE RunNextCallback \/ CallbackReturns
    <3>1. frames # <<>>
      BY <2>4 DEF CbInv, FrameInv, RunNextCallback, CallbackReturns
    <3>2. Len(frames) = 1
      BY <3>1 DEF CbInv, FrameInv, Calling
    <3>3. 1 \in DOMAIN frames
      BY <3>1, <3>2, LenProperties DEF CbInv, FrameInv, Calling
    <3>4. 1 \in DOMAIN frames'
      BY <2>4, <3>3 DEF RunNextCallback, CallbackReturns
    <3>5. frames' # <<>>
      BY <3>4
    <3>6. watch' = watch /\ timeouts' = timeouts
      BY <2>4 DEF RunNextCallback, CallbackReturns
    <3> QED BY <1>1, <3>5, <3>6 DEF CbWatchInv, TimersInv
  <2>5. CASE CallbacksDone
    <3>1. watch' = watch /\ timeouts' = timeouts /\ ~running'
      BY <2>5 DEF CallbacksDone
    <3> QED BY <1>1, <3>1 DEF CbWatchInv, TimersInv, WriteIsWatched
  <2> QED BY <1>3, <2>2, <2>3, <2>4, <2>5 DEF AfterWriteSuccess
<1>4. CASE Inner /\ frames' = frames /\ Next
  BY <1>1, <1>4, WatchNext DEF CbWatchInv, WatchKept
<1>5. CASE UNCHANGED cbVars
  BY <1>5 DEF cbVars, vars, writeVars, stateVars, CbWatchInv, TimersInv, WriteIsWatched
<1> QED BY <1>3, <1>4, <1>5, CbSteps

(* Inside after_write no timeout handler runs. *)
LEMMA CbTimeoutStep ==
  ASSUME CbInv, CbWatchInv, [CbNext]_cbVars,
         shutReason = "none", shutReason' = "write_timeout"
  PROVE  aw.st # "none" /\ \E t \in timeouts \ timeouts' : t.op = aw.op
<1>1. ~AfterWriteSuccess
  BY DEF AfterWriteSuccess, SyncWriteAllCalls, AsyncWriteDoneCalls, AfterWriteCalls,
         RunNextCallback, CallbackReturns, CallbacksDone, stateVars
<1>2. ~UNCHANGED cbVars
  BY DEF cbVars, vars, stateVars
<1>3. Inner /\ Next
  BY <1>1, <1>2, CbSteps
<1>4. frames = <<>>
  <2>1. ~AnyTime
    <3>1. ASSUME NEW reason, NEW w, ShutdownImpl(reason, w), reason # "write_timeout"
          PROVE  FALSE
      BY <3>1 DEF ShutdownImpl, ShutdownWasCalled
    <3>2. ~Send /\ ~AppendStep
      BY DEF Send, ScheduleSend, RejectSend, AppendStep, TakeNextBuffer,
             AggressiveWrite, AggressivePartial, AppendOnly, TakeBuffer, AppendDone,
             stateVars
    <3>3. ~SkipInitiate /\ ~StartLargeWrite /\ \A k : ~SyncWriteWouldBlock(k)
      BY DEF SkipInitiate, StartLargeWrite, SyncWriteWouldBlock, StartAsyncWrite,
             stateVars
    <3>4. \A k : ~SyncWriteError(k)
      BY <3>1 DEF SyncWriteError, AfterWriteError
    <3>5. ~AsyncFail /\ \A k : ~AsyncTransfer(k)
      BY DEF AsyncFail, AsyncTransfer, stateVars
    <3>6. ~TimerExpires /\ ~StartReading /\ ~StopReading /\ ~Release
          /\ \A h : ~ResetShutdownHandler(h)
      BY DEF TimerExpires, StartReading, StopReading, Release, ResetShutdownHandler,
             stateVars
    <3>7. ~Shutdown
      BY <3>1 DEF Shutdown
    <3> QED BY <3>2, <3>3, <3>4, <3>5, <3>6, <3>7 DEF AnyTime
  <2> QED BY <1>3, <2>1 DEF Inner, HandlerOfItsOwn
<1> QED BY <1>3, <1>4, TimeoutStep DEF CbInv, CbWatchInv, WatchInv

(* after_write's own steps shut nothing down and start no read. *)
LEMMA AfterWriteKeeps ==
  ASSUME AfterWriteSuccess
  PROVE  UNCHANGED <<stateVars, readVars>>
BY DEF AfterWriteSuccess, SyncWriteAllCalls, AsyncWriteDoneCalls, AfterWriteCalls,
       RunNextCallback, CallbackReturns, CallbacksDone

(* The theorems of Connection hold of ConnectionCallbacks too, as long as     *)
(* only callbacks of asynchronous writes call back: then the running flag is *)
(* still set, and what a callback sends waits behind the item that is being   *)
(* finished.  A callback of a synchronous write that sends finds the flag     *)
(* clear and writes past that item or writes it again.                        *)

(* The invariant of the connection in the middle of after_write: the item    *)
(* in front is written, and exactly its callbacks that are left in the frame *)
(* may be unanswered.                                                        *)
THEOREM CbInvariant ==
  ASSUME CallbackSends \subseteq {"async"}
  PROVE  CbSpec => []CbInv
<1>1. CbInv /\ [CbNext]_cbVars => CbInv'
  BY CbNextKeeps
<1> QED BY <1>1, CbInitHolds, PTL DEF CbSpec

(* The peer receives the accepted bytes in order, none twice and none        *)
(* skipped, although callbacks send in the middle of after_write.            *)
THEOREM CbStreamIsOrdered ==
  ASSUME CallbackSends \subseteq {"async"}
  PROVE  CbSpec => []StreamInOrder
<1>1. CbInv => StreamInOrder
  BY DEF CbInv, QueueInv
<1> QED BY <1>1, CbInvariant, PTL

(* The queue is never empty and its back never frozen, in callbacks too.     *)
THEOREM CbQueueIsShaped ==
  ASSUME CallbackSends \subseteq {"async"}
  PROVE  CbSpec => []QueueShape
<1>1. CbInv => QueueShape
  BY DEF CbInv, QueueInv
<1> QED BY <1>1, CbInvariant, PTL

(* No byte is forgotten: what callbacks queued is written when after_write   *)
(* has taken the finished item off the queue.                                *)
THEOREM CbNothingIsStuck ==
  ASSUME CallbackSends \subseteq {"async"}
  PROVE  CbSpec => []NothingStuck
<1>1. CbInv => NothingStuck
  BY DEF CbInv, StreamInv, FrameInv, InSync, NothingStuck
<1> QED BY <1>1, CbInvariant, PTL

(* A callback hears success only when its send is written: the loop over the *)
(* callbacks of an item begins when its last byte is on the wire.            *)
THEOREM CbSuccessIsTold ==
  ASSUME CallbackSends \subseteq {"async"}
  PROVE  CbSpec => []SuccessMeansWritten
<1>1. CbInv => SuccessMeansWritten
  BY DEF CbInv, CallbackInv
<1> QED BY <1>1, CbInvariant, PTL

(* Callbacks are called in the order of the sends: what a callback itself    *)
(* sends waits behind the items whose callbacks are still to be called.      *)
THEOREM CbCallbacksInOrder ==
  ASSUME CallbackSends \subseteq {"async"}
  PROVE  CbSpec => []AnsweredInOrder
<1>1. CbInv => AnsweredInOrder
  BY DEF CbInv, CallbackInv
<1> QED BY <1>1, CbInvariant, PTL

(* When the connection is gone every callback given to it was called.        *)
THEOREM CbEveryCallbackIsCalled ==
  ASSUME CallbackSends \subseteq {"async"}
  PROVE  CbSpec => []NoCallbackLost
<1>1. CbInv => NoCallbackLost
  BY DEF CbInv, CallbackInv
<1> QED BY <1>1, CbInvariant, PTL

(* No step of a callback moves a byte but the next one in order: the byte    *)
(* stream is implemented by ConnectionCallbacks as well.                     *)
THEOREM CbImplementsStream ==
  ASSUME CallbackSends \subseteq {"async"}
  PROVE  CbSpec => ImplementsStream
<1>1. CbInit => Stream!Init
  BY DEF CbInit, Init, Stream!Init
<1>2. CbInv /\ [CbNext]_cbVars => [Stream!Next]_(Stream!streamVars)
  BY CbStreamStep
<1> QED BY <1>1, <1>2, CbInvariant, PTL DEF CbSpec, ImplementsStream, Stream!Spec

(* No late timer shuts the connection down, whatever callbacks do: while     *)
(* they run, with the running flag set and no write outstanding, no timeout  *)
(* handler does.                                                             *)
THEOREM CbTimeoutIsNeverLate ==
  ASSUME CallbackSends \subseteq {"async"}
  PROVE  CbSpec => NoSpuriousTimeout
<1>1. CbInit => CbWatchInv
  BY WatchInit DEF CbInit, CbWatchInv, WatchInv
<1>2. CbInv /\ CbWatchInv /\ [CbNext]_cbVars => CbWatchInv'
  BY CbWatchNext
<1>3. CbInv /\ CbWatchInv /\ [CbNext]_cbVars
        => [shutReason = "none" /\ shutReason' = "write_timeout"
              => aw.st # "none" /\ \E t \in timeouts \ timeouts' : t.op = aw.op]_vars
  BY CbTimeoutStep
<1> QED BY <1>1, <1>2, <1>3, CbInvariant, PTL DEF CbSpec, NoSpuriousTimeout

(* Shutdown happens once, whichever completion callbacks call back: one that *)
(* shuts the connection down comes first or changes nothing.  The shutdown   *)
(* handler is called as above.                                               *)
THEOREM CbShutdownHappensOnce == CbSpec => ShutdownOnce
<1>1. UNCHANGED stateVars => ToldOnce
  BY DEF ToldOnce, stateVars
<1>2. [CbNext]_cbVars => [ToldOnce]_vars
  BY <1>1, CbSteps, AfterWriteKeeps, ShutdownOnceNext DEF cbVars
<1> QED BY <1>2, PTL DEF CbSpec, ShutdownOnce, ToldOnce

(* The read buffer has one owner: callbacks may start reading, but not twice. *)
THEOREM CbReadBufferHasOneOwner ==
  ASSUME CallbackSends \subseteq {"async"}, "restart_reading" \notin UserOps
  PROVE  CbSpec => []ReadBufferOwned
<1>1. CbInit => ReadBufferOwned
  BY DEF CbInit, Init, ReadBufferOwned
<1>2. CbInv /\ ReadBufferOwned /\ [CbNext]_cbVars => ReadBufferOwned'
  <2>1. SUFFICES ASSUME CbInv, ReadBufferOwned, [CbNext]_cbVars
                 PROVE  ReadBufferOwned'
    OBVIOUS
  <2>2. CASE UNCHANGED readVars
    BY <2>1, <2>2 DEF ReadBufferOwned, readVars
  <2>3. CASE Next
    BY <2>1, <2>3, ReadBufferOwnedNext DEF CbInv
  <2>4. CASE UNCHANGED cbVars
    BY <2>2, <2>4 DEF cbVars, vars
  <2> QED BY <2>1, <2>2, <2>3, <2>4, CbSteps, AfterWriteKeeps
<1> QED BY <1>1, <1>2, CbInvariant, PTL DEF CbSpec
=============================================================================
