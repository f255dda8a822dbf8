-------------------------- MODULE EndpointsProofs --------------------------
(***************************************************************************)
(* The safety properties of Endpoints, for every bound.  The components    *)
(* share no variable but the thread's, so each invariant is preserved by   *)
(* the steps of its own component, and by all others that leave its        *)
(* variables alone.  The acceptor's rests on the order of its queue: the   *)
(* calls in it are the latest ones and unanswered, so that the call which  *)
(* is answered next is later than all that were answered before.           *)
(***************************************************************************)
EXTENDS Endpoints, TLAPS

Calls == [op : {"open", "close"}, res : Outcomes]

AcceptorType ==
  /\ acceptor \in {"closed", "open", "listening"}
  /\ accepts \in Nat /\ acceptQ \in Seq(AcceptEntry) /\ conns \in 0..MaxConns
  /\ calls \in Seq(Calls)

AcceptorInv == AcceptorType /\ CallsQueued(acceptQ, calls) /\ AcceptorServes /\ AnswersAreTrue

-----------------------------------------------------------------------------
(* Queues                                                                    *)

LEMMA TailOfQueue ==
  ASSUME NEW S, NEW q \in Seq(S), q # <<>>
  PROVE  /\ q[1] \in S /\ Head(q) = q[1] /\ 1 \in DOMAIN q
         /\ Tail(q) \in Seq(S) /\ Len(Tail(q)) = Len(q) - 1 /\ Len(q) \in Nat \ {0}
         /\ \A i \in 1..(Len(q) - 1) : Tail(q)[i] = q[i + 1]
  OBVIOUS

(* What Append does to a queue.                                              *)
LEMMA AppendToQueue ==
  ASSUME NEW S, NEW q \in Seq(S), NEW e \in S
  PROVE  /\ Append(q, e) \in Seq(S) /\ Len(Append(q, e)) = Len(q) + 1 /\ Len(q) \in Nat
         /\ \A i \in 1..Len(q) : Append(q, e)[i] = q[i]
         /\ Append(q, e)[Len(q) + 1] = e
  OBVIOUS

Filled(q, n, e) == q \o [i \in 1..n |-> e]

(* The sequence f is q with n times e behind it. *)
IsFilled(f, q, n, e) ==
  /\ Len(f) = Len(q) + n
  /\ \A i \in 1..Len(q) : f[i] = q[i]
  /\ \A i \in (Len(q) + 1)..(Len(q) + n) : f[i] = e

(* A queue filled up is a queue, and as Filled says.                         *)
LEMMA FillQueue ==
  ASSUME NEW S, NEW q \in Seq(S), NEW e \in S, NEW n \in Nat
  PROVE  Filled(q, n, e) \in Seq(S) /\ IsFilled(Filled(q, n, e), q, n, e)
<1> DEFINE t == [i \in 1..n |-> e]
<1>1. t \in Seq(S) /\ Len(t) = n
  OBVIOUS
<1> HIDE DEF t
<1>2. Len(q \o t) = Len(q) + n /\ q \o t \in Seq(S) /\ Len(q) \in Nat
  BY <1>1
<1>3. \A i \in 1..Len(q) : (q \o t)[i] = q[i]
  BY <1>1
<1>4. \A i \in (Len(q) + 1)..(Len(q) + n) : (q \o t)[i] = t[i - Len(q)]
  BY <1>1
<1>5. \A i \in (Len(q) + 1)..(Len(q) + n) : t[i - Len(q)] = e
  BY <1>2 DEF t
<1> QED
  BY <1>2, <1>3, <1>4, <1>5 DEF t, Filled, IsFilled

(* The queue r is what is left of q, with ends of accepts behind it. *)
Follows(q, r) ==
  /\ Len(r) >= Len(q) - 1
  /\ \A i \in 1..(Len(q) - 1) : r[i] = q[i + 1]
  /\ \A i \in Len(q)..Len(r) : r[i].call = 0 /\ r[i].kind \in {"error", "aborted"}

(* Taking the head off a queue and answering it keeps the calls in order. *)
LEMMA CallsStayQueued ==
  ASSUME NEW q \in Seq(AcceptEntry), NEW r \in Seq(AcceptEntry), q # <<>>,
         Follows(q, r),
         NEW cs \in Seq(Calls), NEW ds \in Seq(Calls), Len(ds) = Len(cs),
         CallsQueued(q, cs),
         \A n \in DOMAIN cs : ds[n].op = cs[n].op /\ (n # q[1].call => ds[n] = cs[n])
  PROVE  CallsQueued(r, ds)
<1>1. Len(q) \in Nat \ {0} /\ Len(r) \in Nat /\ DOMAIN q = 1..Len(q) /\ DOMAIN r = 1..Len(r)
      /\ DOMAIN ds = DOMAIN cs /\ 1 \in DOMAIN q
  OBVIOUS
<1>2. \A i \in DOMAIN q : q[i].call \in Nat
  <2>1. \A i \in DOMAIN q : q[i] \in AcceptEntry
    BY <1>1
  <2>2. \A e \in AcceptEntry : e.call \in Nat
    BY AcceptorAssumption DEF AcceptEntry
  <2> QED
    BY <2>1, <2>2
<1>3. \A i \in DOMAIN r : (i + 1 \in DOMAIN q /\ r[i] = q[i + 1])
                       \/ (r[i].call = 0 /\ r[i].kind \in {"error", "aborted"})
  BY <1>1 DEF Follows
<1>4. \A i \in DOMAIN r : r[i].call # 0 => i + 1 \in DOMAIN q /\ r[i] = q[i + 1]
  BY <1>3
<1>5. \A i \in DOMAIN r : r[i].call = 0 <=> r[i].kind \notin {"open", "close"}
  BY <1>3 DEF CallsQueued
<1>6. ASSUME NEW i \in DOMAIN r, r[i].call # 0
      PROVE  /\ r[i].call \in DOMAIN ds /\ ds[r[i].call].op = r[i].kind
             /\ \A n \in DOMAIN ds : n >= r[i].call => ds[n].res = "none"
  <2>1. i + 1 \in DOMAIN q /\ r[i] = q[i + 1] /\ 1 < i + 1
    BY <1>1, <1>4, <1>6
  <2>2. r[i].call \in DOMAIN cs /\ cs[r[i].call].op = r[i].kind
        /\ \A n \in DOMAIN cs : n >= r[i].call => cs[n].res = "none"
    BY <1>6, <2>1 DEF CallsQueued
  <2>3. q[1].call # 0 => q[1].call < r[i].call
    BY <1>1, <1>6, <2>1 DEF CallsQueued
  <2>4. \A n \in DOMAIN cs : n >= r[i].call => n # q[1].call
    BY <1>1, <1>2, <2>1, <2>3
  <2> QED
    BY <1>1, <2>2, <2>4
<1>7. ASSUME NEW i \in DOMAIN r, NEW j \in DOMAIN r, i < j, r[i].call # 0, r[j].call # 0
      PROVE  r[i].call < r[j].call
  <2>1. i + 1 \in DOMAIN q /\ r[i] = q[i + 1] /\ j + 1 \in DOMAIN q /\ r[j] = q[j + 1]
        /\ i + 1 < j + 1
    BY <1>1, <1>4, <1>7
  <2> QED
    BY <1>7, <2>1 DEF CallsQueued
<1> QED
  BY <1>5, <1>6, <1>7 DEF CallsQueued

-----------------------------------------------------------------------------
(* The acceptor                                                              *)

LEMMA HeadIsAnswered ==
  ASSUME AcceptorType, acceptQ # <<>>, NEW res \in Outcomes,
         Head(acceptQ).call \in DOMAIN calls, Answer(res)
  PROVE  /\ calls' \in Seq(Calls) /\ Len(calls') = Len(calls) /\ DOMAIN calls' = DOMAIN calls
         /\ \A n \in DOMAIN calls : calls'[n].op = calls[n].op
         /\ \A n \in DOMAIN calls : n # acceptQ[1].call => calls'[n] = calls[n]
         /\ calls'[acceptQ[1].call].res = res
<1> DEFINE k == Head(acceptQ).call
<1>1. k \in DOMAIN calls /\ calls \in Seq(Calls) /\ k = acceptQ[1].call
  BY DEF AcceptorType
<1>2. calls' = [calls EXCEPT ![k] = [calls[k] EXCEPT !.res = res]]
  BY DEF Answer
<1>3. calls[k] \in Calls
  BY <1>1
<1>4. [calls[k] EXCEPT !.res = res] \in Calls /\ [calls[k] EXCEPT !.res = res].op = calls[k].op
      /\ [calls[k] EXCEPT !.res = res].res = res
  BY <1>3 DEF Calls
<1> DEFINE c == [calls[k] EXCEPT !.res = res]
<1> HIDE DEF k, c
<1>5. calls' = [calls EXCEPT ![k] = c] /\ c \in Calls
  BY <1>2, <1>4 DEF c
<1>6. calls' \in Seq(Calls) /\ Len(calls') = Len(calls) /\ DOMAIN calls' = DOMAIN calls
      /\ calls'[k] = c /\ \A n \in DOMAIN calls : n # k => calls'[n] = calls[n]
  BY <1>1, <1>5
<1>7. c.op = calls[k].op /\ c.res = res
  BY <1>4 DEF c
<1> QED
  BY <1>1, <1>6, <1>7

(* Every handler leaves one of these queues behind. *)
LEMMA QueueFollows ==
  ASSUME NEW q \in Seq(AcceptEntry), q # <<>>,
         NEW n \in Nat, NEW kind \in {"error", "aborted"}
  PROVE  /\ Tail(q) \in Seq(AcceptEntry) /\ Follows(q, Tail(q))
         /\ LET r == Append(Tail(q), Entry(kind, 0))
            IN  /\ r \in Seq(AcceptEntry) /\ Follows(q, r)
                /\ Len(q) \in DOMAIN r /\ r[Len(q)].kind = kind
         /\ LET r == Filled(Tail(q), n, Entry(kind, 0))
            IN  r \in Seq(AcceptEntry) /\ Follows(q, r)
<1> DEFINE t == Tail(q)
           e == Entry(kind, 0)
           f == Filled(t, n, e)
<1>1. /\ t \in Seq(AcceptEntry) /\ Len(t) = Len(q) - 1 /\ Len(q) \in Nat \ {0}
      /\ \A i \in 1..(Len(q) - 1) : t[i] = q[i + 1]
  BY TailOfQueue
<1>2. e \in AcceptEntry /\ e.call = 0 /\ e.kind = kind
  BY AcceptorAssumption DEF Entry, AcceptEntry
<1> HIDE DEF t, e
<1>3. Follows(q, t)
  BY <1>1 DEF Follows
<1>4. /\ Append(t, e) \in Seq(AcceptEntry) /\ Follows(q, Append(t, e))
      /\ Len(q) \in DOMAIN Append(t, e) /\ Append(t, e)[Len(q)] = e
  <2>1. /\ Append(t, e) \in Seq(AcceptEntry) /\ Len(Append(t, e)) = Len(q)
        /\ \A i \in 1..(Len(q) - 1) : Append(t, e)[i] = t[i]
        /\ Append(t, e)[Len(q)] = e
    BY <1>1, <1>2, AppendToQueue
  <2> HIDE DEF t
  <2>2. Follows(q, Append(t, e))
    BY <1>1, <1>2, <2>1, SMTT(20) DEF Follows
  <2> QED
    BY <1>1, <2>1, <2>2
<1>5. f \in Seq(AcceptEntry) /\ Follows(q, f)
  <2>1. /\ f \in Seq(AcceptEntry) /\ Len(f) = Len(q) - 1 + n
        /\ \A i \in 1..(Len(q) - 1) : f[i] = t[i]
        /\ \A i \in Len(q)..(Len(q) - 1 + n) : f[i] = e
    <3>1. t \in Seq(AcceptEntry) /\ e \in AcceptEntry /\ n \in Nat
      BY <1>1, <1>2
    <3>2. f \in Seq(AcceptEntry) /\ IsFilled(f, t, n, e)
      BY <3>1, FillQueue
    <3> HIDE DEF f
    <3> QED
      BY <1>1, <3>2 DEF IsFilled
  <2> HIDE DEF f
  <2> QED
    BY <1>1, <1>2, <2>1 DEF Follows
<1> QED
  BY <1>1, <1>2, <1>3, <1>4, <1>5 DEF t, e, f

(* The last call that succeeded is an open(). *)
LastIsOpen(cs) ==
  \E n \in DOMAIN cs :
    /\ cs[n].res = "success" /\ cs[n].op = "open"
    /\ \A m \in DOMAIN cs : cs[m].res = "success" => m <= n

(* What the acceptor is said to be changes with a success only. *)
LEMMA CallIsAnswered ==
  ASSUME AcceptorInv, acceptQ # <<>>, Head(acceptQ).kind \in {"open", "close"},
         NEW res \in Outcomes, res # "none", Answer(res),
         acceptQ' \in Seq(AcceptEntry), Follows(acceptQ, acceptQ')
  PROVE  /\ calls' \in Seq(Calls) /\ CallsQueued(acceptQ, calls)'
         /\ res # "success" => (LastIsOpen(calls)' <=> LastIsOpen(calls))
         /\ res = "success" => (LastIsOpen(calls)' <=> Head(acceptQ).kind = "open")
<1> DEFINE k == acceptQ[1].call
<1>1. acceptQ \in Seq(AcceptEntry) /\ calls \in Seq(Calls) /\ CallsQueued(acceptQ, calls)
  BY DEF AcceptorInv, AcceptorType
<1>2. Head(acceptQ) = acceptQ[1] /\ 1 \in DOMAIN acceptQ
  BY <1>1, TailOfQueue
<1>3. /\ k \in DOMAIN calls /\ calls[k].op = acceptQ[1].kind
      /\ \A m \in DOMAIN calls : m >= k => calls[m].res = "none"
  BY <1>1, <1>2 DEF CallsQueued
<1>4. /\ calls' \in Seq(Calls) /\ Len(calls') = Len(calls) /\ DOMAIN calls' = DOMAIN calls
      /\ \A m \in DOMAIN calls : calls'[m].op = calls[m].op
      /\ \A m \in DOMAIN calls : m # k => calls'[m] = calls[m]
      /\ calls'[k].res = res
  BY <1>2, <1>3, HeadIsAnswered DEF AcceptorInv
<1>5. CallsQueued(acceptQ, calls)'
  <2> DEFINE q == acceptQ  r == acceptQ'  cs == calls  ds == calls'
  <2>1. q \in Seq(AcceptEntry) /\ r \in Seq(AcceptEntry) /\ q # <<>> /\ Follows(q, r)
    BY <1>1
  <2>2. /\ cs \in Seq(Calls) /\ ds \in Seq(Calls) /\ Len(ds) = Len(cs) /\ CallsQueued(q, cs)
        /\ \A m \in DOMAIN cs : ds[m].op = cs[m].op /\ (m # q[1].call => ds[m] = cs[m])
    BY <1>1, <1>4
  <2> HIDE DEF q, r, cs, ds
  <2>3. CallsQueued(r, ds)
    BY <2>1, <2>2, CallsStayQueued
  <2> QED
    BY <2>3 DEF r, ds, CallsQueued
<1> HIDE DEF k
<1>6. k \in Int /\ DOMAIN calls \subseteq Int
  BY <1>1, <1>3
<1>7. calls[k].res = "none"
  BY <1>3, <1>6
<1>8. ASSUME res # "success" PROVE LastIsOpen(calls)' <=> LastIsOpen(calls)
  <2>1. \A m \in DOMAIN calls : (calls'[m].res = "success") <=> (calls[m].res = "success")
    BY <1>4, <1>7, <1>8
  <2> QED
    BY <1>4, <2>1 DEF LastIsOpen
<1>9. ASSUME res = "success" PROVE LastIsOpen(calls)' <=> Head(acceptQ).kind = "open"
  <2>1. \A m \in DOMAIN calls : calls'[m].res = "success" => m <= k
    BY <1>3, <1>4, <1>6
  <2>2. calls'[k].res = "success" /\ calls'[k].op = Head(acceptQ).kind
    BY <1>2, <1>3, <1>4, <1>9
  <2>3. \A n \in DOMAIN calls : (\A m \in DOMAIN calls : calls'[m].res = "success" => m <= n)
                                /\ calls'[n].res = "success" => n = k
    BY <1>3, <1>6, <2>1, <2>2
  <2> QED
    BY <1>3, <1>4, <2>1, <2>2, <2>3 DEF LastIsOpen
<1> QED
  BY <1>4, <1>5, <1>8, <1>9

(* A handler that answers nobody leaves the calls in order as well. *)
LEMMA NobodyIsAnswered ==
  ASSUME AcceptorInv, acceptQ # <<>>, calls' = calls,
         acceptQ' \in Seq(AcceptEntry), Follows(acceptQ, acceptQ')
  PROVE  CallsQueued(acceptQ, calls)' /\ (LastIsOpen(calls)' <=> LastIsOpen(calls))
<1> DEFINE q == acceptQ  r == acceptQ'  cs == calls
<1>1. /\ q \in Seq(AcceptEntry) /\ r \in Seq(AcceptEntry) /\ q # <<>> /\ Follows(q, r)
      /\ cs \in Seq(Calls) /\ CallsQueued(q, cs)
  BY DEF AcceptorInv, AcceptorType
<1> HIDE DEF q, r, cs
<1>2. CallsQueued(r, cs)
  BY <1>1, CallsStayQueued
<1> QED
  BY <1>2 DEF r, cs, CallsQueued, LastIsOpen

(* The answers are true when the last of them agrees with the acceptor.      *)
LEMMA AnswersMeanOpen == AnswersAreTrue <=> (acceptor = "listening" <=> LastIsOpen(calls))
  BY DEF AnswersAreTrue, LastIsOpen

-----------------------------------------------------------------------------
(* The steps of the acceptor                                                 *)

LEMMA CallKeeps ==
  ASSUME AcceptorInv, NEW op \in {"open", "close"}, Call(op)
  PROVE  AcceptorInv'
<1> DEFINE c == [op |-> op, res |-> "none"]
           e == Entry(op, Len(calls) + 1)
<1>1. /\ acceptQ \in Seq(AcceptEntry) /\ calls \in Seq(Calls) /\ Len(calls) < MaxCalls
      /\ CallsQueued(acceptQ, calls) /\ AcceptorServes /\ AnswersAreTrue /\ AcceptorType
      /\ calls' = Append(calls, c) /\ acceptQ' = Append(acceptQ, e)
      /\ UNCHANGED <<acceptor, accepts, conns>>
  BY DEF AcceptorInv, AcceptorType, Call
<1>2. c \in Calls /\ c.res = "none" /\ c.op = op
  BY DEF Calls, Outcomes
<1>3. /\ calls' \in Seq(Calls) /\ Len(calls') = Len(calls) + 1 /\ Len(calls) \in Nat
      /\ \A i \in 1..Len(calls) : calls'[i] = calls[i]
      /\ calls'[Len(calls) + 1] = c
  BY <1>1, <1>2, AppendToQueue
<1>4. e \in AcceptEntry /\ e.call = Len(calls) + 1 /\ e.kind = op
  BY <1>1, <1>3, AcceptorAssumption DEF Entry, AcceptEntry
<1> HIDE DEF c, e
<1>5. /\ acceptQ' \in Seq(AcceptEntry) /\ Len(acceptQ') = Len(acceptQ) + 1 /\ Len(acceptQ) \in Nat
      /\ \A i \in 1..Len(acceptQ) : acceptQ'[i] = acceptQ[i]
      /\ acceptQ'[Len(acceptQ) + 1] = e
  BY <1>1, <1>4, AppendToQueue
<1>6. /\ DOMAIN acceptQ = 1..Len(acceptQ) /\ DOMAIN acceptQ' = 1..(Len(acceptQ) + 1)
      /\ DOMAIN calls = 1..Len(calls) /\ DOMAIN calls' = 1..(Len(calls) + 1)
  BY <1>1, <1>3, <1>5
<1>7. CallsQueued(acceptQ', calls')
  <2>1. \A i \in DOMAIN acceptQ' : (i \in DOMAIN acceptQ /\ acceptQ'[i] = acceptQ[i])
                                \/ (i = Len(acceptQ) + 1 /\ acceptQ'[i] = e)
    BY <1>5, <1>6
  <2>2. \A n \in DOMAIN calls' : (n \in DOMAIN calls /\ calls'[n] = calls[n])
                              \/ (n = Len(calls) + 1 /\ calls'[n] = c)
    BY <1>3, <1>6
  <2>3. \A i \in DOMAIN acceptQ' : acceptQ'[i].call = 0 <=> acceptQ'[i].kind \notin {"open", "close"}
    BY <1>1, <1>3, <1>4, <2>1 DEF CallsQueued
  <2>4. ASSUME NEW i \in DOMAIN acceptQ', acceptQ'[i].call # 0
        PROVE  /\ acceptQ'[i].call \in DOMAIN calls'
               /\ calls'[acceptQ'[i].call].op = acceptQ'[i].kind
               /\ \A n \in DOMAIN calls' : n >= acceptQ'[i].call => calls'[n].res = "none"
    <3>1. CASE i \in DOMAIN acceptQ /\ acceptQ'[i] = acceptQ[i]
      <4> DEFINE k == acceptQ[i].call
      <4>1. /\ k \in DOMAIN calls /\ calls[k].op = acceptQ[i].kind
            /\ \A n \in DOMAIN calls : n >= k => calls[n].res = "none"
        BY <1>1, <2>4, <3>1 DEF CallsQueued
      <4> HIDE DEF k
      <4>2. k \in DOMAIN calls' /\ calls'[k] = calls[k]
        BY <1>3, <1>6, <4>1
      <4>3. \A n \in DOMAIN calls' : n >= k => calls'[n].res = "none"
        BY <1>2, <2>2, <4>1
      <4> QED
        BY <3>1, <4>1, <4>2, <4>3 DEF k
    <3>2. CASE acceptQ'[i] = e
      BY <1>2, <1>3, <1>4, <1>6, <3>2
    <3> QED
      BY <2>1, <3>1, <3>2
  <2>5. ASSUME NEW i \in DOMAIN acceptQ', NEW j \in DOMAIN acceptQ', i < j,
               acceptQ'[i].call # 0, acceptQ'[j].call # 0
        PROVE  acceptQ'[i].call < acceptQ'[j].call
    <3>1. i \in DOMAIN acceptQ /\ acceptQ'[i] = acceptQ[i]
      BY <1>5, <1>6, <2>5
    <3>2. CASE j \in DOMAIN acceptQ /\ acceptQ'[j] = acceptQ[j]
      BY <1>1, <2>5, <3>1, <3>2 DEF CallsQueued
    <3>3. CASE acceptQ'[j] = e
      <4>1. acceptQ[i].call \in DOMAIN calls
        BY <1>1, <2>5, <3>1 DEF CallsQueued
      <4> QED
        BY <1>3, <1>4, <1>6, <3>1, <3>3, <4>1
    <3> QED
      BY <2>1, <3>2, <3>3
  <2> QED
    BY <2>3, <2>4, <2>5 DEF CallsQueued
<1>8. CallsQueued(acceptQ, calls)'
  BY <1>7 DEF CallsQueued
<1>9. AcceptorServes'
  BY <1>1, <1>5, <1>6 DEF AcceptorServes
<1>10. AnswersAreTrue'
  <2>1. LastIsOpen(calls)' <=> LastIsOpen(calls)
    <3>1. /\ \A n \in DOMAIN calls : n \in DOMAIN calls' /\ calls'[n] = calls[n]
          /\ \A n \in DOMAIN calls' : calls'[n].res = "success" => n \in DOMAIN calls
      BY <1>2, <1>3, <1>6
    <3> QED
      BY <3>1 DEF LastIsOpen
  <2> QED
    BY <1>1, <2>1 DEF AnswersAreTrue, LastIsOpen
<1> QED
  BY <1>1, <1>3, <1>5, <1>8, <1>9, <1>10 DEF AcceptorInv, AcceptorType

(* The completion of an accept keeps the acceptor's invariant.               *)
LEMMA AcceptCompletesKeeps ==
  ASSUME AcceptorInv, NEW kind \in {"accepted", "error"}, AcceptCompletes(kind)
  PROVE  AcceptorInv'
<1> DEFINE e == Entry(kind, 0)
<1>1. /\ acceptQ \in Seq(AcceptEntry) /\ calls \in Seq(Calls)
      /\ CallsQueued(acceptQ, calls) /\ AnswersAreTrue /\ AcceptorType
      /\ acceptQ' = Append(acceptQ, e) /\ UNCHANGED <<acceptor, calls>>
      /\ conns < MaxConns /\ conns' = conns + 1 /\ accepts > 0 /\ accepts' = accepts - 1
  BY DEF AcceptorInv, AcceptorType, AcceptCompletes
<1>2. e \in AcceptEntry /\ e.call = 0 /\ e.kind = kind
  BY AcceptorAssumption DEF Entry, AcceptEntry
<1> HIDE DEF e
<1>3. /\ acceptQ' \in Seq(AcceptEntry) /\ Len(acceptQ') = Len(acceptQ) + 1 /\ Len(acceptQ) \in Nat
      /\ \A i \in 1..Len(acceptQ) : acceptQ'[i] = acceptQ[i]
      /\ acceptQ'[Len(acceptQ) + 1] = e
  BY <1>1, <1>2, AppendToQueue
<1>4. \A i \in DOMAIN acceptQ' : (i \in DOMAIN acceptQ /\ acceptQ'[i] = acceptQ[i])
                              \/ (i = Len(acceptQ) + 1 /\ acceptQ'[i] = e)
  BY <1>1, <1>3
<1>5. CallsQueued(acceptQ, calls)'
  <2>1. \A i \in DOMAIN acceptQ' : acceptQ'[i].call # 0 =>
          i \in DOMAIN acceptQ /\ acceptQ'[i] = acceptQ[i]
    BY <1>2, <1>4
  <2>2. \A i \in DOMAIN acceptQ' : acceptQ'[i].call = 0 <=> acceptQ'[i].kind \notin {"open", "close"}
    BY <1>1, <1>2, <1>4 DEF CallsQueued
  <2> QED
    BY <1>1, <2>1, <2>2 DEF CallsQueued
<1>6. AcceptorServes'
  BY <1>2, <1>3 DEF AcceptorServes
<1>7. AnswersAreTrue'
  BY <1>1 DEF AnswersAreTrue
<1> QED
  BY <1>1, <1>3, <1>5, <1>6, <1>7, AcceptorAssumption DEF AcceptorInv, AcceptorType

(* A handler of the acceptor takes the head; if it answers a call, the      *)
(* invariant needs AcceptorServes and the meaning of the answer only.       *)
LEMMA HandlerKeeps ==
  ASSUME AcceptorInv, acceptQ # <<>>, AcceptorServes',
         accepts' \in Nat, acceptor' \in {"closed", "open", "listening"}, conns' = conns,
         acceptQ' \in Seq(AcceptEntry), Follows(acceptQ, acceptQ'),
         \/ /\ calls' = calls
            /\ acceptor' = "listening" <=> acceptor = "listening"
         \/ \E res \in Outcomes :
              /\ Head(acceptQ).kind \in {"open", "close"} /\ res # "none" /\ Answer(res)
              /\ res # "success" => (acceptor' = "listening" <=> acceptor = "listening")
              /\ res = "success" => (acceptor' = "listening" <=> Head(acceptQ).kind = "open")
  PROVE  AcceptorInv'
<1>1. AnswersAreTrue <=> (acceptor = "listening" <=> LastIsOpen(calls))
  BY DEF AnswersAreTrue, LastIsOpen
<1>2. AnswersAreTrue' <=> (acceptor' = "listening" <=> LastIsOpen(calls)')
  BY DEF AnswersAreTrue, LastIsOpen
<1>3. AnswersAreTrue /\ AcceptorType
  BY DEF AcceptorInv
<1>4. CASE calls' = calls /\ (acceptor' = "listening" <=> acceptor = "listening")
  <2>1. CallsQueued(acceptQ, calls)' /\ (LastIsOpen(calls)' <=> LastIsOpen(calls))
    BY <1>4, NobodyIsAnswered
  <2> QED
    BY <1>1, <1>2, <1>3, <1>4, <2>1 DEF AcceptorInv, AcceptorType
<1>5. ASSUME NEW res \in Outcomes,
             Head(acceptQ).kind \in {"open", "close"}, res # "none", Answer(res),
             res # "success" => (acceptor' = "listening" <=> acceptor = "listening"),
             res = "success" => (acceptor' = "listening" <=> Head(acceptQ).kind = "open")
      PROVE  AcceptorInv'
  <2>1. /\ calls' \in Seq(Calls) /\ CallsQueued(acceptQ, calls)'
        /\ res # "success" => (LastIsOpen(calls)' <=> LastIsOpen(calls))
        /\ res = "success" => (LastIsOpen(calls)' <=> Head(acceptQ).kind = "open")
    BY <1>5, CallIsAnswered
  <2>2. AnswersAreTrue'
    BY <1>1, <1>2, <1>3, <1>5, <2>1
  <2> QED
    BY <1>3, <2>1, <2>2 DEF AcceptorInv, AcceptorType
<1> QED
  BY <1>4, <1>5

(* So do the acceptor's handlers.                                            *)
LEMMA AcceptorHandlerKeeps ==
  ASSUME AcceptorInv, AcceptorHandler
  PROVE  AcceptorInv'
<1>1. /\ acceptQ \in Seq(AcceptEntry) /\ accepts \in Nat /\ AcceptorServes
      /\ acceptor \in {"closed", "open", "listening"}
  BY DEF AcceptorInv, AcceptorType
<1>2. acceptQ # <<>>
  BY DEF AcceptorHandler, OpenImplAlreadyStarted, OpenImpl, OpenImplFails, CloseImpl,
         CloseImplNotRunning, LocalEndpointThrows, OnConnection,
         OnConnectionAborted, Runs
<1> DEFINE rest == Tail(acceptQ)
           again == Append(rest, Entry("error", 0))
           ended == Filled(rest, accepts, Entry("aborted", 0))
<1>3. /\ rest \in Seq(AcceptEntry) /\ Follows(acceptQ, rest)
      /\ again \in Seq(AcceptEntry) /\ Follows(acceptQ, again)
      /\ ended \in Seq(AcceptEntry) /\ Follows(acceptQ, ended)
  BY <1>1, <1>2, QueueFollows
<1>4. ended = rest \o [i \in 1..accepts |-> Entry("aborted", 0)]
  BY DEF Filled
<1>5. /\ Head(acceptQ) = acceptQ[1] /\ Len(acceptQ) \in Nat \ {0} /\ DOMAIN acceptQ = 1..Len(acceptQ)
      /\ DOMAIN rest = 1..(Len(acceptQ) - 1)
      /\ \A i \in 1..(Len(acceptQ) - 1) : rest[i] = acceptQ[i + 1]
  BY <1>1, <1>2, TailOfQueue
<1> HIDE DEF rest, again, ended
<1>6. \A i \in DOMAIN acceptQ : i # 1 => i - 1 \in DOMAIN rest /\ rest[i - 1] = acceptQ[i]
  BY <1>5
(* a handler that starts nothing leaves what will *)
<1>7. ASSUME acceptQ' = rest, UNCHANGED <<acceptor, accepts>>,
             Head(acceptQ).kind \notin {"accepted", "error"}
      PROVE  AcceptorServes'
  BY <1>1, <1>5, <1>6, <1>7 DEF AcceptorServes
<1>8. ASSUME acceptor' # "listening" PROVE AcceptorServes'
  BY <1>8 DEF AcceptorServes
<1>9. ASSUME accepts' = accepts + 1 PROVE AcceptorServes' /\ accepts' \in Nat
  BY <1>1, <1>9 DEF AcceptorServes
<1>10. AcceptNext(rest) => \/ acceptor' = "listening" /\ accepts' = accepts + 1 /\ acceptQ' = rest
                           \/ acceptor' # "listening" /\ accepts' = accepts /\ acceptQ' = again
  BY DEF AcceptNext, again
<1>11. CASE OpenImplAlreadyStarted
  <2>1. /\ Head(acceptQ).kind = "open" /\ Answer("already_started") /\ acceptQ' = rest
        /\ UNCHANGED <<acceptor, accepts, conns>>
    BY <1>11 DEF OpenImplAlreadyStarted, Runs, rest
  <2>2. AcceptorServes'
    BY <1>7, <2>1
  <2> QED
    BY <1>1, <1>2, <1>3, <2>1, <2>2, HandlerKeeps DEF Outcomes
<1>12. CASE OpenImpl
  <2>1. /\ Head(acceptQ).kind = "open" /\ Answer("success") /\ acceptor' = "listening"
        /\ AcceptNext(rest) /\ conns' = conns
    BY <1>12 DEF OpenImpl, Runs, rest
  <2>2. accepts' = accepts + 1 /\ acceptQ' = rest
    BY <1>10, <2>1
  <2> QED
    BY <1>2, <1>3, <1>9, <2>1, <2>2, HandlerKeeps DEF Outcomes
<1>13. CASE OpenImplFails
  <2>1. /\ Head(acceptQ).kind = "open" /\ Answer("exception_happened") /\ acceptQ' = rest
        /\ acceptor = "closed" /\ acceptor' \in {"closed", "open"}
        /\ UNCHANGED <<accepts, conns>>
    BY <1>13 DEF OpenImplFails, Runs, rest
  <2> QED
    BY <1>1, <1>2, <1>3, <1>8, <2>1, HandlerKeeps DEF Outcomes
<1>14. CASE CloseImpl
  <2>1. /\ Head(acceptQ).kind = "close" /\ Answer("success") /\ acceptQ' = ended
        /\ acceptor' = "closed" /\ accepts' = 0 /\ conns' = conns
    BY <1>4, <1>14 DEF CloseImpl, Runs, rest
  <2> QED
    BY <1>2, <1>3, <1>8, <2>1, HandlerKeeps DEF Outcomes
<1>15. CASE CloseImplNotRunning
  <2>1. /\ Head(acceptQ).kind = "close" /\ Answer("not_running") /\ acceptQ' = rest
        /\ UNCHANGED <<acceptor, accepts, conns>>
    BY <1>15 DEF CloseImplNotRunning, Runs, rest
  <2>2. AcceptorServes'
    BY <1>7, <2>1
  <2> QED
    BY <1>1, <1>2, <1>3, <2>1, <2>2, HandlerKeeps DEF Outcomes
<1>16. CASE OnConnection
  <2>1. UNCHANGED <<acceptor, calls, conns>> /\ AcceptNext(rest)
    BY <1>16 DEF OnConnection, rest
  <2> QED
    BY <1>1, <1>2, <1>3, <1>8, <1>9, <1>10, <2>1, HandlerKeeps
<1>17. CASE OnConnectionAborted
  <2>1. /\ Head(acceptQ).kind = "aborted" /\ acceptQ' = rest
        /\ UNCHANGED <<acceptor, accepts, calls, conns>>
    BY <1>17 DEF OnConnectionAborted, Runs, rest
  <2>2. AcceptorServes'
    BY <1>7, <2>1
  <2> QED
    BY <1>1, <1>2, <1>3, <2>1, <2>2, HandlerKeeps
<1>18. CASE LocalEndpointThrows
  <2>1. /\ Head(acceptQ).kind \in {"open", "close"} /\ Answer("exception_happened")
        /\ acceptQ' = rest /\ UNCHANGED <<acceptor, accepts, conns>>
    BY <1>18 DEF LocalEndpointThrows, Runs, rest
  <2>2. AcceptorServes'
    BY <1>7, <2>1
  <2> QED
    BY <1>1, <1>2, <1>3, <2>1, <2>2, HandlerKeeps DEF Outcomes
<1> QED
  BY <1>11, <1>12, <1>13, <1>14, <1>15, <1>16, <1>17, <1>18 DEF AcceptorHandler

-----------------------------------------------------------------------------
(* The UDP receiver                                                          *)

UdpEntry == {"receive", "cancel", "data", "error", "aborted"}
Leads == {"receive", "data", "error"}

UdpType ==
  /\ receiving \in BOOLEAN /\ receives \in Nat
  /\ udpQ \in Seq(UdpEntry)
  /\ switches \in 0..MaxSwitches /\ datagrams \in 0..MaxDatagrams

(* Something queued behind every cancel starts the next receive. *)
GoesOn(q) ==
  \E i \in DOMAIN q : q[i] \in Leads /\ \A c \in DOMAIN q : q[c] = "cancel" => c < i

(* What it means that a receiver listens, in terms of its queue.             *)
LEMMA ListensMeans ==
  ReceiverListens <=>
    (receiving => \/ receives > 0 /\ \A c \in DOMAIN udpQ : udpQ[c] # "cancel"
                  \/ GoesOn(udpQ))
  BY DEF ReceiverListens, GoesOn, Leads

(* Starting and stopping keep the receiver listening.                        *)
LEMMA UdpUserKeeps ==
  ASSUME UdpType, ReceiverListens, UdpUser
  PROVE  UdpType' /\ ReceiverListens'
<1>1. CASE StartListening
  <2>1. udpQ' = Append(udpQ, "receive") /\ udpQ \in Seq(UdpEntry) /\ "receive" \in UdpEntry
    BY <1>1 DEF StartListening, UdpType, UdpEntry
  <2>2. /\ udpQ' \in Seq(UdpEntry) /\ DOMAIN udpQ' = 1..(Len(udpQ) + 1) /\ Len(udpQ) \in Nat
        /\ udpQ'[Len(udpQ) + 1] = "receive"
    BY <2>1, AppendToQueue
  <2>3. GoesOn(udpQ')
    BY <2>2 DEF GoesOn, Leads
  <2>4. ReceiverListens'
    BY <2>3 DEF ReceiverListens, GoesOn, Leads
  <2>5. UdpType'
    BY <1>1, <2>2, UdpAssumption DEF UdpType, StartListening
  <2> QED
    BY <2>4, <2>5
<1>2. CASE StopListening
  <2>1. udpQ' = Append(udpQ, "cancel") /\ udpQ \in Seq(UdpEntry) /\ "cancel" \in UdpEntry
    BY <1>2 DEF StopListening, UdpType, UdpEntry
  <2>2. udpQ' \in Seq(UdpEntry)
    BY <2>1, AppendToQueue
  <2>3. ReceiverListens'
    BY <1>2 DEF StopListening, ReceiverListens
  <2>4. receiving' = FALSE /\ switches' = switches + 1 /\ switches < MaxSwitches
        /\ UNCHANGED <<receives, datagrams>>
    BY <1>2 DEF StopListening
  <2>5. switches' \in 0..MaxSwitches
    BY <2>4, UdpAssumption DEF UdpType
  <2>6. UdpType'
    BY <2>2, <2>4, <2>5 DEF UdpType
  <2> QED
    BY <2>3, <2>6
<1> QED
  BY <1>1, <1>2 DEF UdpUser

(* The completion of a receive does.                                         *)
LEMMA ReceiveCompletesKeeps ==
  ASSUME UdpType, ReceiverListens, NEW kind \in {"data", "error"}, ReceiveCompletes(kind)
  PROVE  UdpType' /\ ReceiverListens'
<1>1. udpQ' = Append(udpQ, kind) /\ udpQ \in Seq(UdpEntry) /\ kind \in UdpEntry
  BY DEF ReceiveCompletes, UdpType, UdpEntry
<1>2. /\ udpQ' \in Seq(UdpEntry) /\ DOMAIN udpQ' = 1..(Len(udpQ) + 1) /\ Len(udpQ) \in Nat
      /\ udpQ'[Len(udpQ) + 1] = kind
  BY <1>1, AppendToQueue
<1>3. GoesOn(udpQ')
  BY <1>2 DEF GoesOn, Leads
<1>4. ReceiverListens'
  BY <1>3 DEF ReceiverListens, GoesOn, Leads
<1>5. UdpType'
  BY <1>2, UdpAssumption DEF UdpType, ReceiveCompletes
<1> QED
  BY <1>4, <1>5

(* The receiver's handlers do.                                               *)
LEMMA UdpHandlerKeeps ==
  ASSUME UdpType, ReceiverListens, UdpHandler
  PROVE  UdpType' /\ ReceiverListens'
<1> DEFINE rest == Tail(udpQ)
           hit == \/ receives > 0 /\ \A c \in DOMAIN udpQ : udpQ[c] # "cancel"
                  \/ GoesOn(udpQ)
<1>1. udpQ \in Seq(UdpEntry) /\ receives \in Nat /\ udpQ # <<>>
  BY DEF UdpHandler, UdpType, AsyncReceive, Cancel, HandleReceived, HandleAborted
<1>2. /\ Head(udpQ) = udpQ[1] /\ rest \in Seq(UdpEntry) /\ Len(rest) = Len(udpQ) - 1
      /\ Len(udpQ) \in Nat \ {0}
      /\ \A i \in 1..(Len(udpQ) - 1) : rest[i] = udpQ[i + 1]
  BY <1>1, TailOfQueue
<1>3. receiving => hit
  BY DEF ReceiverListens, GoesOn, Leads
<1> HIDE DEF rest
<1>4. DOMAIN udpQ = 1..Len(udpQ) /\ DOMAIN rest = 1..(Len(udpQ) - 1)
  BY <1>1, <1>2
<1>5. \A i \in DOMAIN udpQ : i # 1 => i - 1 \in DOMAIN rest /\ rest[i - 1] = udpQ[i]
  BY <1>2, <1>4
<1>6. \A i \in DOMAIN rest : i + 1 \in DOMAIN udpQ /\ rest[i] = udpQ[i + 1]
  BY <1>2, <1>4
(* what leads behind every cancel stays there, unless it is taken itself *)
<1>7. ASSUME GoesOn(udpQ), \/ udpQ[1] \notin Leads
                           \/ \E c \in DOMAIN rest : rest[c] = "cancel"
      PROVE  GoesOn(rest)
  <2>1. PICK i \in DOMAIN udpQ : udpQ[i] \in Leads /\ \A c \in DOMAIN udpQ : udpQ[c] = "cancel" => c < i
    BY <1>7 DEF GoesOn
  <2>2. i # 1
    BY <1>4, <1>6, <1>7, <2>1
  <2>3. i - 1 \in DOMAIN rest /\ rest[i - 1] \in Leads
    BY <1>5, <2>1, <2>2
  <2>4. \A c \in DOMAIN rest : rest[c] = "cancel" => c < i - 1
    BY <1>4, <1>6, <2>1
  <2> QED
    BY <2>3, <2>4 DEF GoesOn
<1>8. CASE /\ Head(udpQ) \in Leads /\ udpQ' = rest /\ receives' = receives + 1
           /\ UNCHANGED <<receiving, switches, datagrams>>
  <2>1. receiving => (receives' > 0 /\ \A c \in DOMAIN rest : rest[c] # "cancel") \/ GoesOn(rest)
    BY <1>1, <1>3, <1>5, <1>6, <1>7, <1>8 DEF GoesOn
  <2>2. ReceiverListens'
    BY <1>8, <2>1 DEF ReceiverListens, GoesOn, Leads
  <2> QED
    BY <1>1, <1>2, <1>8, <2>2 DEF UdpType
<1>9. CASE Cancel
  <2> DEFINE f == Filled(rest, receives, "aborted")
  <2>1. "aborted" \in UdpEntry
    BY DEF UdpEntry
  <2>2. udpQ' = f /\ receives' = 0 /\ UNCHANGED <<receiving, switches, datagrams>>
        /\ udpQ[1] = "cancel"
    BY <1>2, <1>9 DEF Cancel, rest, Filled
  <2>3. f \in Seq(UdpEntry) /\ IsFilled(f, rest, receives, "aborted")
    BY <1>1, <1>2, <2>1, FillQueue
  <2> HIDE DEF f
  <2>4. \A i \in DOMAIN f : (i \in DOMAIN rest /\ f[i] = rest[i]) \/ f[i] = "aborted"
    BY <1>1, <1>2, <1>4, <2>3 DEF IsFilled
  <2>5. \A i \in DOMAIN rest : i \in DOMAIN f /\ f[i] = rest[i]
    BY <1>1, <1>2, <1>4, <2>3 DEF IsFilled
  <2>6. GoesOn(rest) => GoesOn(f)
    BY <2>4, <2>5 DEF GoesOn, Leads
  <2>7. receiving => GoesOn(rest)
    <3>1. 1 \in DOMAIN udpQ /\ udpQ[1] \notin Leads
      BY <1>2, <1>4, <2>2 DEF Leads
    <3> QED
      BY <1>3, <1>7, <2>2, <3>1
  <2>8. ReceiverListens'
    BY <2>2, <2>6, <2>7 DEF ReceiverListens, GoesOn, Leads
  <2> QED
    BY <2>2, <2>3, <2>8 DEF UdpType
<1>10. CASE HandleAborted
  <2>1. udpQ' = rest /\ udpQ[1] = "aborted" /\ UNCHANGED <<receiving, receives, switches, datagrams>>
    BY <1>2, <1>10 DEF HandleAborted, rest
  <2>2. receiving => (receives > 0 /\ \A c \in DOMAIN rest : rest[c] # "cancel") \/ GoesOn(rest)
    BY <1>3, <1>6, <1>7, <2>1 DEF Leads
  <2>3. ReceiverListens'
    BY <2>1, <2>2 DEF ReceiverListens, GoesOn, Leads
  <2> QED
    BY <1>2, <2>1, <2>3 DEF UdpType
<1> QED
  BY <1>8, <1>9, <1>10 DEF UdpHandler, AsyncReceive, HandleReceived, Leads, rest

-----------------------------------------------------------------------------
(* The components together                                                   *)

ConnectorInv ==
  /\ connector \in {"idle", "resolving", "resolved", "connecting", "connected", "done"}
  /\ answers \in {0, 1}
  /\ connector # "done" => answers = 0

ThreadType ==
  /\ thread \in {"none", "main", "restart", "graceful", "done"}
  /\ stopped \in BOOLEAN /\ starts \in 0..MaxStarts

(* The invariant is that of the components.                                  *)
LEMMA InvOfParts ==
  EndpointsInv <=> AcceptorInv /\ UdpType /\ ReceiverListens /\ ConnectorInv /\ ThreadType
  BY DEF EndpointsInv, TypeOK, AcceptorInv, AcceptorType, UdpType, ConnectorInv, ThreadType,
         Calls, UdpEntry

(* A step of the others leaves a component's part as it is. *)
LEMMA AcceptorStays ==
  ASSUME AcceptorInv, UNCHANGED acceptorVars
  PROVE  AcceptorInv'
  BY DEF AcceptorInv, AcceptorType, acceptorVars, CallsQueued, AcceptorServes, AnswersAreTrue

(* Steps of the other components leave the receiver's part alone.            *)
LEMMA UdpStays ==
  ASSUME UdpType, ReceiverListens, UNCHANGED udpVars
  PROVE  UdpType' /\ ReceiverListens'
<1>1. UdpType'
  BY DEF UdpType, udpVars
<1>2. ReceiverListens'
  BY DEF ReceiverListens, udpVars
<1> QED
  BY <1>1, <1>2

(* Every step keeps the connector's part.                                    *)
LEMMA ConnectorKeeps ==
  ASSUME ConnectorInv,
         \/ AsyncConnect \/ ConnectorIo \/ ConnectorHandler \/ HandleResolveThrows
         \/ UNCHANGED connectorVars
  PROVE  ConnectorInv'
  BY DEF ConnectorInv, AsyncConnect, ConnectorIo, ConnectorHandler, HandleResolve,
         HandleResolveError, HandleConnect, HandleResolveThrows, connectorVars

(* Every step keeps the thread's part.                                       *)
LEMMA ThreadKeeps ==
  ASSUME ThreadType, NEW idle \in BOOLEAN,
         \/ ThreadUser \/ MainEnds \/ Restart \/ GracefulEnds(idle)
         \/ HandlerRan(idle) \/ HandlerThrows(idle)
         \/ UNCHANGED threadVars
  PROVE  ThreadType'
<1>1. CASE ThreadUser
  <2>1. starts' \in 0..MaxStarts
    BY <1>1, ThreadAssumption DEF ThreadType, ThreadUser, Start, Stop, Join
  <2>2. stopped' \in BOOLEAN
    BY <1>1, Zenon DEF ThreadType, ThreadUser, Start, Stop, Join
  <2> QED
    BY <1>1, <2>1, <2>2 DEF ThreadType, ThreadUser, Start, Stop, Join
<1>2. CASE MainEnds \/ Restart \/ GracefulEnds(idle)
  BY <1>2 DEF ThreadType, MainEnds, Restart, GracefulEnds
<1>3. CASE HandlerRan(idle)
  <2>1. stopped' \in BOOLEAN
    BY <1>3 DEF HandlerRan
  <2> QED
    BY <1>3, <2>1 DEF ThreadType, HandlerRan
<1>4. CASE HandlerThrows(idle)
  BY <1>4 DEF ThreadType, HandlerThrows
<1>5. CASE UNCHANGED threadVars
  BY <1>5 DEF ThreadType, threadVars
<1> QED
  BY <1>1, <1>2, <1>3, <1>4, <1>5

(* The components begin in the invariant.                                    *)
LEMMA EndpointsInvInit == Init => EndpointsInv
<1> SUFFICES ASSUME Init PROVE EndpointsInv
  OBVIOUS
<1>1. AcceptorInv
  BY AcceptorAssumption DEF Init, AcceptorInit, AcceptorInv, AcceptorType, CallsQueued,
     AcceptorServes, AnswersAreTrue
<1>2. UdpType /\ ReceiverListens
  <2>1. 0 \in 0..MaxSwitches /\ 0 \in 0..MaxDatagrams /\ 0 \in Nat /\ <<>> \in Seq(UdpEntry)
    BY UdpAssumption
  <2>2. UdpType
    BY <2>1, Zenon DEF Init, UdpInit, UdpType
  <2>3. ReceiverListens
    BY Zenon DEF Init, UdpInit, ReceiverListens
  <2> QED
    BY <2>2, <2>3
<1>3. ConnectorInv
  BY DEF Init, ConnectorInit, ConnectorInv
<1>4. ThreadType
  <2>1. 0 \in 0..MaxStarts
    BY ThreadAssumption
  <2> QED
    BY <2>1, Zenon DEF Init, ThreadInit, ThreadType
<1> QED
  BY <1>1, <1>2, <1>3, <1>4, InvOfParts

(* Every step keeps all three parts: its own component's and the others'.    *)
LEMMA EndpointsInvStep == EndpointsInv /\ [Next]_vars => EndpointsInv'
<1> SUFFICES ASSUME EndpointsInv, [Next]_vars PROVE EndpointsInv'
  OBVIOUS
<1>1. AcceptorInv /\ UdpType /\ ReceiverListens /\ ConnectorInv /\ ThreadType
  BY InvOfParts
<1> DEFINE Kept == AcceptorInv' /\ UdpType' /\ ReceiverListens' /\ ConnectorInv' /\ ThreadType'
<1>2. Idle \in BOOLEAN /\ Idle' \in BOOLEAN
  BY DEF Idle
<1>3. ASSUME AcceptorRuns PROVE Kept
  BY <1>1, <1>2, <1>3, AcceptorHandlerKeeps, UdpStays, ConnectorKeeps, ThreadKeeps
  DEF AcceptorRuns
<1>4. ASSUME ConnectorRuns PROVE Kept
  BY <1>1, <1>2, <1>4, AcceptorStays, UdpStays, ConnectorKeeps, ThreadKeeps DEF ConnectorRuns
<1>5. ASSUME UdpRuns PROVE Kept
  BY <1>1, <1>2, <1>5, AcceptorStays, UdpHandlerKeeps, ConnectorKeeps, ThreadKeeps DEF UdpRuns
<1>6. ASSUME ConnectorThrows PROVE Kept
  BY <1>1, <1>2, <1>6, AcceptorStays, UdpStays, ConnectorKeeps, ThreadKeeps DEF ConnectorThrows
<1>7. ASSUME ThreadRuns PROVE Kept
  BY <1>1, <1>2, <1>7, AcceptorStays, UdpStays, ConnectorKeeps, ThreadKeeps DEF ThreadRuns
<1>8. ASSUME Io PROVE Kept
  BY <1>1, <1>2, <1>8, AcceptorStays, AcceptCompletesKeeps, UdpStays, ReceiveCompletesKeeps,
     ConnectorKeeps, ThreadKeeps
  DEF Io, AcceptorIo, UdpIo, ConnectorIoStep
<1>9. ASSUME User PROVE Kept
  BY <1>1, <1>2, <1>9, AcceptorStays, CallKeeps, UdpStays, UdpUserKeeps, ConnectorKeeps,
     ThreadKeeps
  DEF User, AcceptorUser
<1>10. ASSUME UNCHANGED vars PROVE Kept
  BY <1>1, <1>2, <1>10, AcceptorStays, UdpStays, ConnectorKeeps, ThreadKeeps DEF vars
<1>11. Kept
  BY <1>3, <1>4, <1>5, <1>6, <1>7, <1>8, <1>9, <1>10 DEF Next
<1> QED
  BY <1>11
  DEF EndpointsInv, TypeOK, AcceptorInv, AcceptorType, UdpType, ConnectorInv, ThreadType,
      Calls, UdpEntry

-----------------------------------------------------------------------------
(* Every variable of the four components keeps its type, and the connector   *)
(* calls m_on_connection_cb at most once.                                    *)
THEOREM EndpointsInvariant == Spec => []EndpointsInv
<1>1. Init => EndpointsInv
  BY EndpointsInvInit
<1>2. EndpointsInv /\ [Next]_vars => EndpointsInv'
  BY EndpointsInvStep
<1> QED
  BY <1>1, <1>2, PTL DEF Spec

(* accept_next is always under way or about to be called while the acceptor  *)
(* listens: no error of an accept, no close() in between and no answer that  *)
(* comes late ends accepting.                                                *)
THEOREM AcceptorAlwaysServes == Spec => []AcceptorServes
<1>1. EndpointsInv => AcceptorServes
  BY DEF EndpointsInv
<1> QED
  BY <1>1, EndpointsInvariant, PTL

(* The callbacks of open() and close() tell the truth: the acceptor listens  *)
(* exactly when the last success that was reported is that of an open().     *)
THEOREM AnswersAlwaysTrue == Spec => []AnswersAreTrue
<1>1. EndpointsInv => AnswersAreTrue
  BY DEF EndpointsInv
<1> QED
  BY <1>1, EndpointsInvariant, PTL

(* A started receiver has a receive under way or coming, wherever the        *)
(* cancels of earlier stops are in its queue.                                *)
THEOREM ReceiverAlwaysListens == Spec => []ReceiverListens
<1>1. EndpointsInv => ReceiverListens
  BY DEF EndpointsInv
<1> QED
  BY <1>1, EndpointsInvariant, PTL
=============================================================================
