--------------------------- MODULE PkgInputProofs ---------------------------
(***************************************************************************)
(* For every capacity, header size and bound: the ring of buffers is one   *)
(* stream of bytes.                                                        *)
(*                                                                         *)
(* RingInv is not inductive: it compares neighbours, and popping a buffer  *)
(* needs the way to the last one.  RingOrder says it with the position at  *)
(* which every buffer begins.  The members of pkg_input_t change in three  *)
(* ways only, Popped, Advanced and AppendTo, and all of them keep it.      *)
(***************************************************************************)
EXTENDS PkgInput, TLAPS, SequenceTheorems

Data == Seq(1..MaxBytes)
RingType == [bufs : [Slots -> Data], count : 0..Capacity, first : Slots,
             offset : Nat, total : Nat, served : BOOLEAN]

BufAt(r, i) == r.bufs[(r.first + i) % Capacity]
Rem(r) == RemainedInTheFirstBuffer(r)

(* The bytes of s are those numbered a + 1, a + 2, ... *)
IsRun(s, a) == \A j \in 1..Len(s) : s[j] = a + j

(* st[i] bytes came before those of buffer i. *)
Chain(r, a, st) ==
  /\ \A i \in 0..(r.count - 1) : /\ Len(BufAt(r, i)) > 0
                                 /\ IsRun(BufAt(r, i), st[i])
                                 /\ st[i + 1] = st[i] + Len(BufAt(r, i))
  /\ st[r.count] = a
  /\ st[0] + r.offset = a - r.total
  /\ IF r.count = 0 THEN r.offset = 0 /\ ~r.served ELSE r.offset < Len(BufAt(r, 0))

RingOrder(r, a) == \E st \in [0..r.count -> 0..a] : Chain(r, a, st)

-----------------------------------------------------------------------------
(* Runs of bytes                                                             *)

(* The bytes a+1 .. a+n are data, as many as asked for, in order.            *)
LEMMA BytesFacts ==
  ASSUME NEW a \in Nat, NEW n \in Nat, a + n <= MaxBytes
  PROVE  Bytes(a, n) \in Data /\ Len(Bytes(a, n)) = n /\ IsRun(Bytes(a, n), a)
<1>1. \A i \in 1..n : a + i \in 1..MaxBytes
  BY InputAssumption
<1>2. Bytes(a, n) \in [1..n -> 1..MaxBytes]
  BY <1>1 DEF Bytes
<1> QED
  BY <1>2 DEF Bytes, Data, IsRun

(* What being data means for lengths, elements and the empty piece.          *)
LEMMA DataFacts ==
  ASSUME NEW s \in Data
  PROVE  /\ Len(s) \in Nat /\ (s = <<>> <=> Len(s) = 0)
         /\ \A i \in 1..Len(s) : s[i] \in 1..MaxBytes
         /\ s \o <<>> = s /\ <<>> \o s = s /\ <<>> \in Data
  BY ElementOfSeq, EmptySeq, LenProperties, ConcatEmptySeq DEF Data

(* Bytes in order are determined by where they begin and how many they are.  *)
LEMMA RunIsBytes ==
  ASSUME NEW s \in Data, NEW a \in Nat, IsRun(s, a)
  PROVE  s = Bytes(a, Len(s))
<1>1. s \in [1..Len(s) -> 1..MaxBytes]
  BY LenProperties DEF Data
<1>2. \A i \in 1..Len(s) : s[i] = a + i
  BY DEF IsRun
<1> QED
  BY <1>1, <1>2 DEF Bytes

(* Two runs, one beginning where the other ends, are a run together.         *)
LEMMA ConcatRun ==
  ASSUME NEW s \in Data, NEW t \in Data
  PROVE  /\ s \o t \in Data /\ Len(s \o t) = Len(s) + Len(t)
         /\ Len(s) > 0 => (s \o t)[1] = s[1]
         /\ \A a \in Nat : IsRun(s, a) /\ IsRun(t, a + Len(s)) => IsRun(s \o t, a)
<1>1. Len(s) \in Nat /\ Len(t) \in Nat
  BY DataFacts
<1>2. /\ s \o t \in Data /\ Len(s \o t) = Len(s) + Len(t)
      /\ \A i \in 1..Len(s) + Len(t) :
           (s \o t)[i] = IF i <= Len(s) THEN s[i] ELSE t[i - Len(s)]
  BY ConcatProperties DEF Data
<1>3. ASSUME NEW a \in Nat, IsRun(s, a), IsRun(t, a + Len(s)),
             NEW i \in 1..Len(s) + Len(t)
      PROVE  (s \o t)[i] = a + i
  <2>1. CASE i <= Len(s)
    BY <1>1, <1>2, <1>3, <2>1 DEF IsRun
  <2>2. CASE i > Len(s)
    <3>1. i - Len(s) \in 1..Len(t)
      BY <1>1, <2>2
    <3>2. t[i - Len(s)] = a + Len(s) + (i - Len(s))
      BY <1>3, <3>1 DEF IsRun
    <3> QED
      BY <1>1, <1>2, <2>2, <3>2
  <2> QED
    BY <1>1, <2>1, <2>2
<1>4. \A a \in Nat : IsRun(s, a) /\ IsRun(t, a + Len(s)) => IsRun(s \o t, a)
  BY <1>2, <1>3 DEF IsRun
<1> QED
  BY <1>1, <1>2, <1>4

(* The n bytes of a run behind its first k ones. *)
LEMMA PartOfRun ==
  ASSUME NEW s \in Data, NEW a \in Nat, IsRun(s, a),
         NEW k \in Nat, NEW n \in Nat, k + n <= Len(s)
  PROVE  /\ SubSeq(s, k + 1, k + n) \in Data
         /\ Len(SubSeq(s, k + 1, k + n)) = n
         /\ IsRun(SubSeq(s, k + 1, k + n), a + k)
<1>1. Len(s) \in Nat /\ \A i \in (k + 1)..(k + n) : s[i] \in 1..MaxBytes /\ s[i] = a + i
  BY DataFacts DEF IsRun
<1>2. /\ SubSeq(s, k + 1, k + n) \in Data
      /\ Len(SubSeq(s, k + 1, k + n)) = IF k + 1 <= k + n THEN k + n - (k + 1) + 1 ELSE 0
      /\ \A i \in 1..(k + n - (k + 1) + 1) : SubSeq(s, k + 1, k + n)[i] = s[k + 1 + i - 1]
  BY <1>1, SubSeqProperties, k + 1 \in Int, k + n \in Int DEF Data
<1>3. Len(SubSeq(s, k + 1, k + n)) = n
  BY <1>2
<1>4. ASSUME NEW i \in 1..n
      PROVE  SubSeq(s, k + 1, k + n)[i] = a + k + i
  <2>1. SubSeq(s, k + 1, k + n)[i] = s[k + i]
    BY <1>2
  <2> QED
    BY <1>1, <2>1
<1> QED
  BY <1>2, <1>3, <1>4 DEF IsRun

-----------------------------------------------------------------------------
(* Slots                                                                     *)

(* Going on by at most one round, a position wraps at most once.             *)
LEMMA SlotFacts ==
  ASSUME NEW f \in Slots, NEW i \in 0..Capacity
  PROVE  /\ (f + i) % Capacity \in Slots
         /\ (f + i) % Capacity = IF f + i < Capacity THEN f + i ELSE f + i - Capacity
BY InputAssumption DEF Slots

(* Buffers less than a round apart lie in different slots.                   *)
LEMMA SlotsDiffer ==
  ASSUME NEW f \in Slots, NEW i \in 0..Capacity, NEW j \in 0..Capacity, i < j, j - i < Capacity
  PROVE  (f + i) % Capacity # (f + j) % Capacity
<1>1. f \in 0..(Capacity - 1) /\ Capacity \in Nat \ {0}
  BY InputAssumption DEF Slots
<1>2. (f + i) % Capacity = IF f + i < Capacity THEN f + i ELSE f + i - Capacity
  BY SlotFacts
<1>3. (f + j) % Capacity = IF f + j < Capacity THEN f + j ELSE f + j - Capacity
  BY SlotFacts
<1> QED
  BY <1>1, <1>2, <1>3

(* Counting from the next slot is counting one further.                      *)
LEMMA NextSlot ==
  ASSUME NEW f \in Slots, NEW i \in 0..(Capacity - 1)
  PROVE  /\ NextPos(f) \in Slots
         /\ (NextPos(f) + i) % Capacity = (f + (i + 1)) % Capacity
<1>1. f \in 0..(Capacity - 1) /\ Capacity \in Nat \ {0}
  BY InputAssumption DEF Slots
<1> DEFINE g == NextPos(f)
<1>2. g = IF f + 1 < Capacity THEN f + 1 ELSE f + 1 - Capacity
  BY <1>1, SlotFacts DEF NextPos
<1>3. g \in Slots
  BY <1>1, <1>2 DEF Slots
<1>4. (g + i) % Capacity = IF g + i < Capacity THEN g + i ELSE g + i - Capacity
  <2>1. i \in 0..Capacity
    BY <1>1
  <2> QED
    BY <1>3, <2>1, SlotFacts
<1>5. (f + (i + 1)) % Capacity = IF f + (i + 1) < Capacity THEN f + (i + 1) ELSE f + (i + 1) - Capacity
  BY <1>1, SlotFacts
<1> HIDE DEF g
<1>6. (g + i) % Capacity = (f + (i + 1)) % Capacity
  BY <1>1, <1>2, <1>4, <1>5
<1> QED
  BY <1>3, <1>6 DEF g

(* The first buffer is the one in the first slot.                            *)
LEMMA FirstSlot ==
  ASSUME NEW r \in RingType
  PROVE  BufAt(r, 0) = r.bufs[r.first]
<1>1. (r.first + 0) % Capacity = r.first
  BY SlotFacts, InputAssumption DEF RingType, Slots
<1> QED
  BY <1>1 DEF BufAt

(* Every slot holds data.                                                    *)
LEMMA BufData ==
  ASSUME NEW r \in RingType, NEW i \in 0..Capacity
  PROVE  BufAt(r, i) \in Data /\ Len(BufAt(r, i)) \in Nat
<1>1. (r.first + i) % Capacity \in Slots
  BY SlotFacts DEF RingType
<1>2. BufAt(r, i) \in Data
  BY <1>1 DEF BufAt, RingType
<1> QED
  BY <1>2, DataFacts

-----------------------------------------------------------------------------
(* The three ways in which the ring changes                                  *)

(* The ring's fields, read off its type.                                     *)
LEMMA RingTypeMeans ==
  ASSUME NEW r \in RingType
  PROVE  /\ r.count \in Nat /\ r.count <= Capacity /\ Capacity \in Nat \ {0}
         /\ r.offset \in Nat /\ r.total \in Nat /\ r.first \in Slots /\ r.served \in BOOLEAN
         /\ r.bufs \in [Slots -> Data] /\ 0 \in 0..Capacity
  BY InputAssumption DEF RingType

(* A ring in order has bytes if it has buffers, and none it was not given.   *)
LEMMA RingFacts ==
  ASSUME NEW r \in RingType, NEW a \in Nat, RingOrder(r, a)
  PROVE  /\ r.total > 0 <=> r.count > 0
         /\ a - r.total \in Nat /\ r.total <= a
         /\ r.served => r.count > 0
         /\ r.count = 0 => r.offset = 0
         /\ r.count > 0 => /\ Rem(r) = Len(BufAt(r, 0)) - r.offset
                           /\ Rem(r) \in Nat \ {0} /\ Rem(r) <= r.total
                           /\ BufAt(r, 0) \in Data
                           /\ r.offset <= a - r.total
                           /\ IsRun(BufAt(r, 0), a - r.total - r.offset)
<1>0. /\ r.count \in Nat /\ r.count <= Capacity /\ Capacity \in Nat \ {0}
      /\ r.offset \in Nat /\ r.total \in Nat /\ r.first \in Slots /\ r.served \in BOOLEAN
      /\ r.bufs \in [Slots -> Data] /\ 0 \in 0..Capacity
  BY RingTypeMeans
<1> USE <1>0
<1>1. PICK st \in [0..r.count -> 0..a] : Chain(r, a, st)
  BY DEF RingOrder
<1>2. st[0] \in 0..a /\ st[r.count] = a /\ st[0] + r.offset = a - r.total
  BY <1>1 DEF Chain
<1>3. CASE r.count = 0
  BY <1>1, <1>2, <1>3 DEF Chain
<1>4. CASE r.count > 0
  <2>1. /\ Len(BufAt(r, 0)) > 0 /\ IsRun(BufAt(r, 0), st[0])
        /\ st[1] = st[0] + Len(BufAt(r, 0))
        /\ r.offset < Len(BufAt(r, 0))
    <3>1. 0 \in 0..(r.count - 1) /\ 0 + 1 = 1
      BY <1>4
    <3> QED
      BY <1>1, <1>4, <3>1 DEF Chain
  <2>2. st[1] \in 0..a
    BY <1>4
  <2>3. BufAt(r, 0) \in Data /\ Len(BufAt(r, 0)) \in Nat
    BY BufData
  <2>4. Rem(r) = Len(BufAt(r, 0)) - r.offset
    BY FirstSlot DEF Rem, RemainedInTheFirstBuffer
  <2>5. st[0] = a - r.total - r.offset
    BY <1>2
  <2>6. Rem(r) \in Nat \ {0} /\ Rem(r) <= r.total
    <3> DEFINE s0 == st[0]  s1 == st[1]  l == Len(BufAt(r, 0))  t == r.total  o == r.offset
    <3>1. /\ s0 \in Nat /\ s1 \in Nat /\ s1 <= a /\ l \in Nat /\ t \in Nat /\ o \in Nat
          /\ s0 + o = a - t /\ s1 = s0 + l /\ o < l
      BY <1>2, <2>1, <2>2, <2>3
    <3>2. Rem(r) = l - o
      BY <2>4
    <3> HIDE DEF s0, s1, l, t, o
    <3>3. Rem(r) \in Nat \ {0} /\ Rem(r) <= t
      BY <3>1, <3>2
    <3> QED
      BY <3>3 DEF t
  <2>7. IsRun(BufAt(r, 0), a - r.total - r.offset)
    BY <2>1, <2>5
  <2>8. /\ r.total > 0 /\ a - r.total \in Nat /\ r.total <= a
        /\ r.offset <= a - r.total
    BY <1>2, <2>6
  <2> QED
    BY <1>4, <2>3, <2>4, <2>6, <2>7, <2>8
<1> QED
  BY <1>3, <1>4

Popped(r) == [bufs |-> r.bufs, count |-> r.count - 1, first |-> NextPos(r.first),
              offset |-> 0, total |-> r.total - Rem(r), served |-> FALSE]

Advanced(r, n) == [bufs |-> r.bufs, count |-> r.count, first |-> r.first,
                   offset |-> r.offset + n, total |-> r.total - n, served |-> FALSE]

(* Without its first buffer a ring is still in order.                        *)
LEMMA PoppedOrder ==
  ASSUME NEW r \in RingType, NEW a \in Nat, RingOrder(r, a), r.count > 0
  PROVE  Popped(r) \in RingType /\ RingOrder(Popped(r), a)
<1>0. /\ r.count \in Nat /\ r.count <= Capacity /\ Capacity \in Nat \ {0}
      /\ r.offset \in Nat /\ r.total \in Nat /\ r.first \in Slots /\ r.served \in BOOLEAN
      /\ r.bufs \in [Slots -> Data] /\ 0 \in 0..Capacity
  BY RingTypeMeans
<1> USE <1>0
<1> DEFINE p == Popped(r)
           n == r.count - 1
<1>1. PICK st \in [0..r.count -> 0..a] : Chain(r, a, st)
  BY DEF RingOrder
<1>2. n \in Nat /\ n < Capacity /\ n \in 0..Capacity
  OBVIOUS
<1>3. /\ p.bufs = r.bufs /\ p.count = n /\ p.first = NextPos(r.first) /\ p.offset = 0
      /\ p.total = r.total - Rem(r) /\ p.served = FALSE
  BY DEF Popped
<1>4. NextPos(r.first) \in Slots /\ r.total - Rem(r) \in Nat
  <2>1. NextPos(r.first) \in Slots
    BY <1>2, NextSlot, 0 \in 0..(Capacity - 1)
  <2>2. Rem(r) \in Nat /\ Rem(r) <= r.total
    BY RingFacts
  <2> QED
    BY <2>1, <2>2
<1>5. p \in RingType
  BY <1>2, <1>4 DEF Popped, RingType
<1>6. ASSUME NEW i \in 0..n, i < Capacity
      PROVE  BufAt(p, i) = BufAt(r, i + 1)
  <2>1. (NextPos(r.first) + i) % Capacity = (r.first + (i + 1)) % Capacity
    BY <1>2, <1>6, NextSlot
  <2> QED
    BY <1>3, <2>1 DEF BufAt
<1> DEFINE stp == [i \in 0..n |-> st[i + 1]]
<1>7. stp \in [0..n -> 0..a]
  OBVIOUS
<1>8. \A i \in 0..(r.count - 1) : /\ Len(BufAt(r, i)) > 0
                                  /\ IsRun(BufAt(r, i), st[i])
                                  /\ st[i + 1] = st[i] + Len(BufAt(r, i))
  BY <1>1 DEF Chain
<1> HIDE DEF p
<1>9. ASSUME NEW i \in 0..(n - 1)
      PROVE  /\ Len(BufAt(p, i)) > 0
             /\ IsRun(BufAt(p, i), stp[i])
             /\ stp[i + 1] = stp[i] + Len(BufAt(p, i))
  <2>1. i + 1 \in 0..(r.count - 1) /\ i \in 0..n /\ i + 1 \in 0..n
    BY <1>2
  <2>2. BufAt(p, i) = BufAt(r, i + 1)
    BY <1>2, <1>6, <2>1
  <2>3. stp[i] = st[i + 1] /\ stp[i + 1] = st[(i + 1) + 1]
    BY <2>1
  <2> QED
    BY <1>8, <2>1, <2>2, <2>3
<1>10. stp[n] = a
  BY <1>1, <1>2, SMTT(20) DEF Chain
<1>11. stp[0] = a - (r.total - Rem(r))
  <2>1. stp[0] = st[1]
    BY <1>2
  <2>2. 0 \in 0..(r.count - 1) /\ 0 + 1 = 1
    BY <1>2
  <2>3. st[1] = st[0] + Len(BufAt(r, 0)) /\ st[0] + r.offset = a - r.total
    BY <1>1, <1>8, <2>2 DEF Chain
  <2>4. Rem(r) = Len(BufAt(r, 0)) - r.offset /\ Len(BufAt(r, 0)) \in Nat
    BY RingFacts, BufData
  <2>5. st[0] \in 0..a
    OBVIOUS
  <2>6. Rem(r) \in Nat /\ r.total \in Nat /\ r.offset \in Nat
    BY RingFacts
  <2> DEFINE s0 == st[0]  l == Len(BufAt(r, 0))  o == r.offset  t == r.total  m == Rem(r)
  <2>7. /\ s0 \in Nat /\ l \in Nat /\ o \in Nat /\ t \in Nat /\ m \in Nat
        /\ s0 + o = a - t /\ st[1] = s0 + l /\ m = l - o
    BY <2>3, <2>4, <2>5, <2>6
  <2> HIDE DEF s0, l, o, t, m
  <2>8. st[1] = a - (t - m)
    BY <2>7
  <2> QED
    BY <2>1, <2>8 DEF t, m
<1>12. n > 0 => Len(BufAt(p, 0)) > 0
  <2> SUFFICES ASSUME n > 0 PROVE Len(BufAt(p, 0)) > 0
    OBVIOUS
  <2>1. 0 \in 0..(n - 1)
    BY <1>2
  <2> QED
    BY <1>9, <2>1
<1>13. Chain(p, a, stp)
  <2> HIDE DEF stp
  <2> QED
    BY <1>2, <1>3, <1>4, <1>9, <1>10, <1>11, <1>12 DEF Chain
<1> QED
  BY <1>3, <1>5, <1>7, <1>13 DEF RingOrder, p

(* So is one whose reader went on within the first buffer.                   *)
LEMMA AdvancedOrder ==
  ASSUME NEW r \in RingType, NEW a \in Nat, RingOrder(r, a), r.count > 0,
         NEW n \in Nat, n < Rem(r)
  PROVE  Advanced(r, n) \in RingType /\ RingOrder(Advanced(r, n), a)
<1>0. /\ r.count \in Nat /\ r.count <= Capacity /\ Capacity \in Nat \ {0}
      /\ r.offset \in Nat /\ r.total \in Nat /\ r.first \in Slots /\ r.served \in BOOLEAN
      /\ r.bufs \in [Slots -> Data] /\ 0 \in 0..Capacity
  BY RingTypeMeans
<1> USE <1>0
<1> DEFINE p == Advanced(r, n)
<1>1. PICK st \in [0..r.count -> 0..a] : Chain(r, a, st)
  BY DEF RingOrder
<1>2. /\ p.bufs = r.bufs /\ p.count = r.count /\ p.first = r.first
      /\ p.offset = r.offset + n /\ p.total = r.total - n /\ p.served = FALSE
  BY DEF Advanced
<1>3. Rem(r) = Len(BufAt(r, 0)) - r.offset /\ Rem(r) \in Nat /\ Rem(r) <= r.total
  BY RingFacts
<1>4. p \in RingType
  BY <1>3 DEF Advanced, RingType
<1>5. \A i : BufAt(p, i) = BufAt(r, i)
  BY <1>2 DEF BufAt
<1> HIDE DEF p
<1>6. st[0] + p.offset = a - p.total
  <2>1. st[0] + r.offset = a - r.total
    BY <1>1 DEF Chain
  <2>2. st[0] \in 0..a
    OBVIOUS
  <2> DEFINE s0 == st[0]  o == r.offset  t == r.total
  <2>3. s0 \in Nat /\ o \in Nat /\ t \in Nat /\ s0 + o = a - t
    BY <2>1, <2>2
  <2> HIDE DEF s0, o, t
  <2>4. s0 + (o + n) = a - (t - n)
    BY <2>3
  <2> QED
    BY <1>2, <2>4 DEF s0, o, t
<1>7. p.offset < Len(BufAt(p, 0))
  BY <1>2, <1>3, <1>5, BufData
<1>8. Chain(p, a, st)
  BY <1>1, <1>2, <1>5, <1>6, <1>7, SMTT(20) DEF Chain
<1> QED
  BY <1>2, <1>4, <1>8 DEF RingOrder, p

(* The buffers after append, which shares slots only with a full ring. *)
LEMMA AppendedBufs ==
  ASSUME NEW r \in RingType, NEW buf \in Data
  PROVE  LET p == AppendTo(r, buf)
         IN  /\ p.first = r.first /\ p.offset = r.offset /\ p.served = r.served
             /\ p.total = r.total + Len(buf)
             /\ p.bufs \in [Slots -> Data]
             /\ r.count < Capacity => /\ p.count = r.count + 1
                                      /\ BufAt(p, r.count) = buf
                                      /\ \A i \in 0..(r.count - 1) : BufAt(p, i) = BufAt(r, i)
             /\ r.count = Capacity => /\ p.count = r.count
                                      /\ BufAt(p, r.count - 1) = BufAt(r, r.count - 1) \o buf
                                      /\ \A i \in 0..(r.count - 2) : BufAt(p, i) = BufAt(r, i)
<1>0. /\ r.count \in Nat /\ r.count <= Capacity /\ Capacity \in Nat \ {0}
      /\ r.first \in Slots /\ r.first \in Int /\ r.bufs \in [Slots -> Data]
  BY RingTypeMeans DEF Slots
<1> DEFINE p == AppendTo(r, buf)
           c == r.count
           last == (r.first + c - 1) % Capacity
           next == (r.first + c) % Capacity
<1>1. CASE c < Capacity
  <2>1. next \in Slots
    BY <1>0, SlotFacts
  <2>2. p = [r EXCEPT !.total = @ + Len(buf), !.bufs = [r.bufs EXCEPT ![next] = buf], !.count = @ + 1]
    BY <1>0, <1>1 DEF AppendTo
  <2>3. /\ p.first = r.first /\ p.offset = r.offset /\ p.served = r.served
        /\ p.total = r.total + Len(buf) /\ p.count = c + 1
        /\ p.bufs = [r.bufs EXCEPT ![next] = buf]
    BY <2>2 DEF RingType
  <2>4. BufAt(p, c) = buf
    BY <1>0, <2>1, <2>3 DEF BufAt
  <2>5. ASSUME NEW i \in 0..(c - 1) PROVE BufAt(p, i) = BufAt(r, i)
    <3>1. i \in 0..Capacity /\ c \in 0..Capacity /\ i < c /\ c - i < Capacity
      BY <1>0, <1>1
    <3>2. (r.first + i) % Capacity \in Slots /\ (r.first + i) % Capacity # next
      BY <1>0, <3>1, SlotFacts, SlotsDiffer
    <3> QED
      BY <1>0, <2>3, <3>2 DEF BufAt
  <2>6. p.bufs \in [Slots -> Data]
    BY <1>0, <2>1, <2>3
  <2> HIDE DEF p
  <2> QED
    BY <1>0, <1>1, <2>3, <2>4, <2>5, <2>6 DEF p
<1>2. CASE c = Capacity
  <2>0. last = (r.first + (c - 1)) % Capacity /\ c - 1 \in 0..Capacity
    BY <1>0, <1>2
  <2>1. last \in Slots /\ r.bufs[last] = BufAt(r, c - 1)
    BY <1>0, <2>0, SlotFacts DEF BufAt
  <2>2. p = [r EXCEPT !.total = @ + Len(buf), !.bufs = [r.bufs EXCEPT ![last] = @ \o buf]]
    BY <1>0, <1>2 DEF AppendTo
  <2>3. /\ p.first = r.first /\ p.offset = r.offset /\ p.served = r.served
        /\ p.total = r.total + Len(buf) /\ p.count = c
        /\ p.bufs = [r.bufs EXCEPT ![last] = @ \o buf]
    BY <2>2 DEF RingType
  <2>4. BufAt(p, c - 1) = BufAt(r, c - 1) \o buf
    BY <1>0, <2>0, <2>1, <2>3 DEF BufAt
  <2>5. ASSUME NEW i \in 0..(c - 2) PROVE BufAt(p, i) = BufAt(r, i)
    <3>1. i \in 0..Capacity /\ i < c - 1 /\ (c - 1) - i < Capacity
      BY <1>0, <1>2
    <3>2. (r.first + i) % Capacity \in Slots /\ (r.first + i) % Capacity # last
      BY <1>0, <2>0, <3>1, SlotFacts, SlotsDiffer
    <3> QED
      BY <1>0, <2>3, <3>2 DEF BufAt
  <2>6. p.bufs \in [Slots -> Data]
    BY <1>0, <2>1, <2>3, ConcatRun
  <2> HIDE DEF p
  <2> QED
    BY <1>0, <1>2, <2>3, <2>4, <2>5, <2>6 DEF p
<1> QED
  BY <1>0, <1>1, <1>2

(* append: to a free slot, or copied behind the last buffer of a full ring.  *)
LEMMA AppendOrder ==
  ASSUME NEW r \in RingType, NEW a \in Nat, RingOrder(r, a), ~r.served,
         NEW n \in Nat \ {0}, a + n <= MaxBytes
  PROVE  LET p == AppendTo(r, Bytes(a, n))
         IN  /\ p \in RingType /\ RingOrder(p, a + n)
             /\ p.total = r.total + n /\ ~p.served
<1>0. /\ r.count \in Nat /\ r.count <= Capacity /\ Capacity \in Nat \ {0}
      /\ r.offset \in Nat /\ r.total \in Nat /\ r.first \in Slots /\ r.served \in BOOLEAN
      /\ r.bufs \in [Slots -> Data] /\ 0 \in 0..Capacity
  BY RingTypeMeans
<1> DEFINE buf == Bytes(a, n)
           p == AppendTo(r, buf)
           c == r.count
<1>1. buf \in Data /\ Len(buf) = n /\ IsRun(buf, a)
  BY BytesFacts
<1> HIDE DEF buf
<1>2. /\ p.first = r.first /\ p.offset = r.offset /\ p.served = FALSE
      /\ p.total = r.total + n
      /\ p.bufs \in [Slots -> Data]
      /\ c < Capacity => /\ p.count = c + 1
                         /\ BufAt(p, c) = buf
                         /\ \A i \in 0..(c - 1) : BufAt(p, i) = BufAt(r, i)
      /\ c = Capacity => /\ p.count = c
                         /\ BufAt(p, c - 1) = BufAt(r, c - 1) \o buf
                         /\ \A i \in 0..(c - 2) : BufAt(p, i) = BufAt(r, i)
  BY <1>0, <1>1, AppendedBufs
<1>3. p \in RingType
  <2>1. p.count \in 0..Capacity
    BY <1>0, <1>2
  <2>2. p = [bufs |-> p.bufs, count |-> p.count, first |-> p.first, offset |-> p.offset, total |-> p.total, served |-> p.served]
    BY DEF AppendTo, RingType
  <2>3. /\ p.bufs \in [Slots -> Data] /\ p.first \in Slots /\ p.offset \in Nat
        /\ p.total \in Nat /\ p.served \in BOOLEAN
    <3> HIDE DEF p
    <3> DEFINE t == r.total
    <3>1. t \in Nat /\ p.total = t + n
      BY <1>0, <1>2
    <3> HIDE DEF t
    <3>2. p.total \in Nat
      BY <3>1
    <3> QED
      BY <1>0, <1>2, <3>2
  <2> HIDE DEF p
  <2>4. [bufs |-> p.bufs, count |-> p.count, first |-> p.first, offset |-> p.offset, total |-> p.total, served |-> p.served] \in RingType
    BY <2>1, <2>3 DEF RingType
  <2> QED
    BY <2>2, <2>4
<1> HIDE DEF p
<1> DEFINE m == p.count
<1>4. PICK st \in [0..c -> 0..a] : Chain(r, a, st)
  BY DEF RingOrder
<1>5. /\ \A i \in 0..(c - 1) : /\ Len(BufAt(r, i)) > 0 /\ IsRun(BufAt(r, i), st[i])
                               /\ st[i + 1] = st[i] + Len(BufAt(r, i))
      /\ st[c] = a /\ st[0] + r.offset = a - r.total
      /\ IF c = 0 THEN r.offset = 0 ELSE r.offset < Len(BufAt(r, 0))
  BY <1>4 DEF Chain
<1>6. /\ m \in Nat \ {0} /\ m \in {c, c + 1} /\ m - 1 \in 0..c /\ c \in Nat /\ c <= Capacity
      /\ c < Capacity => m = c + 1
      /\ c = Capacity => m = c
  BY <1>0, <1>2, SMTT(20)
<1> HIDE DEF c, m
<1> DEFINE stp == [i \in 0..m |-> IF i = m THEN a + n ELSE st[i]]
<1>7. stp \in [0..m -> 0..(a + n)]
  <2> SUFFICES ASSUME NEW i \in 0..m PROVE (IF i = m THEN a + n ELSE st[i]) \in 0..(a + n)
    OBVIOUS
  <2>1. CASE i = m
    BY <2>1
  <2>2. CASE i # m
    <3>1. st[i] \in 0..a
      BY <1>6, <2>2
    <3> QED
      BY <2>2, <3>1
  <2> QED
    BY <2>1, <2>2
<1>8. ASSUME NEW i \in 0..(m - 1)
      PROVE  /\ Len(BufAt(p, i)) > 0 /\ IsRun(BufAt(p, i), stp[i])
             /\ stp[i + 1] = stp[i] + Len(BufAt(p, i))
             /\ i < c => Len(BufAt(p, i)) >= Len(BufAt(r, i))
  <2>0. i \in 0..c /\ i \in 0..m /\ i + 1 \in 0..m /\ i # m
        /\ stp[i] = st[i] /\ st[i] \in 0..a
    BY <1>6
  <2>1. CASE i < m - 1
    <3>1. i \in 0..(c - 1) /\ BufAt(p, i) = BufAt(r, i)
      BY <1>0, <1>2, <1>6, <2>1, SMTT(20)
    <3>2. stp[i + 1] = st[i + 1]
      BY <1>6, <2>0, <2>1
    <3>3. Len(BufAt(r, i)) \in Nat
      BY <1>0, <3>1, BufData
    <3> QED
      BY <1>5, <2>0, <3>1, <3>2, <3>3
  <2>2. CASE i = m - 1
    <3>1. stp[i + 1] = a + n
      BY <2>0, <2>2, <1>6
    <3>2. CASE c < Capacity
      <4>1. i = c /\ BufAt(p, i) = buf
        BY <1>2, <1>6, <2>2, <3>2
      <4>2. stp[i] = a
        BY <1>5, <2>0, <4>1
      <4>3. IsRun(BufAt(p, i), stp[i]) /\ Len(BufAt(p, i)) = n
        BY <1>1, <4>1, <4>2
      <4> QED
        BY <3>1, <4>1, <4>2, <4>3, SMTT(20)
    <3>3. CASE c = Capacity
      <4>1. i = c - 1 /\ i \in 0..(c - 1) /\ i \in 0..Capacity /\ i + 1 = c
        BY <1>6, <2>2, <3>3
      <4>2. BufAt(p, i) = BufAt(r, i) \o buf
        BY <1>2, <3>3, <4>1
      <4>3. BufAt(r, i) \in Data /\ Len(BufAt(r, i)) \in Nat
        BY <4>1, BufData
      <4>4. IsRun(BufAt(r, i), st[i]) /\ a = st[i] + Len(BufAt(r, i)) /\ Len(BufAt(r, i)) > 0
        BY <1>5, <4>1
      <4>5. IsRun(buf, st[i] + Len(BufAt(r, i)))
        BY <1>1, <4>4
      <4>6. Len(BufAt(r, i) \o buf) = Len(BufAt(r, i)) + n
        BY <1>1, <4>3, ConcatRun
      <4>7. IsRun(BufAt(r, i) \o buf, st[i])
        BY <1>1, <2>0, <4>3, <4>4, <4>5, ConcatRun
      <4>8. a + n = st[i] + (Len(BufAt(r, i)) + n)
        BY <2>0, <4>3, <4>4
      <4>9. Len(BufAt(r, i)) + n > 0 /\ Len(BufAt(r, i)) + n >= Len(BufAt(r, i))
        BY <4>3
      <4> QED
        BY <2>0, <3>1, <4>2, <4>6, <4>7, <4>8, <4>9
    <3> QED
      BY <1>0, <1>6, <3>2, <3>3
  <2> QED
    BY <1>6, <2>1, <2>2
<1>9. stp[m] = a + n
  BY <1>6
<1>10. stp[0] + p.offset = (a + n) - p.total
  <2>1. stp[0] = st[0] /\ st[0] \in Nat
    BY <1>6
  <2> DEFINE s0 == st[0]  o == r.offset  t == r.total
  <2>2. s0 \in Nat /\ o \in Nat /\ t \in Nat /\ s0 + o = a - t
    BY <1>0, <1>5, <2>1
  <2> HIDE DEF s0, o, t
  <2>3. s0 + o = (a + n) - (t + n)
    BY <2>2
  <2> QED
    BY <1>2, <2>1, <2>3 DEF s0, o, t
<1>11. p.offset < Len(BufAt(p, 0))
  <2>1. 0 \in 0..(m - 1) /\ Len(BufAt(p, 0)) \in Nat
    BY <1>0, <1>3, <1>6, BufData
  <2>2. CASE c = 0
    BY <1>2, <1>5, <1>8, <2>1, <2>2
  <2>3. CASE c > 0
    <3>1. Len(BufAt(p, 0)) >= Len(BufAt(r, 0)) /\ r.offset < Len(BufAt(r, 0)) /\ Len(BufAt(r, 0)) \in Nat
      <4>1. Len(BufAt(p, 0)) >= Len(BufAt(r, 0))
        BY <1>8, <2>1, <2>3
      <4>2. Len(BufAt(r, 0)) \in Nat
        BY <1>0, BufData
      <4>3. r.offset < Len(BufAt(r, 0))
        BY <1>5, <2>3
      <4> QED
        BY <4>1, <4>2, <4>3
    <3> DEFINE lp == Len(BufAt(p, 0))  lr == Len(BufAt(r, 0))  o == r.offset
    <3>2. lp \in Nat /\ lr \in Nat /\ o \in Nat /\ lp >= lr /\ o < lr
      BY <1>0, <2>1, <3>1
    <3> HIDE DEF lp, lr, o
    <3>3. o < lp
      BY <3>2
    <3> QED
      BY <1>2, <3>3 DEF lp, o
  <2> QED
    BY <1>6, <2>2, <2>3
<1>12. Chain(p, a + n, stp)
  <2> HIDE DEF stp
  <2>1. \A i \in 0..(p.count - 1) : /\ Len(BufAt(p, i)) > 0
                                     /\ IsRun(BufAt(p, i), stp[i])
                                     /\ stp[i + 1] = stp[i] + Len(BufAt(p, i))
    BY <1>8 DEF m
  <2>2. IF p.count = 0 THEN p.offset = 0 /\ ~p.served ELSE p.offset < Len(BufAt(p, 0))
    BY <1>6, <1>11 DEF m
  <2>3. stp[p.count] = a + n
    BY <1>9 DEF m
  <2> QED
    BY <1>10, <2>1, <2>2, <2>3, Zenon DEF Chain
<1>13. RingOrder(p, a + n)
  BY <1>7, <1>12 DEF RingOrder, m
<1> QED
  BY <1>2, <1>3, <1>13 DEF p, buf

-----------------------------------------------------------------------------
(* The operation that is under way                                           *)

SkipOps == {"Skip", "skip_bytes", "read_skip"}
CopyOps == {"view_pkg_header", "read_buffer"}
CallType == [op : {"idle"} \cup SkipOps \cup CopyOps, arg : Nat, left : Nat, slot : Slots,
             off : Nat, dest : Data]
DoneType == [op : {"none", "append", "Next", "BackUp", "Skip", "skip_bytes",
                   "view_pkg_header", "read_buffer"},
             arg : Nat, ok : BOOLEAN, bytes : Data]

(* The bytes before the one that the call comes to next. *)
CallAt(r, a, c) == (a - r.total) + (c.arg - c.left)

(* copy_n_bytes_to stands at that byte, or has copied all. *)
CopyPlace(r, a, c) ==
  \/ c.left = 0 /\ c.off = 0
  \/ \E k \in 0..(r.count - 1) :
       /\ c.slot = (r.first + k) % Capacity
       /\ c.off < Len(BufAt(r, k)) /\ c.off <= CallAt(r, a, c)
       /\ IsRun(BufAt(r, k), CallAt(r, a, c) - c.off)

CallOrder(r, a, c) ==
  /\ c.left <= c.arg
  /\ c.op # "idle" => ~r.served
  /\ c.op \in SkipOps => c.left <= r.total /\ c.arg - c.left <= a - r.total
  /\ c.op \in CopyOps => /\ c.arg <= r.total
                         /\ c.dest = Bytes(a - r.total, c.arg - c.left)
                         /\ CopyPlace(r, a, c)
  /\ c.op = "read_skip" => c.dest = Bytes((a - r.total) - (c.arg - c.left), c.arg)
  /\ c.op = "idle" => c = Idle

(* Lent and Position, of any ring and call *)
LentOf(r) == IF r.served THEN Rem(r) ELSE 0
PosOf(r, a, c) == IF c.op \in SkipOps THEN (a - r.total) - (c.arg - c.left)
                                      ELSE (a - r.total) + LentOf(r)

(* b counts n bytes, and more only where a Skip failed. *)
Counts(b, n) == b >= n /\ (LongSkips \/ b = n)

(* What the parser took, b, and the others, k. *)
CountOrder(r, a, c, b, k) ==
  /\ k <= PosOf(r, a, c) - LentOf(r)
  /\ Counts(b, (PosOf(r, a, c) - k) + (IF c.op = "Skip" THEN c.arg ELSE 0))

InputInv ==
  /\ ring \in RingType /\ call \in CallType /\ done \in DoneType
  /\ byteCount \in Nat /\ arrived \in 0..MaxBytes /\ taken \in Nat
  /\ RingOrder(ring, arrived)
  /\ CallOrder(ring, arrived, call)
  /\ CountOrder(ring, arrived, call, byteCount, taken)

(* Between calls the call's part of the invariant says nothing.              *)
LEMMA IdleOrder ==
  ASSUME NEW r \in RingType, NEW a \in Nat
  PROVE  /\ Idle \in CallType /\ CallOrder(r, a, Idle)
         /\ PosOf(r, a, Idle) = (a - r.total) + LentOf(r)
<1>1. 0 \in Slots /\ <<>> \in Data
  BY InputAssumption, EmptySeq DEF Slots, Data
<1>2. Idle \in CallType
  BY <1>1 DEF Idle, CallType
<1> QED
  BY <1>2 DEF Idle, CallOrder, PosOf, SkipOps, CopyOps

(* What is lent to the parser is what remains of the first buffer.           *)
LEMMA LentFacts ==
  ASSUME NEW r \in RingType, NEW a \in Nat, RingOrder(r, a)
  PROVE  /\ LentOf(r) \in Nat /\ LentOf(r) <= r.total /\ a - r.total \in Nat
         /\ r.served => LentOf(r) = Rem(r) /\ LentOf(r) > 0 /\ r.count > 0
         /\ ~r.served => LentOf(r) = 0
<1>1. CASE r.served
  <2>1. Rem(r) \in Nat \ {0} /\ Rem(r) <= r.total /\ a - r.total \in Nat /\ r.count > 0
    BY <1>1, RingFacts
  <2> QED
    BY <1>1, <2>1 DEF LentOf
<1>2. CASE ~r.served
  BY <1>2, RingFacts, RingTypeMeans DEF LentOf
<1> QED
  BY <1>1, <1>2

(* Lent and Position, of the state before and after, as functions of it.     *)
LEMMA PositionFacts ==
  ASSUME InputInv
  PROVE  /\ Lent = LentOf(ring) /\ Position = PosOf(ring, arrived, call)
         /\ Lent' = LentOf(ring') /\ Position' = PosOf(ring', arrived', call')
BY DEF Lent, Position, LentOf, PosOf, SkipOps, Rem

-----------------------------------------------------------------------------
(* The members after the steps of the operations                             *)

(* reset_first_buffer_served gives up what was served and keeps the order.   *)
LEMMA ResetOrder ==
  ASSUME NEW r \in RingType, NEW a \in Nat, RingOrder(r, a)
  PROVE  LET p == ResetFirstBufferServed(r)
         IN  /\ p \in RingType /\ RingOrder(p, a) /\ ~p.served
             /\ a - p.total = (a - r.total) + LentOf(r)
             /\ p.total = r.total - LentOf(r)
<1>1. CASE r.served
  <2>1. ResetFirstBufferServed(r) = Popped(r)
    BY <1>1 DEF ResetFirstBufferServed, PopBuffer, Popped, Rem, RingType
  <2>2. Popped(r).served = FALSE /\ Popped(r).total = r.total - Rem(r)
    BY DEF Popped
  <2>3. LentOf(r) = Rem(r) /\ r.count > 0
    BY <1>1, LentFacts
  <2>4. Popped(r) \in RingType /\ RingOrder(Popped(r), a)
    BY <2>3, PoppedOrder
  <2>5. a - (r.total - LentOf(r)) = (a - r.total) + LentOf(r)
    BY LentFacts, RingTypeMeans
  <2> QED
    BY <2>1, <2>2, <2>3, <2>4, <2>5
<1>2. CASE ~r.served
  <2>1. ResetFirstBufferServed(r) = r /\ LentOf(r) = 0
    BY <1>2, LentFacts DEF ResetFirstBufferServed
  <2>2. a - r.total = (a - r.total) + 0 /\ r.total = r.total - 0
    BY RingFacts, RingTypeMeans
  <2> QED
    BY <1>2, <2>1, <2>2
<1> QED
  BY <1>1, <1>2

(* BackUp serves the first buffer no more and takes back its last bytes.     *)
LEMMA BackUpOrder ==
  ASSUME NEW r \in RingType, NEW a \in Nat, RingOrder(r, a), r.served,
         NEW n \in Nat, n <= Rem(r)
  PROVE  LET p == BackUpTo(r, n)
         IN  /\ p \in RingType /\ RingOrder(p, a) /\ ~p.served
             /\ a - p.total = ((a - r.total) + LentOf(r)) - n
<1>1. /\ LentOf(r) = Rem(r) /\ r.count > 0 /\ Rem(r) \in Nat /\ Rem(r) <= r.total
      /\ a - r.total \in Nat /\ r.total \in Nat
  BY LentFacts, RingTypeMeans
<1>2. CASE n > 0
  <2>1. BackUpTo(r, n) = Advanced(r, Rem(r) - n)
    BY <1>2 DEF BackUpTo, Advanced, Rem, RingType
  <2>2. Rem(r) - n \in Nat /\ Rem(r) - n < Rem(r)
    BY <1>1, <1>2
  <2>3. Advanced(r, Rem(r) - n) \in RingType /\ RingOrder(Advanced(r, Rem(r) - n), a)
    BY <1>1, <2>2, AdvancedOrder
  <2>4. Advanced(r, Rem(r) - n).served = FALSE /\ Advanced(r, Rem(r) - n).total = r.total - (Rem(r) - n)
    BY DEF Advanced
  <2>5. a - (r.total - (Rem(r) - n)) = ((a - r.total) + LentOf(r)) - n
    BY <1>1
  <2> QED
    BY <2>1, <2>3, <2>4, <2>5
<1>3. CASE n = 0
  <2>0. RemainedInTheFirstBuffer(r) - n = RemainedInTheFirstBuffer(r)
    BY <1>1, <1>3 DEF Rem
  <2>1. BackUpTo(r, n) = Popped(r)
    BY <1>3, <2>0, ~(0 < n) DEF BackUpTo, PopBuffer, Popped, Rem, RingType
  <2>2. Popped(r).served = FALSE /\ Popped(r).total = r.total - Rem(r)
    BY DEF Popped
  <2>3. Popped(r) \in RingType /\ RingOrder(Popped(r), a)
    BY <1>1, PoppedOrder
  <2>4. a - (r.total - Rem(r)) = ((a - r.total) + LentOf(r)) - 0
    BY <1>1
  <2> QED
    BY <1>3, <2>1, <2>2, <2>3, <2>4
<1> QED
  BY <1>2, <1>3

(* EXCEPT one member at a time. *)
LEMMA RingWith ==
  ASSUME NEW r \in RingType, NEW o, NEW t
  PROVE  [r EXCEPT !.offset = o, !.total = t]
           = [bufs |-> r.bufs, count |-> r.count, first |-> r.first,
              offset |-> o, total |-> t, served |-> r.served]
<1> DEFINE p == [r EXCEPT !.offset = o]
<1>1. p = [bufs |-> r.bufs, count |-> r.count, first |-> r.first,
           offset |-> o, total |-> r.total, served |-> r.served]
  BY DEF RingType
<1> HIDE DEF p
<1>2. [p EXCEPT !.total = t]
        = [bufs |-> r.bufs, count |-> r.count, first |-> r.first,
           offset |-> o, total |-> t, served |-> r.served]
  BY <1>1
<1> QED
  BY <1>2 DEF p

(* pop_buffer, field by field.                                               *)
LEMMA PopBufferIs ==
  ASSUME NEW r \in RingType
  PROVE  PopBuffer(r) = [bufs |-> r.bufs, count |-> r.count - 1, first |-> NextPos(r.first),
                         offset |-> 0, total |-> r.total, served |-> r.served]
<1> DEFINE p == [r EXCEPT !.count = r.count - 1]
           q == [p EXCEPT !.first = NextPos(r.first)]
<1>1. p = [bufs |-> r.bufs, count |-> r.count - 1, first |-> r.first,
           offset |-> r.offset, total |-> r.total, served |-> r.served]
  BY DEF RingType
<1>2. PopBuffer(r) = [q EXCEPT !.offset = 0]
  BY DEF PopBuffer
<1> HIDE DEF p
<1>3. q = [bufs |-> r.bufs, count |-> r.count - 1, first |-> NextPos(r.first),
           offset |-> r.offset, total |-> r.total, served |-> r.served]
  BY <1>1
<1> HIDE DEF q
<1>4. [q EXCEPT !.offset = 0]
        = [bufs |-> r.bufs, count |-> r.count - 1, first |-> NextPos(r.first),
           offset |-> 0, total |-> r.total, served |-> r.served]
  BY <1>3
<1> QED
  BY <1>2, <1>4

(* skip_bytes: within the first buffer, or past it.                          *)
LEMMA SkipOrder ==
  ASSUME NEW r \in RingType, NEW a \in Nat, RingOrder(r, a), ~r.served,
         NEW n \in Nat \ {0}, n <= r.total
  PROVE  /\ n < RemainedInTheFirstBuffer(r) =>
              LET p == [r EXCEPT !.offset = @ + n, !.total = @ - n]
              IN  /\ p \in RingType /\ RingOrder(p, a) /\ ~p.served
                  /\ p.total = r.total - n
         /\ ~(n < RemainedInTheFirstBuffer(r)) =>
              LET p == [PopBuffer(r) EXCEPT !.total = @ - RemainedInTheFirstBuffer(r)]
              IN  /\ p \in RingType /\ RingOrder(p, a) /\ ~p.served
                  /\ p.total = r.total - Rem(r)
                  /\ Rem(r) \in Nat /\ Rem(r) <= n
<1>1. r.count > 0 /\ Rem(r) \in Nat /\ r.total \in Nat /\ r.served = FALSE
  BY RingFacts, RingTypeMeans
<1>2. CASE n < Rem(r)
  <2>1. [r EXCEPT !.offset = @ + n, !.total = @ - n] = Advanced(r, n)
    BY <1>1, RingWith DEF Advanced
  <2>2. Advanced(r, n) \in RingType /\ RingOrder(Advanced(r, n), a)
    BY <1>1, <1>2, AdvancedOrder
  <2>3. Advanced(r, n).served = FALSE /\ Advanced(r, n).total = r.total - n
    BY DEF Advanced
  <2> QED
    BY <1>2, <2>1, <2>2, <2>3 DEF Rem
<1>3. CASE ~(n < Rem(r))
  <2>1. [PopBuffer(r) EXCEPT !.total = @ - RemainedInTheFirstBuffer(r)] = Popped(r)
    <3> DEFINE p == PopBuffer(r)
    <3>1. p = [bufs |-> r.bufs, count |-> r.count - 1, first |-> NextPos(r.first),
               offset |-> 0, total |-> r.total, served |-> r.served]
      BY PopBufferIs
    <3> HIDE DEF p
    <3>2. [p EXCEPT !.total = @ - RemainedInTheFirstBuffer(r)]
            = [bufs |-> r.bufs, count |-> r.count - 1, first |-> NextPos(r.first),
               offset |-> 0, total |-> r.total - RemainedInTheFirstBuffer(r),
               served |-> r.served]
      BY <3>1
    <3> QED
      BY <1>1, <3>2 DEF p, Popped, Rem
  <2>2. Popped(r) \in RingType /\ RingOrder(Popped(r), a)
    BY <1>1, PoppedOrder
  <2>3. Popped(r).served = FALSE /\ Popped(r).total = r.total - Rem(r)
    BY DEF Popped
  <2>4. Rem(r) <= n
    BY <1>1, <1>3
  <2> QED
    BY <1>1, <1>3, <2>1, <2>2, <2>3, <2>4 DEF Rem
<1> QED
  BY <1>2, <1>3

(* The slot behind the k-th buffer is the next buffer's.                     *)
LEMMA SlotBehind ==
  ASSUME NEW f \in Slots, NEW k \in 0..(Capacity - 1)
  PROVE  NextPos((f + k) % Capacity) = (f + (k + 1)) % Capacity
<1>1. f \in 0..(Capacity - 1) /\ Capacity \in Nat \ {0} /\ 1 \in 0..Capacity /\ k + 1 \in 0..Capacity
  BY InputAssumption DEF Slots
<1> DEFINE g == (f + k) % Capacity
<1>2. g \in Slots /\ g = IF f + k < Capacity THEN f + k ELSE f + k - Capacity
  <2>1. k \in 0..Capacity
    BY <1>1
  <2> QED
    BY <2>1, SlotFacts
<1>3. (f + (k + 1)) % Capacity = IF f + (k + 1) < Capacity THEN f + (k + 1) ELSE f + (k + 1) - Capacity
  BY <1>1, SlotFacts
<1> HIDE DEF g
<1>4. (g + 1) % Capacity = IF g + 1 < Capacity THEN g + 1 ELSE g + 1 - Capacity
  BY <1>1, <1>2, SlotFacts
<1>5. g \in 0..(Capacity - 1)
  BY <1>2 DEF Slots
<1>6. (g + 1) % Capacity = (f + (k + 1)) % Capacity
  BY <1>1, <1>2, <1>3, <1>4, <1>5
<1> QED
  BY <1>6 DEF g, NextPos

(* Where the buffer behind a buffer of the queue begins. *)
LEMMA InTheChain ==
  ASSUME NEW r \in RingType, NEW a \in Nat, RingOrder(r, a),
         NEW k \in 0..(r.count - 1), NEW x \in Nat, IsRun(BufAt(r, k), x)
  PROVE  /\ BufAt(r, k) \in Data /\ Len(BufAt(r, k)) \in Nat \ {0}
         /\ x + Len(BufAt(r, k)) <= a
         /\ k + 1 = r.count => x + Len(BufAt(r, k)) = a
         /\ k + 1 < r.count => /\ Len(BufAt(r, k + 1)) > 0
                               /\ IsRun(BufAt(r, k + 1), x + Len(BufAt(r, k)))
<1>0. r.count \in Nat /\ r.count <= Capacity /\ Capacity \in Nat \ {0} /\ k \in 0..Capacity
  BY RingTypeMeans
<1>1. PICK st \in [0..r.count -> 0..a] : Chain(r, a, st)
  BY DEF RingOrder
<1>2. /\ Len(BufAt(r, k)) > 0 /\ IsRun(BufAt(r, k), st[k])
      /\ st[k + 1] = st[k] + Len(BufAt(r, k)) /\ st[r.count] = a
      /\ k + 1 < r.count => Len(BufAt(r, k + 1)) > 0 /\ IsRun(BufAt(r, k + 1), st[k + 1])
  <2>1. k + 1 < r.count => k + 1 \in 0..(r.count - 1)
    BY <1>0
  <2> QED
    BY <1>1, <2>1 DEF Chain
<1>3. BufAt(r, k) \in Data /\ Len(BufAt(r, k)) \in Nat
  BY <1>0, BufData
<1>4. st[k] \in 0..a /\ st[k + 1] \in 0..a
  BY <1>0
<1>5. st[k] = x
  <2>1. 1 \in 1..Len(BufAt(r, k))
    BY <1>2, <1>3
  <2>2. BufAt(r, k)[1] = st[k] + 1 /\ BufAt(r, k)[1] = x + 1
    BY <1>2, <2>1 DEF IsRun
  <2> QED
    BY <1>4, <2>2
<1> QED
  BY <1>2, <1>3, <1>4, <1>5

(* A run continued by a run is the run of both.                              *)
LEMMA CatBytes ==
  ASSUME NEW f \in Nat, NEW m \in Nat, f + m <= MaxBytes, NEW s \in Data, IsRun(s, f + m)
  PROVE  Bytes(f, m) \o s = Bytes(f, m + Len(s))
<1>1. Bytes(f, m) \in Data /\ Len(Bytes(f, m)) = m /\ IsRun(Bytes(f, m), f)
  BY BytesFacts
<1>2. Bytes(f, m) \o s \in Data /\ Len(Bytes(f, m) \o s) = m + Len(s)
      /\ IsRun(Bytes(f, m) \o s, f)
  BY <1>1, ConcatRun
<1> QED
  BY <1>2, RunIsBytes

(* A piece of length zero is empty.                                          *)
LEMMA NothingOf ==
  ASSUME NEW s \in Data
  PROVE  SubSeq(s, 0 + 1, 0 + 0) = <<>>
<1>1. SubSeq(s, 1, 0) \in Data /\ Len(SubSeq(s, 1, 0)) = 0
  <2>1. \A i \in 1..0 : s[i] \in 1..MaxBytes
    OBVIOUS
  <2> QED
    BY <2>1, SubSeqProperties DEF Data
<1> QED
  BY <1>1, DataFacts, 0 + 1 = 1, 0 + 0 = 0

(* One step of copy_n_bytes_to: what it takes, and where it goes on. *)
LEMMA CopyOrder ==
  ASSUME NEW r \in RingType, NEW a \in Nat, a <= MaxBytes, RingOrder(r, a),
         NEW c \in CallType, CallOrder(r, a, c), c.op \in CopyOps
  PROVE  LET buf      == r.bufs[c.slot]
             remained == Len(buf) - c.off
             last     == c.left < remained
             n        == IF last THEN c.left ELSE remained
             dest     == c.dest \o SubSeq(buf, c.off + 1, c.off + n)
         IN  /\ n \in Nat /\ n <= c.left /\ c.arg <= r.total /\ a - r.total \in Nat
             /\ dest \in Data
             /\ dest = Bytes(a - r.total, (c.arg - c.left) + n)
             /\ CopyPlace(r, a, [op |-> c.op, arg |-> c.arg, left |-> c.left - n,
                                 slot |-> NextPos(c.slot), off |-> 0, dest |-> dest]) \/ last
<1> DEFINE l        == c.left
           o        == c.off
           t        == r.total
           buf      == r.bufs[c.slot]
           lb       == Len(buf)
           remained == Len(buf) - c.off
           last     == c.left < remained
           n        == IF last THEN c.left ELSE remained
           part     == SubSeq(buf, c.off + 1, c.off + n)
           b        == a - r.total
           g        == c.arg - c.left
           e        == c.arg
           d        == c.dest \o part
           q        == [op |-> c.op, arg |-> c.arg, left |-> c.left - n,
                        slot |-> NextPos(c.slot), off |-> 0, dest |-> d]
<1>1. /\ l \in Nat /\ e \in Nat /\ o \in Nat /\ c.slot \in Slots /\ c.dest \in Data
      /\ l <= e /\ e <= t /\ c.dest = Bytes(b, g) /\ CopyPlace(r, a, c)
  BY DEF CallType, CallOrder
<1>2. /\ r.count \in Nat /\ t \in Nat /\ r.first \in Slots /\ r.count <= Capacity
      /\ Capacity \in Nat \ {0} /\ t <= a
  BY RingTypeMeans, RingFacts
<1>3. buf \in Data /\ lb \in Nat
  BY <1>1, RingTypeMeans, DataFacts
<1>4. /\ remained = lb - o /\ n = IF l < remained THEN l ELSE remained
      /\ g = e - l /\ b = a - t
  OBVIOUS
<1>5. last <=> l < remained
  OBVIOUS
<1>6. /\ part = SubSeq(buf, o + 1, o + n) /\ d = c.dest \o part
      /\ buf = r.bufs[c.slot] /\ lb = Len(buf)
  OBVIOUS
<1>7. q.left = l - n /\ q.off = 0 /\ q.arg = e /\ q.slot = NextPos(c.slot)
  OBVIOUS
<1>8. CallAt(r, a, c) = b + g /\ CallAt(r, a, q) = b + (e - (l - n))
  BY DEF CallAt
<1> HIDE DEF l, o, t, buf, lb, remained, last, n, part, b, g, e, q, d
<1>9. g \in Nat /\ g <= t /\ b \in Nat /\ b + t = a /\ b + g <= MaxBytes /\ b + g \in Nat
  BY <1>1, <1>2, <1>4, InputAssumption
<1> DEFINE Goal == /\ n \in Nat /\ n <= l
                   /\ d \in Data /\ d = Bytes(b, g + n)
                   /\ CopyPlace(r, a, q) \/ last
<1>10. ASSUME l = 0 /\ o = 0 PROVE Goal
  <2>1. n = 0
    BY <1>3, <1>4, <1>10
  <2>2. part = <<>>
    <3>1. part = SubSeq(buf, 0 + 1, 0 + 0)
      BY <1>6, <1>10, <2>1
    <3> QED
      BY <1>3, <3>1, NothingOf
  <2>3. d = c.dest
    BY <1>1, <1>6, <2>2, DataFacts
  <2>4. c.dest = Bytes(b, g + n)
    <3>1. g + n = g
      BY <1>9, <2>1
    <3> QED
      BY <1>1, <3>1
  <2>5. CopyPlace(r, a, q)
    <3>1. q.left = 0 /\ q.off = 0
      BY <1>7, <1>10, <2>1
    <3> QED
      BY <3>1 DEF CopyPlace
  <2>6. n \in Nat /\ n <= l
    BY <1>10, <2>1
  <2>7. d \in Data /\ d = Bytes(b, g + n)
    BY <1>1, <2>3, <2>4
  <2> QED
    BY <2>5, <2>6, <2>7
<1>11. ASSUME NEW k \in 0..(r.count - 1),
             c.slot = (r.first + k) % Capacity,
             o < Len(BufAt(r, k)), o <= b + g,
             IsRun(BufAt(r, k), (b + g) - o)
      PROVE  Goal
  <2> DEFINE x == (b + g) - o
  <2>1. buf = BufAt(r, k) /\ o < lb /\ IsRun(buf, x)
    BY <1>6, <1>11 DEF BufAt
  <2>2. x \in Nat /\ x + o = b + g
    BY <1>1, <1>9, <1>11
  <2> HIDE DEF x
  <2>3. remained \in Nat \ {0} /\ n \in Nat /\ n <= l /\ o + n <= lb
    BY <1>1, <1>3, <1>4, <2>1
  <2>4. /\ part \in Data /\ Len(part) = n /\ IsRun(part, b + g)
    <3>1. /\ part \in Data /\ Len(part) = n /\ IsRun(part, x + o)
      <4>1. /\ buf \in Data /\ x \in Nat /\ IsRun(buf, x) /\ o \in Nat /\ n \in Nat
            /\ o + n <= Len(buf)
        BY <1>1, <1>3, <1>6, <2>1, <2>2, <2>3
      <4>2. /\ SubSeq(buf, o + 1, o + n) \in Data /\ Len(SubSeq(buf, o + 1, o + n)) = n
            /\ IsRun(SubSeq(buf, o + 1, o + n), x + o)
        BY <4>1, PartOfRun
      <4> QED
        BY <1>6, <4>2
    <3> QED
      BY <2>2, <3>1
  <2>5. d = Bytes(b, g + n)
    <3>1. Bytes(b, g) \o part = Bytes(b, g + Len(part))
      BY <1>9, <2>4, CatBytes
    <3> QED
      BY <1>1, <1>6, <2>4, <3>1
  <2>6. d \in Data
    BY <1>1, <1>6, <2>4, ConcatRun
  <2>7. ASSUME ~last PROVE CopyPlace(r, a, q)
    <3>1. n = remained /\ lb = o + n
      BY <1>1, <1>3, <1>4, <1>5, <2>3, <2>7
    <3>2. CASE l = n
      <4>1. q.left = 0 /\ q.off = 0
        BY <1>1, <1>7, <3>2
      <4> QED
        BY <4>1 DEF CopyPlace
    <3>3. CASE l > n
      <4> DEFINE y == x + lb
      <4>0. y = (b + g) + n /\ y \in Nat
        BY <1>1, <1>3, <1>9, <2>2, <2>3, <3>1
      <4>1. IsRun(BufAt(r, k), x)
        BY <2>1
      <4>2. k + 1 # r.count
        <5> SUFFICES ASSUME k + 1 = r.count PROVE FALSE
          OBVIOUS
        <5>1. x + lb = a
          BY <1>6, <2>1, <2>2, <4>1, InTheChain
        <5>2. g + n < t
          BY <1>1, <1>2, <1>4, <2>3, <3>3
        <5> QED
          BY <1>2, <1>9, <2>3, <4>0, <5>1, <5>2
      <4>3. k + 1 < r.count /\ k + 1 \in 0..(r.count - 1) /\ k \in 0..(Capacity - 1)
        BY <1>2, <4>2
      <4>4. Len(BufAt(r, k + 1)) > 0 /\ IsRun(BufAt(r, k + 1), y)
        BY <1>6, <2>1, <2>2, <4>1, <4>3, InTheChain
      <4> HIDE DEF y
      <4>5. CallAt(r, a, q) = y
        <5>1. b + (e - (l - n)) = (b + g) + n
          BY <1>1, <1>4, <1>9, <2>3
        <5> QED
          BY <1>8, <4>0, <5>1
      <4>6. q.slot = (r.first + (k + 1)) % Capacity
        BY <1>2, <1>7, <1>11, <4>3, SlotBehind
      <4>7. /\ q.off < Len(BufAt(r, k + 1)) /\ q.off <= CallAt(r, a, q)
            /\ CallAt(r, a, q) - q.off = y
        BY <1>7, <4>0, <4>4, <4>5
      <4> QED
        BY <4>3, <4>4, <4>6, <4>7 DEF CopyPlace
    <3> QED
      BY <1>1, <2>3, <3>2, <3>3
  <2> QED
    BY <2>3, <2>5, <2>6, <2>7
<1> HIDE DEF Goal
<1>12. Goal
  <2>1. CASE ~(l = 0 /\ o = 0)
    <3>1. PICK k \in 0..(r.count - 1) :
                 /\ c.slot = (r.first + k) % Capacity
                 /\ o < Len(BufAt(r, k)) /\ o <= b + g
                 /\ IsRun(BufAt(r, k), (b + g) - o)
      BY <1>1, <1>8, <2>1 DEF CopyPlace, l, o
    <3> QED
      BY <1>11, <3>1 DEF Goal
  <2> QED
    BY <1>10, <2>1 DEF Goal
<1> QED
  BY <1>1, <1>9, <1>12 DEF Goal, l, o, t, buf, lb, remained, last, n, part, b, g, e, q, d

Kept == InputInv' /\ (LongSkips \/ [Stream!Step]_(Stream!vars))

(* The invariant in the form the steps need it.                              *)
LEMMA InvFacts ==
  ASSUME InputInv
  PROVE  /\ ring \in RingType /\ arrived \in Nat /\ arrived <= MaxBytes /\ MaxBytes \in Nat
         /\ RingOrder(ring, arrived) /\ CallOrder(ring, arrived, call)
         /\ CountOrder(ring, arrived, call, byteCount, taken)
         /\ call \in CallType /\ done \in DoneType
         /\ byteCount \in Nat /\ taken \in Nat
         /\ ring.total \in Nat /\ ring.total <= arrived /\ arrived - ring.total \in Nat
         /\ LentOf(ring) \in Nat /\ LentOf(ring) <= ring.total
         /\ ring.served => LentOf(ring) = Rem(ring) /\ LentOf(ring) > 0
         /\ ~ring.served => LentOf(ring) = 0
<1>1. ring \in RingType /\ arrived \in Nat /\ arrived <= MaxBytes /\ MaxBytes \in Nat
      /\ RingOrder(ring, arrived)
  BY InputAssumption DEF InputInv
<1> QED
  BY <1>1, RingFacts, RingTypeMeans, LentFacts DEF InputInv

(* append keeps the invariant, and is an arrival in the abstract stream.     *)
LEMMA AppendKeeps ==
  ASSUME InputInv, NEW n \in 1..MaxBuf, AppendBuf(n)
  PROVE  Kept
<1>1. n \in Nat \ {0} /\ call = Idle /\ call' = Idle /\ ~ring.served /\ arrived + n <= MaxBytes
      /\ ring' = AppendTo(ring, Bytes(arrived, n)) /\ arrived' = arrived + n
      /\ done' = Result("append", n, TRUE, <<>>)
      /\ byteCount' = byteCount /\ taken' = taken
  BY InputAssumption DEF AppendBuf
<1>2. ring' \in RingType /\ RingOrder(ring', arrived') /\ ring'.total = ring.total + n /\ ~ring'.served
  BY <1>1, InvFacts, AppendOrder
<1>3. arrived' \in Nat /\ arrived' <= MaxBytes /\ arrived' - arrived = n /\ arrived' > arrived
  BY <1>1, InvFacts
<1>4. arrived' - ring'.total = arrived - ring.total
  BY <1>1, <1>2, InvFacts
<1>5. LentOf(ring) = 0 /\ LentOf(ring') = 0
  BY <1>1, <1>2, InvFacts, LentFacts DEF LentOf
<1>6. /\ call' \in CallType /\ CallOrder(ring', arrived', call')
      /\ PosOf(ring', arrived', call') = PosOf(ring, arrived, call)
  <2>1. /\ call' \in CallType /\ CallOrder(ring', arrived', call')
        /\ PosOf(ring', arrived', call') = (arrived' - ring'.total) + LentOf(ring')
    BY <1>1, <1>2, <1>3, IdleOrder
  <2>2. PosOf(ring, arrived, call) = (arrived - ring.total) + LentOf(ring)
    BY <1>1, InvFacts, IdleOrder
  <2> QED
    BY <1>4, <1>5, <2>1, <2>2
<1>7. CountOrder(ring', arrived', call', byteCount', taken')
  BY <1>1, <1>5, <1>6, InvFacts DEF CountOrder
<1>8. done' \in DoneType
  BY <1>1, EmptySeq DEF Result, DoneType, Data
<1>9. InputInv'
  <2>1. arrived' \in 0..MaxBytes /\ byteCount' \in Nat /\ taken' \in Nat
    BY <1>1, <1>3, InvFacts
  <2> QED
    BY <1>2, <1>6, <1>7, <1>8, <2>1 DEF InputInv
<1>10. Stream!AppendBuf
  BY <1>1, <1>3, <1>5, <1>6, PositionFacts DEF Stream!AppendBuf, Stream!Result, Result
<1> QED
  BY <1>9, <1>10 DEF Kept, Stream!Step

(* BackUp keeps the invariant, and returns the bytes it should.              *)
LEMMA BackUpKeeps ==
  ASSUME InputInv, NEW n \in 0..MaxBytes, BackUp(n)
  PROVE  Kept
<1>1. n \in Nat /\ call = Idle /\ call' = Idle /\ ring.served /\ n <= Rem(ring)
      /\ ring' = BackUpTo(ring, n) /\ arrived' = arrived
      /\ done' = Result("BackUp", n, TRUE, <<>>)
      /\ byteCount' = byteCount - n /\ taken' = taken
  BY InputAssumption DEF BackUp, Rem
<1>2. ring' \in RingType /\ RingOrder(ring', arrived') /\ ~ring'.served
      /\ arrived' - ring'.total = ((arrived - ring.total) + LentOf(ring)) - n
  BY <1>1, InvFacts, BackUpOrder
<1>3. LentOf(ring') = 0 /\ n <= LentOf(ring)
  BY <1>1, <1>2, InvFacts DEF LentOf
<1>4. /\ call' \in CallType /\ CallOrder(ring', arrived', call')
      /\ PosOf(ring, arrived, call) = (arrived - ring.total) + LentOf(ring)
      /\ PosOf(ring', arrived', call') = (arrived' - ring'.total) + LentOf(ring')
  BY <1>1, <1>2, InvFacts, IdleOrder
<1> DEFINE p == PosOf(ring, arrived, call)
           q == PosOf(ring', arrived', call')
           m == LentOf(ring)
           k == taken
           b == arrived - ring.total
<1>5. p = b + m /\ b \in Nat /\ m \in Nat /\ q = p - n /\ n <= m
  BY <1>1, <1>2, <1>3, <1>4, InvFacts, SMTT(20)
<1>6. k <= p - m /\ Counts(byteCount, (p - k) + 0) /\ k \in Nat /\ byteCount \in Nat
  BY <1>1, InvFacts DEF CountOrder, Idle
<1> HIDE DEF p, q, m, k, b
<1>7. k <= q - 0 /\ Counts(byteCount - n, (q - k) + 0) /\ byteCount - n \in Nat
  BY <1>1, <1>5, <1>6 DEF Counts
<1>8. CountOrder(ring', arrived', call', byteCount', taken')
  BY <1>1, <1>3, <1>7 DEF CountOrder, Idle, q, k
<1>9. done' \in DoneType
  BY <1>1, EmptySeq DEF Result, DoneType, Data
<1>10. InputInv'
  BY <1>1, <1>2, <1>4, <1>7, <1>8, <1>9, InvFacts DEF InputInv
<1>11. Stream!BackUp
  <2>1. done'.arg = n /\ n \in 0..LentOf(ring)
    BY <1>1, <1>3, InvFacts DEF Result
  <2> QED
    BY <1>1, <1>3, <1>5, <2>1, PositionFacts DEF Stream!BackUp, Stream!Result, Result, p, q
<1> QED
  BY <1>10, <1>11 DEF Kept, Stream!Step

(* Next serves what remains of the first buffer: the bytes that are due.     *)
LEMMA ServedOrder ==
  ASSUME NEW r \in RingType, NEW a \in Nat, RingOrder(r, a), ~r.served, r.total # 0
  PROVE  LET p == [r EXCEPT !.served = TRUE]
             s == SubSeq(r.bufs[r.first], r.offset + 1, Len(r.bufs[r.first]))
         IN  /\ p \in RingType /\ RingOrder(p, a) /\ p.served = TRUE /\ p.total = r.total
             /\ LentOf(p) = Rem(r)
             /\ s \in Data /\ s = Bytes(a - r.total, Rem(r))
<1> DEFINE p == [r EXCEPT !.served = TRUE]
           buf == r.bufs[r.first]
           o == r.offset
           n == Rem(r)
           b == a - r.total
<1>1. /\ p.bufs = r.bufs /\ p.count = r.count /\ p.first = r.first
      /\ p.offset = r.offset /\ p.total = r.total /\ p.served = TRUE /\ p \in RingType
  BY DEF RingType
<1> HIDE DEF p
<1>2. /\ r.count > 0 /\ n \in Nat \ {0} /\ n = Len(BufAt(r, 0)) - o /\ BufAt(r, 0) \in Data
      /\ o <= b /\ IsRun(BufAt(r, 0), b - o) /\ b \in Nat /\ o \in Nat
  BY RingFacts, RingTypeMeans
<1>3. buf = BufAt(r, 0) /\ Len(buf) \in Nat
  BY <1>2, FirstSlot, DataFacts
<1>4. RingOrder(p, a)
  <2>1. PICK st \in [0..r.count -> 0..a] : Chain(r, a, st)
    BY DEF RingOrder
  <2>2. \A i : BufAt(p, i) = BufAt(r, i)
    BY <1>1 DEF BufAt
  <2>3. Chain(p, a, st)
    BY <1>1, <1>2, <2>1, <2>2 DEF Chain
  <2> QED
    BY <1>1, <2>1, <2>3 DEF RingOrder
<1>5. LentOf(p) = n
  BY <1>1 DEF LentOf, Rem, RemainedInTheFirstBuffer
<1> HIDE DEF n, b, o, buf
<1> DEFINE s == SubSeq(buf, o + 1, o + n)
<1>6. o + n = Len(buf) /\ b - o \in Nat /\ (b - o) + o = b /\ IsRun(buf, b - o) /\ buf \in Data
  BY <1>2, <1>3
<1>7. s \in Data /\ Len(s) = n /\ IsRun(s, b)
  <2> DEFINE x == b - o
  <2>1. /\ x \in Nat /\ x + o = b /\ IsRun(buf, x) /\ buf \in Data /\ o \in Nat /\ n \in Nat
        /\ o + n <= Len(buf)
    BY <1>2, <1>3, <1>6
  <2> HIDE DEF x
  <2>2. s \in Data /\ Len(s) = n /\ IsRun(s, x + o)
    BY <2>1, PartOfRun, ZenonT(40)
  <2> QED
    BY <2>1, <2>2
<1>8. s = Bytes(b, n)
  BY <1>2, <1>7, RunIsBytes
<1>9. SubSeq(buf, o + 1, Len(buf)) = s
  BY <1>6
<1> HIDE DEF s
<1> QED
  BY <1>1, <1>4, <1>5, <1>7, <1>8, <1>9 DEF p, n, b, o, buf

(* Next lends what remains of the first buffer.                              *)
LEMMA NextKeeps ==
  ASSUME InputInv, NextChunk
  PROVE  Kept
<1> DEFINE r == ResetFirstBufferServed(ring)
           n == Rem(r)
           chunk == SubSeq(r.bufs[r.first], r.offset + 1, Len(r.bufs[r.first]))
<1>1. /\ call = Idle /\ call' = Idle /\ arrived' = arrived /\ taken' = taken
      /\ r.total = 0 => /\ ring' = r /\ byteCount' = byteCount
                        /\ done' = Result("Next", 0, FALSE, <<>>)
      /\ r.total # 0 => /\ ring' = [r EXCEPT !.served = TRUE] /\ byteCount' = byteCount + n
                        /\ done' = Result("Next", 0, TRUE, chunk)
  BY DEF NextChunk, Rem
<1>2. r \in RingType /\ RingOrder(r, arrived) /\ ~r.served
      /\ arrived - r.total = (arrived - ring.total) + LentOf(ring)
  BY InvFacts, ResetOrder
<1>3. /\ call' \in CallType /\ CallOrder(ring', arrived', call')
      /\ PosOf(ring, arrived, call) = (arrived - ring.total) + LentOf(ring)
      /\ ring' \in RingType => PosOf(ring', arrived', call') = (arrived' - ring'.total) + LentOf(ring')
  <2>1. PosOf(ring, arrived, call) = (arrived - ring.total) + LentOf(ring)
    BY <1>1, InvFacts, IdleOrder
  <2>2. ASSUME NEW x PROVE CallOrder(x, arrived', call') /\ call' \in CallType
      /\ PosOf(x, arrived', call') = (arrived' - x.total) + LentOf(x)
    BY <1>1, IdleOrder, InvFacts DEF CallOrder, Idle, SkipOps, CopyOps, PosOf
  <2> QED
    BY <2>1, <2>2
<1> DEFINE p == PosOf(ring, arrived, call)
           q == PosOf(ring', arrived', call')
           m == LentOf(ring)
           k == taken
           b == arrived - ring.total
<1>4. p = b + m /\ b \in Nat /\ m \in Nat /\ arrived - r.total = p
  BY <1>2, <1>3, InvFacts
<1>5. k <= p - m /\ Counts(byteCount, (p - k) + 0) /\ k \in Nat
      /\ byteCount \in Nat
  BY <1>1, InvFacts DEF CountOrder, Idle
<1> HIDE DEF p, q, m, k, b, r
<1>6. CASE r.total = 0
  <2>1. ring' = r /\ byteCount' = byteCount /\ done' = Result("Next", 0, FALSE, <<>>)
    BY <1>1, <1>6
  <2>2. LentOf(ring') = 0 /\ q = p /\ p = arrived
    <3>1. LentOf(ring') = 0 /\ q = p + 0
      BY <1>1, <1>2, <1>3, <1>4, <2>1 DEF LentOf, q
    <3>2. p = arrived
      BY <1>4, <1>6, InvFacts
    <3> QED
      BY <1>4, <3>1, <3>2
  <2>3. CountOrder(ring', arrived', call', byteCount', taken')
    <3>1. k <= q - 0 /\ Counts(byteCount, (q - k) + 0)
      BY <1>4, <1>5, <2>2 DEF Counts
    <3> QED
      BY <1>1, <2>1, <2>2, <3>1 DEF CountOrder, Idle, q, k
  <2>4. done' \in DoneType
    BY <2>1, EmptySeq DEF Result, DoneType, Data
  <2>5. InputInv'
    BY <1>1, <1>2, <1>3, <2>1, <2>3, <2>4, InvFacts DEF InputInv
  <2>6. Stream!NextChunk
    BY <1>1, <2>1, <2>2, PositionFacts DEF Stream!NextChunk, Stream!Result, Result, p, q
  <2> QED
    BY <2>5, <2>6 DEF Kept, Stream!Step
<1>7. CASE r.total # 0
  <2>1. /\ ring' = [r EXCEPT !.served = TRUE] /\ byteCount' = byteCount + n
        /\ done' = Result("Next", 0, TRUE, chunk)
    BY <1>1, <1>7
  <2>2. /\ ring' \in RingType /\ RingOrder(ring', arrived) /\ ring'.total = r.total
        /\ LentOf(ring') = n
        /\ chunk \in Data /\ chunk = Bytes(arrived - r.total, n)
    BY <1>2, <1>7, <2>1, InvFacts, ServedOrder
  <2>3. n \in Nat \ {0} /\ n <= r.total /\ r.total \in Nat
    BY <1>2, <1>7, InvFacts, RingFacts, RingTypeMeans
  <2> HIDE DEF n, chunk
  <2>4. q = p + n
    BY <1>1, <1>3, <1>4, <2>2 DEF q
  <2>5. q <= arrived /\ p < q /\ q - p = n
    BY <1>4, <2>3, <2>4, InvFacts
  <2>6. CountOrder(ring', arrived', call', byteCount', taken')
    <3>1. k <= q - n /\ Counts(byteCount + n, (q - k) + 0)
      BY <1>4, <1>5, <2>3, <2>4 DEF Counts
    <3> QED
      BY <1>1, <2>1, <2>2, <3>1 DEF CountOrder, Idle, q, k
  <2>7. done' \in DoneType
    BY <2>1, <2>2 DEF Result, DoneType
  <2>8. InputInv'
    <3>1. byteCount' \in Nat
      BY <1>5, <2>1, <2>3
    <3> QED
      BY <1>1, <1>3, <2>2, <2>6, <2>7, <3>1, InvFacts DEF InputInv
  <2>9. Stream!NextChunk
    <3>1. chunk = Stream!Bytes(p, n)
      BY <1>4, <2>2 DEF Bytes, Stream!Bytes
    <3> QED
      BY <1>1, <2>1, <2>2, <2>5, <3>1, PositionFacts DEF Stream!NextChunk, Stream!Result, Result, p, q
  <2> QED
    BY <2>8, <2>9 DEF Kept, Stream!Step
<1> QED
  BY <1>6, <1>7

Call(op, n, slot, off, dest) ==
  [op |-> op, arg |-> n, left |-> n, slot |-> slot, off |-> off, dest |-> dest]

(* The new calls as the operations write them *)
CallFor(op, n) == [Idle EXCEPT !.op = op, !.arg = n, !.left = n]
CopyFor(op, n, slot, off) ==
  [Idle EXCEPT !.op = op, !.arg = n, !.left = n, !.slot = slot, !.off = off]
SkipFor(op, n, dest) == [Idle EXCEPT !.op = op, !.arg = n, !.left = n, !.dest = dest]

(* A new call is the record of what was asked.                               *)
LEMMA NewCall ==
  ASSUME NEW op, NEW n, NEW slot, NEW off, NEW dest
  PROVE  /\ CallFor(op, n) = Call(op, n, 0, 0, <<>>)
         /\ CopyFor(op, n, slot, off) = Call(op, n, slot, off, <<>>)
         /\ SkipFor(op, n, dest) = Call(op, n, 0, 0, dest)
<1> DEFINE c1 == [Idle EXCEPT !.op = op]
           c2 == [c1 EXCEPT !.arg = n]
           c3 == [c2 EXCEPT !.left = n]
           c4 == [c3 EXCEPT !.slot = slot]
           c5 == [c4 EXCEPT !.off = off]
           c6 == [c3 EXCEPT !.dest = dest]
<1>1. c1 = [op |-> op, arg |-> 0, left |-> 0, slot |-> 0, off |-> 0, dest |-> <<>>]
  BY DEF Idle
<1> HIDE DEF c1
<1>2. c2 = [op |-> op, arg |-> n, left |-> 0, slot |-> 0, off |-> 0, dest |-> <<>>]
  BY <1>1
<1> HIDE DEF c2
<1>3. c3 = [op |-> op, arg |-> n, left |-> n, slot |-> 0, off |-> 0, dest |-> <<>>]
  BY <1>2
<1> HIDE DEF c3
<1>4. c4 = [op |-> op, arg |-> n, left |-> n, slot |-> slot, off |-> 0, dest |-> <<>>]
  BY <1>3
<1>5. c6 = [op |-> op, arg |-> n, left |-> n, slot |-> 0, off |-> 0, dest |-> dest]
  BY <1>3
<1> HIDE DEF c4, c6
<1>6. c5 = [op |-> op, arg |-> n, left |-> n, slot |-> slot, off |-> off, dest |-> <<>>]
  BY <1>4
<1> HIDE DEF c5
<1> QED
  BY <1>3, <1>5, <1>6 DEF Call, CallFor, CopyFor, SkipFor, c1, c2, c3, c4, c5, c6

(* No bytes are the empty piece.                                             *)
LEMMA BytesOfNone ==
  ASSUME NEW a
  PROVE  Bytes(a, 0) = <<>> /\ <<>> \in Data
<1>1. Bytes(a, 0) = [i \in {} |-> a + i]
  BY 1..0 = {} DEF Bytes
<1> QED
  BY <1>1, EmptySeq DEF Data

(* The call of Skip keeps the invariant.                                     *)
LEMMA SkipKeeps ==
  ASSUME InputInv, NEW n \in 0..MaxBytes, Skip(n)
  PROVE  Kept
<1> DEFINE r == ResetFirstBufferServed(ring)
           p == PosOf(ring, arrived, call)
           q == PosOf(ring', arrived', call')
           m == LentOf(ring)
           k == taken
           b == arrived - ring.total
<1>1. /\ n \in Nat /\ call = Idle /\ arrived' = arrived /\ taken' = taken
      /\ ring' = r /\ byteCount' = byteCount + n
      /\ LongSkips \/ n <= r.total
      /\ r.total < n => done' = Result("Skip", n, FALSE, <<>>) /\ call' = Idle
      /\ ~(r.total < n) => call' = Call("Skip", n, 0, 0, <<>>) /\ done' = done
  <2> DEFINE c == CallFor("Skip", n)
  <2>1. c = Call("Skip", n, 0, 0, <<>>)
    BY NewCall
  <2>2. n \in Nat
    BY InputAssumption
  <2>3. /\ call = Idle /\ arrived' = arrived /\ taken' = taken
        /\ ring' = r /\ byteCount' = byteCount + n
        /\ LongSkips \/ n <= r.total
        /\ r.total < n => done' = Result("Skip", n, FALSE, <<>>) /\ call' = Idle
        /\ ~(r.total < n) => call' = c /\ done' = done
    <3> HIDE DEF r
    <3> QED
      BY DEF Skip, CallFor, r
  <2> HIDE DEF c, r
  <2> QED
    BY <2>1, <2>2, <2>3
<1>2. r \in RingType /\ RingOrder(r, arrived) /\ ~r.served
      /\ arrived - r.total = (arrived - ring.total) + LentOf(ring)
  BY InvFacts, ResetOrder
<1>3. p = (arrived - ring.total) + LentOf(ring)
  BY <1>1, InvFacts, IdleOrder
<1>4. /\ p = b + m /\ b \in Nat /\ m \in Nat /\ p \in Nat /\ arrived - r.total = p
      /\ r.total \in Nat /\ r.total <= arrived /\ arrived \in Nat
  BY <1>2, <1>3, InvFacts, RingFacts, RingTypeMeans
<1>5. k <= p - m /\ Counts(byteCount, (p - k) + 0) /\ k \in Nat
      /\ byteCount \in Nat
  BY <1>1, InvFacts DEF CountOrder, Idle
<1> HIDE DEF r
<1>6. LentOf(ring') = 0
  BY <1>1, <1>2 DEF LentOf
<1>7. Lent = m /\ Position = p /\ Lent' = 0 /\ Position' = q
  BY <1>6, PositionFacts
<1> HIDE DEF p, q, m, k, b
<1>8. CASE r.total < n
  <2>1. LongSkips /\ done' = Result("Skip", n, FALSE, <<>>) /\ call' = Idle
    <3>1. ~(n <= r.total)
      BY <1>1, <1>4, <1>8
    <3> QED
      BY <1>1, <1>8, <3>1, Zenon
  <2>2. q = p
    <3>1. q = (arrived' - ring'.total) + LentOf(ring')
      BY <1>1, <1>2, <2>1, InvFacts, IdleOrder DEF q
    <3> QED
      BY <1>1, <1>4, <1>6, <3>1
  <2>3. CountOrder(ring', arrived', call', byteCount', taken')
    <3>1. k <= q - 0 /\ Counts(byteCount + n, (q - k) + 0)
      BY <1>1, <1>4, <1>5, <2>1, <2>2 DEF Counts
    <3> QED
      BY <1>1, <1>6, <2>1, <3>1 DEF CountOrder, Idle, q, k
  <2>4. done' \in DoneType
    BY <1>1, <2>1, EmptySeq DEF Result, DoneType, Data
  <2>5. call' \in CallType /\ CallOrder(ring', arrived', call')
    BY <1>1, <1>2, <2>1, InvFacts, IdleOrder
  <2>6. InputInv'
    <3>1. byteCount' \in Nat
      BY <1>1, <1>5, <2>1
    <3> QED
      BY <1>1, <1>2, <2>3, <2>4, <2>5, <3>1, InvFacts DEF InputInv
  <2> QED
    BY <2>1, <2>6 DEF Kept
<1>9. CASE ~(r.total < n)
  <2>1. call' = Call("Skip", n, 0, 0, <<>>) /\ done' = done
    BY <1>1, <1>9
  <2>2. call'.op = "Skip" /\ call'.arg = n /\ call'.left = n
    BY <2>1 DEF Call
  <2>3. q = p
    <3>1. q = (arrived - r.total) - (n - n)
      BY <1>1, <2>2 DEF q, PosOf, SkipOps
    <3> QED
      BY <1>1, <1>4, <3>1
  <2>4. CountOrder(ring', arrived', call', byteCount', taken')
    <3>1. k <= q - 0 /\ Counts(byteCount + n, (q - k) + n)
      BY <1>1, <1>4, <1>5, <2>3 DEF Counts
    <3> QED
      BY <1>1, <1>6, <2>1, <2>2, <3>1 DEF CountOrder, q, k
  <2>5. call' \in CallType /\ CallOrder(ring', arrived', call')
    <3>1. call' \in CallType
      BY <1>1, <2>1, BytesOfNone, InputAssumption DEF Call, CallType, SkipOps, Slots
    <3>2. n <= r.total /\ n - n <= arrived - r.total
      BY <1>1, <1>4, <1>9
    <3> QED
      BY <1>1, <1>2, <2>2, <3>1, <3>2 DEF CallOrder, SkipOps, CopyOps
  <2>6. InputInv'
    <3>1. byteCount' \in Nat
      BY <1>1, <1>5
    <3> QED
      BY <1>1, <1>2, <2>1, <2>4, <2>5, <3>1, InvFacts DEF InputInv
  <2>7. CASE m = 0
    BY <1>1, <1>7, <2>1, <2>3, <2>6, <2>7 DEF Kept, Stream!vars
  <2>8. CASE m # 0
    <3>1. Stream!Settle
      BY <1>1, <1>4, <1>7, <2>1, <2>3, <2>8 DEF Stream!Settle
    <3> QED
      BY <2>6, <3>1 DEF Kept, Stream!Step
  <2> QED
    BY <2>7, <2>8
<1> QED
  BY <1>8, <1>9

(* The call of skip_bytes does.                                              *)
LEMMA SkipBytesKeeps ==
  ASSUME InputInv, NEW n \in 0..MaxBytes, SkipBytes(n)
  PROVE  Kept
<1> DEFINE p == PosOf(ring, arrived, call)
           q == PosOf(ring', arrived', call')
           b == arrived - ring.total
           t == ring.total
<1>1. /\ n \in Nat /\ call = Idle /\ ~ring.served /\ n <= ring.total
      /\ call' = Call("skip_bytes", n, 0, 0, <<>>)
      /\ ring' = ring /\ byteCount' = byteCount /\ arrived' = arrived /\ done' = done
      /\ taken' = taken
  <2> DEFINE c == CallFor("skip_bytes", n)
  <2>1. c = Call("skip_bytes", n, 0, 0, <<>>)
    BY NewCall
  <2>2. /\ call = Idle /\ ~ring.served /\ n <= ring.total /\ call' = c
        /\ ring' = ring /\ byteCount' = byteCount /\ arrived' = arrived /\ done' = done
        /\ taken' = taken
    BY DEF SkipBytes, CallFor
  <2> HIDE DEF c
  <2> QED
    BY <2>1, <2>2, InputAssumption
<1>2. LentOf(ring) = 0 /\ LentOf(ring') = 0
  BY <1>1 DEF LentOf
<1>3. call'.op = "skip_bytes" /\ call'.arg = n /\ call'.left = n
  BY <1>1 DEF Call
<1>4. q = p
  <2>1. p = b + 0
    BY <1>1, <1>2, InvFacts, IdleOrder
  <2>2. q = b - (n - n)
    BY <1>1, <1>3 DEF PosOf, SkipOps
  <2>3. b \in Nat
    BY InvFacts
  <2> HIDE DEF p, q, b
  <2> QED
    BY <1>1, <2>1, <2>2, <2>3
<1>5. call' \in CallType /\ CallOrder(ring', arrived', call')
  <2>1. call' \in CallType
    BY <1>1, BytesOfNone, InputAssumption DEF Call, CallType, SkipOps, Slots
  <2>2. b \in Nat /\ n - n <= b /\ n <= n
    BY <1>1, InvFacts
  <2> QED
    BY <1>1, <1>3, <2>1, <2>2 DEF CallOrder, SkipOps, CopyOps
<1>6. CountOrder(ring', arrived', call', byteCount', taken')
  <2>1. CountOrder(ring, arrived, call, byteCount, taken) /\ call.op = "idle"
    BY <1>1, InvFacts DEF Idle
  <2> QED
    BY <1>1, <1>2, <1>3, <1>4, <2>1 DEF CountOrder
<1>7. InputInv'
  BY <1>1, <1>5, <1>6, InvFacts DEF InputInv
<1>8. Stream!vars' = Stream!vars
  BY <1>1, <1>2, <1>4, PositionFacts DEF Stream!vars
<1> QED
  BY <1>7, <1>8 DEF Kept

(* The calls that copy bytes do.                                             *)
LEMMA StartCopyKeeps ==
  ASSUME InputInv, NEW op \in CopyOps, NEW n \in Nat \ {0}, StartCopy(op, n)
  PROVE  Kept
<1> DEFINE p == PosOf(ring, arrived, call)
           q == PosOf(ring', arrived', call')
           b == arrived - ring.total
           o == ring.offset
<1>1. /\ call = Idle /\ ~ring.served /\ n <= ring.total
      /\ call' = Call(op, n, ring.first, ring.offset, <<>>)
      /\ ring' = ring /\ byteCount' = byteCount /\ arrived' = arrived /\ done' = done
      /\ taken' = taken
  <2> DEFINE c == CopyFor(op, n, ring.first, ring.offset)
  <2>1. c = Call(op, n, ring.first, ring.offset, <<>>)
    BY NewCall
  <2>2. /\ call = Idle /\ ~ring.served /\ n <= ring.total /\ call' = c
        /\ ring' = ring /\ byteCount' = byteCount /\ arrived' = arrived /\ done' = done
        /\ taken' = taken
    BY DEF StartCopy, CopyFor
  <2> HIDE DEF c
  <2> QED
    BY <2>1, <2>2
<1>2. LentOf(ring) = 0 /\ LentOf(ring') = 0
  BY <1>1 DEF LentOf
<1>3. /\ call'.op = op /\ call'.arg = n /\ call'.left = n /\ call'.slot = ring.first
      /\ call'.off = o /\ call'.dest = <<>>
  BY <1>1 DEF Call
<1>4. op \notin SkipOps /\ op # "idle" /\ op # "Skip" /\ op # "read_skip" /\ op \in CopyOps
  BY DEF SkipOps, CopyOps
<1>5. q = p
  <2>1. p = b + 0
    BY <1>1, <1>2, InvFacts, IdleOrder
  <2>2. q = b + 0
    BY <1>1, <1>2, <1>3, <1>4 DEF PosOf
  <2> QED
    BY <2>1, <2>2
<1>6. /\ b \in Nat /\ ring.count > 0 /\ o \in Nat /\ ring.first \in Slots
      /\ ring.count \in Nat
      /\ o < Len(BufAt(ring, 0)) /\ o <= b /\ IsRun(BufAt(ring, 0), b - o)
  <2>1. ring.total # 0 /\ ring.total \in Nat
    BY <1>1, InvFacts
  <2>2. /\ ring.count > 0 /\ ring.count \in Nat /\ b \in Nat /\ o \in Nat /\ ring.first \in Slots
        /\ o <= b /\ IsRun(BufAt(ring, 0), b - o)
        /\ Rem(ring) = Len(BufAt(ring, 0)) - o /\ Rem(ring) \in Nat \ {0}
        /\ BufAt(ring, 0) \in Data
    BY <2>1, InvFacts, RingFacts, RingTypeMeans, SMTT(20)
  <2>3. Len(BufAt(ring, 0)) \in Nat
    BY <2>2, DataFacts
  <2> QED
    BY <2>2, <2>3
<1>7. call' \in CallType
  BY <1>1, <1>6, BytesOfNone DEF Call, CallType
<1> HIDE DEF p, q, o
<1>8. CallOrder(ring', arrived', call')
  <2>1. n - n = 0 /\ b + 0 = b /\ n <= n
    BY <1>6
  <2>2. ring.first = (ring.first + 0) % Capacity
    <3>1. (ring.first + 0) % Capacity = IF ring.first + 0 < Capacity THEN ring.first + 0
                                                                 ELSE ring.first + 0 - Capacity
      BY <1>6, SlotFacts, InputAssumption
    <3>2. ring.first \in Nat /\ ring.first < Capacity /\ Capacity \in Nat
      BY <1>6, InputAssumption DEF Slots
    <3> QED
      BY <3>1, <3>2
  <2>3. CallAt(ring', arrived', call') = b
    BY <1>1, <1>3, <2>1 DEF CallAt
  <2>4. CopyPlace(ring', arrived', call')
    <3>1. 0 \in 0..(ring.count - 1)
      BY <1>6
    <3> HIDE DEF b
    <3> QED
      BY <1>1, <1>3, <1>6, <2>2, <2>3, <3>1 DEF CopyPlace
  <2>5. <<>> = Bytes(b, n - n)
    BY <2>1, BytesOfNone
  <2>6. /\ call'.left <= call'.arg /\ ~ring'.served /\ call'.arg <= ring'.total
        /\ call'.dest = Bytes(arrived' - ring'.total, call'.arg - call'.left)
    BY <1>1, <1>3, <2>1, <2>5
  <2> QED
    BY <1>3, <1>4, <2>4, <2>6 DEF CallOrder
<1>9. CountOrder(ring', arrived', call', byteCount', taken')
  <2>1. CountOrder(ring, arrived, call, byteCount, taken) /\ call.op = "idle"
    BY <1>1, InvFacts DEF Idle
  <2> QED
    BY <1>1, <1>2, <1>3, <1>4, <1>5, <2>1 DEF CountOrder, p, q
<1>10. InputInv'
  BY <1>1, <1>7, <1>8, <1>9, InvFacts DEF InputInv
<1>11. Stream!vars' = Stream!vars
  BY <1>1, <1>2, <1>5, PositionFacts DEF Stream!vars, p, q
<1> QED
  BY <1>10, <1>11 DEF Kept

(* copy_n_bytes_to with the next buffer, in one record *)
CopyOnWith(c, n, dest) == [CopyOn(c, n) EXCEPT !.dest = dest]

(* A copy that goes on, field by field.                                      *)
LEMMA CopyOnIs ==
  ASSUME NEW c \in CallType, NEW n, NEW dest
  PROVE  CopyOnWith(c, n, dest) = [op |-> c.op, arg |-> c.arg, left |-> c.left - n,
                                   slot |-> NextPos(c.slot), off |-> 0, dest |-> dest]
<1> DEFINE c1 == [c EXCEPT !.left = c.left - n]
           c2 == [c1 EXCEPT !.slot = NextPos(c.slot)]
           c3 == [c2 EXCEPT !.off = 0]
           c4 == [c3 EXCEPT !.dest = dest]
<1>1. CopyOnWith(c, n, dest) = c4
  BY DEF CopyOnWith, CopyOn
<1>2. c1 = [op |-> c.op, arg |-> c.arg, left |-> c.left - n, slot |-> c.slot,
            off |-> c.off, dest |-> c.dest]
  BY DEF CallType
<1> HIDE DEF c1
<1>3. c2 = [op |-> c.op, arg |-> c.arg, left |-> c.left - n, slot |-> NextPos(c.slot),
            off |-> c.off, dest |-> c.dest]
  BY <1>2
<1> HIDE DEF c2
<1>4. c3 = [op |-> c.op, arg |-> c.arg, left |-> c.left - n, slot |-> NextPos(c.slot),
            off |-> 0, dest |-> c.dest]
  BY <1>3
<1> HIDE DEF c3
<1>5. c4 = [op |-> c.op, arg |-> c.arg, left |-> c.left - n, slot |-> NextPos(c.slot),
            off |-> 0, dest |-> dest]
  BY <1>4
<1> HIDE DEF c4
<1> QED
  BY <1>1, <1>5

(* A step of the copy goes on with the bytes that are due.                   *)
LEMMA CopyKeeps ==
  ASSUME InputInv, CopyNBytesTo
  PROVE  Kept
<1> DEFINE buf      == ring.bufs[call.slot]
           remained == Len(buf) - call.off
           last     == call.left < remained
           n        == IF last THEN call.left ELSE remained
           dest     == call.dest \o SubSeq(buf, call.off + 1, call.off + n)
           p == PosOf(ring, arrived, call)
           q == PosOf(ring', arrived', call')
           b == arrived - ring.total
           e == call.arg
           l == call.left
           t == ring.total
<1>1. /\ call.op \in CopyOps
      /\ ~last => call' = CopyOnWith(call, n, dest) /\ done' = done
      /\ last => n = l
      /\ last /\ call.op = "view_pkg_header" =>
           call' = Idle /\ done' = Result("view_pkg_header", e, TRUE, dest)
      /\ last /\ call.op # "view_pkg_header" =>
           call' = SkipFor("read_skip", e, dest) /\ done' = done
      /\ ring' = ring /\ byteCount' = byteCount /\ arrived' = arrived
      /\ taken' = taken
  <2> HIDE DEF buf
  <2> QED
    BY DEF CopyNBytesTo, CopyOps, CopyOnWith, SkipFor, buf
<1>2. /\ n \in Nat /\ n <= l /\ e <= t /\ b \in Nat
      /\ dest \in Data /\ dest = Bytes(b, (e - l) + n)
      /\ CopyPlace(ring, arrived, [op |-> call.op, arg |-> e, left |-> l - n,
                                   slot |-> NextPos(call.slot), off |-> 0, dest |-> dest]) \/ last
  BY <1>1, InvFacts, CopyOrder
<1>3. l \in Nat /\ e \in Nat /\ l <= e /\ call.slot \in Slots /\ t \in Nat
  BY <1>1, InvFacts DEF CallType, CallOrder
<1>4. /\ ~ring.served /\ LentOf(ring) = 0 /\ LentOf(ring') = 0
      /\ call.op # "idle" /\ call.op # "Skip" /\ call.op # "read_skip" /\ call.op \notin SkipOps
  BY <1>1, InvFacts DEF CallOrder, CopyOps, SkipOps, LentOf
<1>5. p = b + 0 /\ b + 0 = b
  <2>1. p = b + LentOf(ring)
    BY <1>4 DEF PosOf
  <2>2. LentOf(ring) = 0 /\ b \in Nat
    BY <1>2, <1>4
  <2> HIDE DEF p, b
  <2> QED BY <2>1, <2>2
<1> HIDE DEF buf, remained, last, n, dest, p, q, b, e, l, t
<1>6. ASSUME q = p, call'.op # "Skip"
      PROVE  CountOrder(ring', arrived', call', byteCount', taken')
  BY <1>1, <1>4, <1>6, InvFacts DEF CountOrder, p, q
<1>7. CASE ~last
  <2> DEFINE c == [op |-> call.op, arg |-> e, left |-> l - n,
                   slot |-> NextPos(call.slot), off |-> 0, dest |-> dest]
  <2>1. call' = c /\ done' = done
    BY <1>1, <1>7, InvFacts, CopyOnIs DEF e, l
  <2>2. /\ call'.op = call.op /\ call'.arg = e /\ call'.left = l - n /\ call'.dest = dest
        /\ c.op = call.op /\ c.arg = e /\ c.left = l - n /\ c.dest = dest
    BY <2>1
  <2>3. NextPos(call.slot) \in Slots
    BY <1>3, NextSlot, InputAssumption, 0 \in 0..(Capacity - 1)
  <2>4. l - n \in Nat /\ l - n <= e /\ e - (l - n) = (e - l) + n
    BY <1>2, <1>3
  <2>5. call' \in CallType
    BY <1>1, <1>2, <1>3, <2>1, <2>3, <2>4 DEF CallType
  <2>6. CopyPlace(ring, arrived, c)
    BY <1>2, <1>7
  <2> HIDE DEF c
  <2>7. CallOrder(ring', arrived', call')
    <3>1. call'.dest = Bytes(arrived' - ring'.total, call'.arg - call'.left)
      BY <1>1, <1>2, <2>2, <2>4 DEF b
    <3>2. CopyPlace(ring', arrived', call')
      BY <1>1, <2>1, <2>6
    <3>3. /\ call'.left <= call'.arg /\ ~ring'.served /\ call'.arg <= ring'.total
          /\ call'.op # "idle" /\ call'.op # "read_skip" /\ call'.op \notin SkipOps
      BY <1>1, <1>2, <1>4, <2>2, <2>4 DEF t
    <3> QED
      BY <3>1, <3>2, <3>3 DEF CallOrder
  <2>8. q = p
    BY <1>1, <1>4, <1>5, <2>2 DEF PosOf, q, p
  <2>9. InputInv'
    BY <1>1, <1>4, <1>6, <2>1, <2>2, <2>5, <2>7, <2>8, InvFacts DEF InputInv
  <2>10. Stream!vars' = Stream!vars
    BY <1>1, <1>4, <2>1, <2>8, PositionFacts DEF Stream!vars, p, q
  <2> QED
    BY <2>9, <2>10 DEF Kept
<1>8. CASE last /\ call.op = "view_pkg_header"
  <2>1. call' = Idle /\ done' = Result("view_pkg_header", e, TRUE, dest)
    BY <1>1, <1>8
  <2>2. call' \in CallType /\ CallOrder(ring', arrived', call') /\ call'.op # "Skip"
    BY <1>1, <2>1, InvFacts, IdleOrder DEF Idle
  <2>3. q = p
    <3>1. q = b + 0
      BY <1>1, <1>4, <2>1, InvFacts, IdleOrder DEF q, b
    <3> QED
      BY <1>5, <3>1
  <2>4. dest = Bytes(p, e) /\ p = b
    <3>1. (e - l) + n = e
      BY <1>1, <1>3, <1>8
    <3> QED
      BY <1>2, <1>5, <3>1
  <2>5. done' \in DoneType
    BY <1>2, <1>3, <2>1 DEF Result, DoneType
  <2>6. InputInv'
    BY <1>1, <1>6, <2>2, <2>3, <2>5, InvFacts DEF InputInv
  <2>7. Stream!ViewPkgHeader
    <3>1. done'.arg = e /\ done' = Stream!Result("view_pkg_header", e, TRUE, Stream!Bytes(p, e))
      BY <2>1, <2>4 DEF Result, Stream!Result, Bytes, Stream!Bytes
    <3>2. e \in 0..(arrived - p)
      <4>1. arrived - b = t
        BY <1>3, InvFacts DEF b, t
      <4> QED
        BY <1>2, <1>3, <2>4, <4>1
    <3>3. Lent' = Lent /\ Position = p /\ Position' = p /\ arrived' = arrived
      BY <1>1, <1>4, <2>3, PositionFacts DEF p, q
    <3> QED
      BY <3>1, <3>2, <3>3 DEF Stream!ViewPkgHeader
  <2> QED
    BY <2>6, <2>7 DEF Kept, Stream!Step
<1>9. CASE last /\ call.op # "view_pkg_header"
  <2>1. call' = Call("read_skip", e, 0, 0, dest) /\ done' = done
    BY <1>1, <1>9, NewCall
  <2>2. /\ call'.op = "read_skip" /\ call'.arg = e /\ call'.left = e /\ call'.dest = dest
    BY <2>1 DEF Call
  <2>3. call' \in CallType
    BY <1>2, <1>3, <2>1, InputAssumption DEF Call, CallType, SkipOps, Slots
  <2>4. e - e = 0 /\ b - 0 = b /\ (e - l) + n = e /\ 0 <= b
    BY <1>1, <1>2, <1>3, <1>9
  <2>5. CallOrder(ring', arrived', call')
    <3>1. call'.dest = Bytes((arrived' - ring'.total) - (call'.arg - call'.left), call'.arg)
      BY <1>1, <1>2, <2>2, <2>4 DEF b
    <3>2. /\ call'.left <= call'.arg /\ ~ring'.served /\ call'.left <= ring'.total
          /\ call'.arg - call'.left <= arrived' - ring'.total
      BY <1>1, <1>2, <1>3, <1>4, <2>2, <2>4 DEF b, t
    <3> QED
      BY <2>2, <3>1, <3>2 DEF CallOrder, CopyOps, SkipOps
  <2>6. q = p
    <3>1. q = b - (e - e)
      BY <1>1, <2>2 DEF PosOf, SkipOps, q, b
    <3> QED
      BY <1>5, <2>4, <3>1
  <2>7. InputInv'
    BY <1>1, <1>6, <2>1, <2>2, <2>3, <2>5, <2>6, InvFacts DEF InputInv
  <2>8. Stream!vars' = Stream!vars
    BY <1>1, <1>4, <2>1, <2>6, PositionFacts DEF Stream!vars, p, q
  <2> QED
    BY <2>7, <2>8 DEF Kept
<1> QED
  BY <1>7, <1>8, <1>9

(* A skip returns once it is where it was going; its result is the stream's. *)
LEMMA SkipReturnsKeeps ==
  ASSUME InputInv, call.op \in SkipOps, SkipReturns,
         ring' \in RingType, RingOrder(ring', arrived), ~ring'.served,
         arrived - ring'.total = (arrived - ring.total) + call.left,
         byteCount' = byteCount, arrived' = arrived
  PROVE  Kept
<1> DEFINE p == PosOf(ring, arrived, call)
           q == PosOf(ring', arrived', call')
           b == arrived - ring.total
           e == call.arg
           l == call.left
           t == ring.total
           k == taken
           s == IF call.op = "Skip" THEN e ELSE 0
<1>1. /\ call' = Idle
      /\ call.op = "Skip" => done' = Result("Skip", e, TRUE, <<>>) /\ taken' = k
      /\ call.op = "skip_bytes" => done' = Result("skip_bytes", e, TRUE, <<>>) /\ taken' = k + e
      /\ call.op = "read_skip" => /\ done' = Result("read_buffer", e, TRUE, call.dest)
                                  /\ taken' = k + e
  BY DEF SkipReturns
<1>2. /\ l \in Nat /\ e \in Nat /\ t \in Nat /\ b \in Nat /\ k \in Nat
      /\ call.dest \in Data /\ arrived \in Nat
      /\ l <= e /\ l <= t /\ e - l <= b /\ arrived - b = t /\ ~ring.served
      /\ call.op = "read_skip" => call.dest = Bytes(b - (e - l), e)
  BY InvFacts DEF CallType, CallOrder, SkipOps
<1>3. LentOf(ring) = 0 /\ LentOf(ring') = 0
  BY <1>2, InvFacts DEF LentOf
<1>4. p = b - (e - l)
  BY DEF PosOf
<1>5. q = (b + l) + 0
  <2>1. q = (arrived - ring'.total) + LentOf(ring')
    BY <1>1, <1>2, IdleOrder
  <2> QED
    BY <1>3, <2>1
<1>6. k <= p - 0 /\ Counts(byteCount, (p - k) + s)
  BY <1>3, InvFacts DEF CountOrder
<1>7. call' \in CallType /\ CallOrder(ring', arrived', call') /\ call'.op = "idle"
  BY <1>1, <1>2, IdleOrder DEF Idle
<1>8. s \in Nat
  BY <1>2
<1> HIDE DEF p, q, b, e, l, t, k, s
<1>9. p \in Nat /\ q = p + e /\ e \in 0..(arrived - p) /\ p + e <= arrived /\ p <= q
  BY <1>2, <1>4, <1>5
<1>10. /\ taken' \in Nat /\ taken' <= q - 0
       /\ Counts(byteCount, (q - taken') + 0)
  <2>1. CASE call.op = "Skip"
    <3>1. s = e /\ taken' = k
      BY <1>1, <2>1 DEF s
    <3> QED
      BY <1>2, <1>6, <1>9, <3>1 DEF Counts
  <2>2. CASE call.op # "Skip"
    <3>1. s = 0 /\ taken' = k + e
      BY <1>1, <2>2 DEF s, SkipOps
    <3> QED
      BY <1>2, <1>6, <1>9, <3>1 DEF Counts
  <2> QED
    BY <2>1, <2>2
<1>11. CountOrder(ring', arrived', call', byteCount', taken')
  BY <1>3, <1>7, <1>10 DEF CountOrder, q
<1>12. done' \in DoneType
  <2>1. PICK op \in {"Skip", "skip_bytes", "read_buffer"}, bytes \in Data :
               done' = Result(op, e, TRUE, bytes)
    BY <1>1, <1>2, BytesOfNone DEF SkipOps
  <2> QED
    BY <1>2, <2>1 DEF Result, DoneType
<1>13. InputInv'
  BY <1>7, <1>10, <1>11, <1>12, InvFacts DEF InputInv
<1>14. Lent = 0 /\ Lent' = 0 /\ Position = p /\ Position' = q
  BY <1>3, PositionFacts DEF p, q
<1>15. Stream!Step
  <2>1. CASE call.op = "Skip"
    <3>1. done' = Result("Skip", e, TRUE, <<>>)
      BY <1>1, <2>1
    <3>2. done' = Stream!Result("Skip", e, TRUE, <<>>) /\ done'.arg = e
      BY <3>1 DEF Result, Stream!Result
    <3>3. (p + e <= arrived) = TRUE
      BY <1>9
    <3>4. done' = Stream!Result("Skip", e, p + e <= arrived, <<>>)
      BY <3>2, <3>3, Zenon
    <3>5. Stream!Skip
      BY <1>2, <1>9, <1>14, <3>2, <3>4 DEF Stream!Skip
    <3> QED
      BY <3>5 DEF Stream!Step
  <2>2. CASE call.op = "skip_bytes"
    <3>1. done' = Result("skip_bytes", e, TRUE, <<>>)
      BY <1>1, <2>2
    <3>2. done' = Stream!Result("skip_bytes", e, TRUE, <<>>) /\ done'.arg = e
      BY <3>1 DEF Result, Stream!Result
    <3>3. Stream!SkipBytes
      BY <1>9, <1>14, <3>2 DEF Stream!SkipBytes
    <3> QED
      BY <3>3 DEF Stream!Step
  <2>3. CASE call.op = "read_skip"
    <3>1. done' = Result("read_buffer", e, TRUE, Bytes(p, e))
      BY <1>1, <1>2, <1>4, <2>3
    <3>2. done' = Stream!Result("read_buffer", e, TRUE, Stream!Bytes(p, e)) /\ done'.arg = e
      BY <3>1 DEF Result, Stream!Result, Bytes, Stream!Bytes
    <3>3. Stream!ReadBuffer
      BY <1>9, <1>14, <3>2 DEF Stream!ReadBuffer
    <3> QED
      BY <3>3 DEF Stream!Step
  <2> QED
    BY <2>1, <2>2, <2>3 DEF SkipOps
<1> QED
  BY <1>13, <1>15 DEF Kept

(* A step of the skip gives up what it passes, and no more.                  *)
LEMMA SkipStepKeeps ==
  ASSUME InputInv, SkipBytesStep
  PROVE  Kept
<1> DEFINE l == call.left
           t == ring.total
           m == RemainedInTheFirstBuffer(ring)
           popped == [PopBuffer(ring) EXCEPT !.total = @ - RemainedInTheFirstBuffer(ring)]
           ahead == [ring EXCEPT !.offset = @ + call.left, !.total = @ - call.left]
<1>1. /\ call.op \in SkipOps
      /\ byteCount' = byteCount /\ arrived' = arrived
      /\ \/ l = 0 /\ SkipReturns /\ ring' = ring
         \/ l # 0 /\ l < m /\ ring' = ahead /\ SkipReturns
         \/ /\ l # 0 /\ ~(l < m) /\ ring' = popped
            /\ call' = [call EXCEPT !.left = @ - m] /\ done' = done /\ taken' = taken
  BY DEF SkipBytesStep, SkipOps, SkipsWithin
<1>2. /\ l \in Nat /\ l <= t /\ ~ring.served /\ t \in Nat /\ arrived - t \in Nat /\ arrived \in Nat
      /\ ring \in RingType /\ RingOrder(ring, arrived) /\ l <= call.arg /\ call.arg \in Nat
      /\ call.arg - l <= arrived - t
  BY <1>1, InvFacts DEF CallType, CallOrder, SkipOps
<1>3. CASE l = 0 /\ SkipReturns /\ ring' = ring
  <2>1. arrived - ring'.total = (arrived - ring.total) + call.left
    BY <1>2, <1>3
  <2> QED
    BY <1>1, <1>2, <1>3, <2>1, SkipReturnsKeeps
<1>4. CASE l # 0 /\ l < m /\ ring' = ahead /\ SkipReturns
  <2>1. ring' \in RingType /\ RingOrder(ring', arrived) /\ ~ring'.served /\ ring'.total = t - l
    BY <1>2, <1>4, SkipOrder
  <2>2. arrived - ring'.total = (arrived - ring.total) + call.left
    BY <1>2, <2>1
  <2> QED
    BY <1>1, <1>4, <2>1, <2>2, SkipReturnsKeeps
<1>5. CASE /\ l # 0 /\ ~(l < m) /\ ring' = popped
           /\ call' = [call EXCEPT !.left = @ - m] /\ done' = done /\ taken' = taken
  <2>1. /\ ring' \in RingType /\ RingOrder(ring', arrived) /\ ~ring'.served
        /\ ring'.total = t - m /\ m \in Nat /\ m <= l
    <3>1. l \in Nat \ {0} /\ l <= ring.total
      BY <1>2, <1>5
    <3> QED
      BY <1>2, <1>5, <3>1, SkipOrder DEF Rem
  <2>2. /\ call'.op = call.op /\ call'.arg = call.arg /\ call'.left = l - m
        /\ call'.slot = call.slot /\ call'.off = call.off /\ call'.dest = call.dest
        /\ call' \in CallType
    <3>1. l - m \in Nat
      BY <1>2, <2>1
    <3> QED
      BY <1>5, <3>1, InvFacts DEF CallType
  <2> DEFINE p == PosOf(ring, arrived, call)
             q == PosOf(ring', arrived', call')
             b == arrived - ring.total
             e == call.arg
  <2>3. p = b - (e - l) /\ q = (arrived - ring'.total) - (e - (l - m))
    BY <1>1, <2>2 DEF PosOf
  <2> HIDE DEF l, t, m, e, popped, p, q
  <2>4. /\ arrived - ring'.total = b + m /\ b \in Nat /\ e \in Nat
        /\ (b + m) - (e - (l - m)) = b - (e - l)
        /\ l - m <= ring'.total /\ l - m <= e /\ e - (l - m) <= b + m
    <3>1. b = arrived - t
      BY DEF t
    <3>2. e \in Nat /\ l <= e /\ e - l <= arrived - t
      BY <1>2 DEF e
    <3> HIDE DEF b
    <3> QED
      BY <1>2, <2>1, <3>1, <3>2
  <2>5. q = p
    BY <2>3, <2>4
  <2>6. CallOrder(ring', arrived', call')
    <3>1. call.op = "read_skip" => call.dest = Bytes(b - (e - l), e)
      BY InvFacts DEF CallOrder, e, l
    <3>2. call'.op = "read_skip" =>
            call'.dest = Bytes((arrived' - ring'.total) - (call'.arg - call'.left), call'.arg)
      BY <1>1, <2>2, <2>4, <3>1 DEF e
    <3>3. /\ call'.left <= call'.arg /\ ~ring'.served /\ call'.left <= ring'.total
          /\ call'.arg - call'.left <= arrived' - ring'.total
          /\ call'.op \notin CopyOps /\ call'.op # "idle"
      BY <1>1, <2>1, <2>2, <2>4 DEF e, SkipOps, CopyOps
    <3> QED
      BY <3>2, <3>3 DEF CallOrder
  <2>7. LentOf(ring) = 0 /\ LentOf(ring') = 0
    BY <1>2, <2>1 DEF LentOf
  <2>8. CountOrder(ring', arrived', call', byteCount', taken')
    BY <1>1, <1>5, <2>2, <2>5, <2>7, InvFacts DEF CountOrder, p, q
  <2>9. InputInv'
    BY <1>1, <1>5, <2>1, <2>2, <2>6, <2>8, InvFacts DEF InputInv
  <2>10. Stream!vars' = Stream!vars
    BY <1>1, <1>5, <2>5, <2>7, PositionFacts DEF Stream!vars, p, q
  <2> QED
    BY <2>9, <2>10 DEF Kept
<1> QED
  BY <1>1, <1>3, <1>4, <1>5

-----------------------------------------------------------------------------
(* The invariant, and what follows from it                                   *)

(* The initial state satisfies the invariant and starts the abstract stream. *)
LEMMA InputInit ==
  ASSUME Init
  PROVE  InputInv /\ Stream!Init
<1> DEFINE r == [bufs |-> [i \in Slots |-> <<>>], count |-> 0, first |-> 0, offset |-> 0,
                 total |-> 0, served |-> FALSE]
<1>1. /\ ring = r /\ byteCount = 0 /\ call = Idle /\ arrived = 0 /\ taken = 0
      /\ done = Result("none", 0, TRUE, <<>>)
  BY DEF Init
<1>2. /\ r.count = 0 /\ r.offset = 0 /\ r.total = 0 /\ r.served = FALSE
  OBVIOUS
<1>3. r \in RingType
  BY BytesOfNone, InputAssumption DEF RingType, Slots
<1> HIDE DEF r
<1>4. RingOrder(r, 0)
  <2> DEFINE st == [i \in 0..r.count |-> 0]
  <2>1. st \in [0..r.count -> 0..0]
    OBVIOUS
  <2>2. st[0] = 0 /\ st[r.count] = 0 /\ 0..(r.count - 1) = {}
    BY <1>2
  <2> HIDE DEF st
  <2>3. Chain(r, 0, st)
    BY <1>2, <2>2 DEF Chain
  <2> QED
    BY <2>1, <2>3 DEF RingOrder
<1>5. LentOf(r) = 0
  BY <1>2 DEF LentOf
<1>6. Idle \in CallType /\ CallOrder(r, 0, Idle) /\ PosOf(r, 0, Idle) = 0
  BY <1>2, <1>3, <1>5, IdleOrder
<1>7. CountOrder(r, 0, Idle, 0, 0)
  BY <1>5, <1>6 DEF CountOrder, Counts, Idle
<1>8. done \in DoneType
  BY <1>1, BytesOfNone DEF Result, DoneType
<1>9. InputInv
  <2>1. /\ ring \in RingType /\ RingOrder(ring, arrived) /\ call \in CallType
        /\ CallOrder(ring, arrived, call)
    BY <1>1, <1>3, <1>4, <1>6
  <2>2. CountOrder(ring, arrived, call, byteCount, taken)
    BY <1>1, <1>7
  <2>3. 0 \in 0..MaxBytes /\ 0 \in Nat
    BY InputAssumption
  <2> QED
    BY <1>1, <1>8, <2>1, <2>2, <2>3 DEF InputInv
<1>10. Stream!Init
  BY <1>1, <1>5, <1>6, <1>9, PositionFacts DEF Stream!Init, Stream!Result, Result
<1> QED
  BY <1>9, <1>10

(* Every step keeps the invariant and is a step of the stream or none.       *)
LEMMA InputStep ==
  ASSUME InputInv, [Next]_vars
  PROVE  Kept
<1>1. CASE UNCHANGED vars
  <2>1. InputInv'
    BY <1>1 DEF vars, InputInv
  <2>2. Stream!vars' = Stream!vars
    BY <1>1, PositionFacts DEF vars, Stream!vars
  <2> QED
    BY <2>1, <2>2 DEF Kept
<1>2. CASE Next
  <2>1. CASE \E n \in 1..MaxBuf : AppendBuf(n)
    BY <2>1, AppendKeeps
  <2>2. CASE NextChunk
    BY <2>2, NextKeeps
  <2>3. CASE \E n \in 0..MaxBytes : BackUp(n) \/ Skip(n) \/ SkipBytes(n)
    BY <2>3, BackUpKeeps, SkipKeeps, SkipBytesKeeps
  <2>4. CASE \E n \in 1..MaxBytes : ReadBuffer(n)
    <3>1. PICK n \in 1..MaxBytes : ReadBuffer(n)
      BY <2>4
    <3>2. n \in Nat \ {0} /\ "read_buffer" \in CopyOps /\ StartCopy("read_buffer", n)
      BY <3>1, InputAssumption DEF ReadBuffer, CopyOps
    <3> QED
      BY <3>2, StartCopyKeeps
  <2>5. CASE ViewPkgHeader
    <3>1. /\ HeaderSize \in Nat \ {0} /\ "view_pkg_header" \in CopyOps
          /\ StartCopy("view_pkg_header", HeaderSize)
      BY <2>5, InputAssumption DEF ViewPkgHeader, CopyOps
    <3> QED
      BY <3>1, StartCopyKeeps
  <2>6. CASE CopyNBytesTo
    BY <2>6, CopyKeeps
  <2>7. CASE SkipBytesStep
    BY <2>7, SkipStepKeeps
  <2> QED
    BY <1>2, <2>1, <2>2, <2>3, <2>4, <2>5, <2>6, <2>7 DEF Next, Work
<1> QED
  BY <1>1, <1>2

(* What RingOrder says of neighbours. *)
LEMMA NeighboursInOrder ==
  ASSUME NEW r \in RingType, NEW a \in Nat, RingOrder(r, a)
  PROVE  /\ r.count > 0 =>
              /\ r.offset < Len(BufAt(r, 0))
              /\ BufAt(r, 0)[r.offset + 1] = a - r.total + 1
              /\ BufAt(r, r.count - 1)[Len(BufAt(r, r.count - 1))] = a
         /\ \A i \in 0..(r.count - 1) :
              /\ BufAt(r, i) # <<>>
              /\ \A j \in DOMAIN BufAt(r, i) : BufAt(r, i)[j] = BufAt(r, i)[1] + j - 1
              /\ i > 0 => BufAt(r, i)[1] = BufAt(r, i - 1)[Len(BufAt(r, i - 1))] + 1
<1>1. PICK st \in [0..r.count -> 0..a] : Chain(r, a, st)
  BY DEF RingOrder
<1>2. r.count \in Nat /\ r.count <= Capacity /\ Capacity \in Nat
  BY RingTypeMeans
<1>3. ASSUME NEW i \in 0..(r.count - 1)
      PROVE  /\ st[i] \in Nat /\ st[i + 1] \in Nat /\ IsRun(BufAt(r, i), st[i])
             /\ st[i + 1] = st[i] + Len(BufAt(r, i))
             /\ Len(BufAt(r, i)) \in Nat \ {0} /\ BufAt(r, i) \in Data
             /\ DOMAIN BufAt(r, i) = 1..Len(BufAt(r, i))
             /\ BufAt(r, i)[1] = st[i] + 1
             /\ BufAt(r, i)[Len(BufAt(r, i))] = st[i + 1]
  <2>1. /\ IsRun(BufAt(r, i), st[i]) /\ st[i + 1] = st[i] + Len(BufAt(r, i))
        /\ Len(BufAt(r, i)) > 0
    BY <1>1 DEF Chain
  <2>2. BufAt(r, i) \in Data /\ Len(BufAt(r, i)) \in Nat
    BY <1>2, BufData
  <2>3. st[i] \in 0..a /\ st[i + 1] \in 0..a
    BY <1>2
  <2>4. 1 \in 1..Len(BufAt(r, i)) /\ Len(BufAt(r, i)) \in 1..Len(BufAt(r, i))
    BY <2>1, <2>2
  <2>5. BufAt(r, i)[1] = st[i] + 1 /\ BufAt(r, i)[Len(BufAt(r, i))] = st[i] + Len(BufAt(r, i))
    BY <2>1, <2>4 DEF IsRun
  <2>6. DOMAIN BufAt(r, i) = 1..Len(BufAt(r, i))
    BY <2>2, LenProperties DEF Data
  <2> QED
    BY <2>1, <2>2, <2>3, <2>5, <2>6
<1>4. ASSUME r.count > 0
      PROVE  /\ r.offset < Len(BufAt(r, 0))
             /\ BufAt(r, 0)[r.offset + 1] = a - r.total + 1
             /\ BufAt(r, r.count - 1)[Len(BufAt(r, r.count - 1))] = a
  <2> DEFINE o == r.offset
             b == a - r.total
  <2>1. /\ o \in Nat /\ b \in Nat /\ Rem(r) \in Nat \ {0} /\ Rem(r) = Len(BufAt(r, 0)) - o
        /\ BufAt(r, 0) \in Data /\ o <= b /\ IsRun(BufAt(r, 0), b - o)
    BY <1>4, RingFacts, RingTypeMeans
  <2>2. Len(BufAt(r, 0)) \in Nat
    BY <2>1, DataFacts
  <2>3. o + 1 \in 1..Len(BufAt(r, 0)) /\ o < Len(BufAt(r, 0))
    BY <2>1, <2>2
  <2>4. BufAt(r, 0)[o + 1] = (b - o) + (o + 1)
    BY <2>1, <2>3 DEF IsRun
  <2>5. (b - o) + (o + 1) = b + 1
    BY <2>1
  <2>6. BufAt(r, r.count - 1)[Len(BufAt(r, r.count - 1))] = a
    <3>1. r.count - 1 \in 0..(r.count - 1) /\ (r.count - 1) + 1 = r.count
      BY <1>2, <1>4
    <3>2. st[r.count] = a
      BY <1>1 DEF Chain
    <3> QED
      BY <1>3, <3>1, <3>2
  <2> QED
    BY <2>3, <2>4, <2>5, <2>6
<1>5. ASSUME NEW i \in 0..(r.count - 1)
      PROVE  /\ BufAt(r, i) # <<>>
             /\ \A j \in DOMAIN BufAt(r, i) : BufAt(r, i)[j] = BufAt(r, i)[1] + j - 1
             /\ i > 0 => BufAt(r, i)[1] = BufAt(r, i - 1)[Len(BufAt(r, i - 1))] + 1
  <2>1. BufAt(r, i) # <<>>
    BY <1>3, DataFacts
  <2>2. ASSUME NEW j \in DOMAIN BufAt(r, i)
        PROVE  BufAt(r, i)[j] = BufAt(r, i)[1] + j - 1
    <3>1. j \in 1..Len(BufAt(r, i)) /\ BufAt(r, i)[1] = st[i] + 1 /\ st[i] \in Nat
      BY <1>3
    <3>2. BufAt(r, i)[j] = st[i] + j
      BY <1>3, <3>1 DEF IsRun
    <3> DEFINE x == st[i]
    <3>3. x \in Nat /\ j \in Int /\ BufAt(r, i)[j] = x + j /\ BufAt(r, i)[1] = x + 1
      BY <3>1, <3>2, <1>3
    <3> HIDE DEF x
    <3> QED
      BY <3>3
  <2>3. i > 0 => BufAt(r, i)[1] = BufAt(r, i - 1)[Len(BufAt(r, i - 1))] + 1
    <3> SUFFICES ASSUME i > 0 PROVE BufAt(r, i)[1] = BufAt(r, i - 1)[Len(BufAt(r, i - 1))] + 1
      OBVIOUS
    <3>1. i - 1 \in 0..(r.count - 1) /\ (i - 1) + 1 = i
      BY <1>2
    <3> QED
      BY <1>3, <3>1
  <2> QED
    BY <2>1, <2>2, <2>3
<1> QED
  BY <1>4, <1>5

(* TypeOK, the order of the ring and of the operation under way, and the     *)
(* count hold for every capacity, header size and bound: append, the         *)
(* ZeroCopyInputStream functions, skip_bytes and copy_n_bytes_to keep them.  *)
THEOREM InputInvariant == Spec => []InputInv
<1>1. Init => InputInv
  BY InputInit
<1>2. InputInv /\ [Next]_vars => InputInv'
  BY InputStep DEF Kept
<1> QED
  BY <1>1, <1>2, PTL DEF Spec

(* The ring of pkg_input_t holds the unread bytes, each once and in order,   *)
(* m_total_size counts them, and m_first_buffer_offset is within the first   *)
(* buffer, through every append to a full ring and every wrap of next_pos.   *)
THEOREM RingIsInOrder == Spec => []RingInv
<1>1. InputInv => RingInv
  <2> SUFFICES ASSUME InputInv PROVE RingInv
    OBVIOUS
  <2>1. TypeOK
    BY DEF InputInv, TypeOK, RingType, Data, CallType, DoneType, SkipOps, CopyOps
  <2>2. \A i : Buf(i) = BufAt(ring, i)
    BY DEF Buf, Slot, BufAt
  <2>3. /\ ring.total > 0 <=> ring.count > 0
        /\ ring.served => ring.count > 0
        /\ ring.count = 0 => ring.offset = 0
    BY InvFacts, RingFacts
  <2>4. /\ ring.count > 0 =>
             /\ ring.offset < Len(Buf(0))
             /\ Buf(0)[ring.offset + 1] = arrived - ring.total + 1
             /\ Buf(ring.count - 1)[Len(Buf(ring.count - 1))] = arrived
        /\ \A i \in 0..(ring.count - 1) :
             /\ Buf(i) # <<>>
             /\ \A j \in DOMAIN Buf(i) : Buf(i)[j] = Buf(i)[1] + j - 1
             /\ i > 0 => Buf(i)[1] = Buf(i - 1)[Len(Buf(i - 1))] + 1
    BY <2>2, InvFacts, NeighboursInOrder
  <2> QED
    BY <2>1, <2>3, <2>4, Zenon DEF RingInv
<1> QED
  BY <1>1, InputInvariant, PTL

(* ByteCount() is what the parser took through Next and Skip less what it    *)
(* gave back with BackUp, as long as it does not skip beyond the end: a Skip *)
(* that fails counts bytes that are not there.                               *)
THEOREM CountIsWhatWasParsed ==
  ASSUME ~LongSkips
  PROVE  Spec => []CountIsParsed
<1>1. InputInv => CountIsParsed
  <2> SUFFICES ASSUME InputInv, call = Idle PROVE byteCount = Position - taken
    BY DEF CountIsParsed
  <2>1. byteCount = (Position - taken) + 0
    BY InvFacts, PositionFacts DEF CountOrder, Counts, Idle
  <2>2. byteCount \in Nat /\ taken \in Nat /\ Position \in Nat
    <3>1. Position = (arrived - ring.total) + LentOf(ring)
      BY InvFacts, PositionFacts, IdleOrder
    <3> QED
      BY <3>1, InvFacts
  <2> QED
    BY <2>1, <2>2
<1> QED
  BY <1>1, InputInvariant, PTL

(* The ring and its recursive copying and skipping implement one stream of   *)
(* bytes, as long as the parser does not skip beyond the end: every step is  *)
(* a step of InputStream, or changes nothing there.                          *)
THEOREM InputImplementsStream ==
  ASSUME ~LongSkips
  PROVE  Spec => ImplementsInput
<1>1. Init => Stream!Init
  BY InputInit
<1>2. InputInv /\ [Next]_vars => [Stream!Step]_(Stream!vars)
  BY InputStep DEF Kept
<1> QED
  BY <1>1, <1>2, InputInvariant, PTL DEF Spec, ImplementsInput, Stream!Spec
=============================================================================
