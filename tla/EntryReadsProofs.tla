-------------------------- MODULE EntryReadsProofs --------------------------
(***************************************************************************)
(* The handler of an entry knows the size of the buffer that its           *)
(* connection reads into, and that buffer grows to less than twice the     *)
(* limit, for all configured sizes and every limit; and what is proved of  *)
(* the heartbeat alone holds of the entry with its reads, whose steps are  *)
(* steps of both parts or leave a part unchanged.                          *)
(***************************************************************************)
EXTENDS EntryReads, HeartbeatProofs

(* A handler that returns leaves a buffer of the size it remembers. *)
LEMMA HandlerReturnsInv ==
  ASSUME ReadInv, NEW size \in Nat, HandlerReturns(size)
  PROVE  ReadInv'
<1>1. inputBufferSize \in Nat \ {0} /\ inputBufferSize' = inputBufferSize
  BY ReadAssumption DEF ReadInv, ReadTypeOK, HandlerReturns
<1>2. latest' = size /\ came' = 0
  BY DEF HandlerReturns
<1>3. readBuffer' = IF size > 0 THEN Allocate(size) ELSE Allocate(inputBufferSize)
  BY <1>1 DEF HandlerReturns, NextReadBuffer, Resize, MovedFrom
<1>4. readBuffer' \in [size : Nat, capacity : Nat]
  BY <1>1, <1>3 DEF Allocate
<1>5. ReadTypeOK'
  BY <1>1, <1>2, <1>4 DEF ReadInv, ReadTypeOK
<1>6. ReadSizeKnown'
  BY <1>1, <1>2, <1>3 DEF ReadSizeKnown, Allocate
<1> QED
  BY <1>2, <1>5, <1>6 DEF ReadInv

(* The read buffer begins in its invariant.                                  *)
LEMMA ReadInitInv == ReadInit => ReadInv
<1> SUFFICES ASSUME ReadInit PROVE ReadInv
  OBVIOUS
<1>1. inputBufferSize \in Nat \ {0}
  BY ReadAssumption DEF ReadInit
<1> QED
  BY <1>1 DEF ReadInit, ReadInv, ReadTypeOK, ReadSizeKnown, Allocate

(* Every read keeps it.                                                      *)
LEMMA ReadNextInv == ReadInv /\ [ReadNext]_readBufferVars => ReadInv'
<1> SUFFICES ASSUME ReadInv, [ReadNext]_readBufferVars
             PROVE  ReadInv'
  OBVIOUS
<1>1. inputBufferSize \in Nat \ {0} /\ readBuffer.size \in Nat
  BY ReadAssumption DEF ReadInv, ReadTypeOK
<1>2. ASSUME NEW n \in 1..readBuffer.size, Read(n)
      PROVE  ReadInv'
  <2>1. n \in Nat
    BY <1>1
  <2>2. CASE ReadFills(n)
    <3>1. MinimumOf(n * 2, ReadLimit) \in Nat
      BY <2>1, ReadAssumption DEF MinimumOf
    <3> QED
      BY <2>2, <3>1, HandlerReturnsInv DEF ReadFills
  <2>3. CASE ReadMuch(n)
    BY <1>1, <1>2, <2>1, <2>3
    DEF ReadMuch, ReadInv, ReadTypeOK, ReadSizeKnown, MovedFrom
  <2>4. CASE ReadLittle(n)
    BY <2>4, HandlerReturnsInv DEF ReadLittle
  <2> QED
    BY <1>2, <2>2, <2>3, <2>4 DEF Read
<1>3. CASE DoubleSize
  BY <1>3 DEF DoubleSize, ReadInv, ReadTypeOK, ReadSizeKnown
<1>4. CASE SizeFound
  BY <1>4, HandlerReturnsInv DEF SizeFound, ReadInv, ReadTypeOK
<1>5. CASE UNCHANGED readBufferVars
  BY <1>5 DEF readBufferVars, ReadInv, ReadTypeOK, ReadSizeKnown
<1> QED
  BY <1>2, <1>3, <1>4, <1>5 DEF ReadNext, Resizing

-----------------------------------------------------------------------------
(* How large the buffer grows                                                *)

(* c holds the configured size and its doubles, none of them, besides the    *)
(* configured size, twice the limit or more.                                 *)
Doublings(c, m) ==
  /\ c \in [0..m -> Nat]
  /\ c[0] = inputBufferSize
  /\ \A i \in 0..m - 1 : c[i + 1] = 2 * c[i]
  /\ \A i \in 1..m : c[i] < 2 * ReadLimit

(* A size that the search of the handler comes to. *)
IsDoubled(size) ==
  \E m \in Nat \ {0} : \E c \in [0..m -> Nat] : Doublings(c, m) /\ c[m] = size

(* The search is at `latest`, on its way to a doubled size that is larger    *)
(* than what came.                                                           *)
OnTheWay ==
  \E m \in Nat \ {0} : \E c \in [0..m -> Nat], k \in 1..m :
    Doublings(c, m) /\ c[k] = latest /\ came < c[m]

(* A buffer beyond the limit is one of the doubled sizes.  The search stays  *)
(* below twice what came, which is within bounds when that is below the      *)
(* limit; what is above it came into a buffer of a doubled size, and the     *)
(* search ends there at the latest.                                          *)
GrowthInv ==
  /\ came = 0 => \/ readBuffer.size = inputBufferSize
                 \/ readBuffer.size <= ReadLimit
                 \/ IsDoubled(readBuffer.size)
  /\ came > 0 => /\ readBuffer.size = 0
                 /\ (came < ReadLimit /\ IsDoubled(latest)) \/ OnTheWay

(* A doubled size stays below twice the limit.                               *)
LEMMA DoubledIsLimited ==
  ASSUME NEW size, IsDoubled(size)
  PROVE  size \in Nat /\ size < 2 * ReadLimit
<1>0. PICK m \in Nat \ {0} :
        \E c \in [0..m -> Nat] : Doublings(c, m) /\ c[m] = size
  BY DEF IsDoubled
<1>1. PICK c \in [0..m -> Nat] : Doublings(c, m) /\ c[m] = size
  BY <1>0
<1>2. m \in 1..m /\ m \in 0..m
  BY <1>1
<1> QED BY <1>1, <1>2 DEF Doublings

(* The configured size doubled, and a doubled size doubled again.            *)
LEMMA FirstDoubled ==
  ASSUME inputBufferSize \in Nat, ReadLimit \in Nat,
         NEW size, size = 2 * inputBufferSize, size < 2 * ReadLimit
  PROVE  IsDoubled(size)
<1> DEFINE c == [i \in 0..1 |-> IF i = 0 THEN inputBufferSize ELSE size]
<1>1. size \in Nat /\ 1 \in Nat \ {0} /\ 1 - 1 = 0 /\ 0 + 1 = 1
      /\ 0 \in 0..1 /\ 1 \in 0..1
  OBVIOUS
<1>2. c \in [0..1 -> Nat] /\ c[0] = inputBufferSize /\ c[1] = size
  BY <1>1
<1> HIDE DEF c
<1>3. Doublings(c, 1)
  BY <1>1, <1>2 DEF Doublings
<1> QED BY <1>1, <1>2, <1>3 DEF IsDoubled

(* The next size of the search is the next of the chain.                     *)
LEMMA NextDoubled ==
  ASSUME ReadLimit \in Nat, NEW size \in Nat, IsDoubled(size), 2 * size < 2 * ReadLimit
  PROVE  IsDoubled(2 * size)
<1>1. PICK m \in Nat \ {0} :
        \E c \in [0..m -> Nat] : Doublings(c, m) /\ c[m] = size
  BY DEF IsDoubled
<1>2. PICK c \in [0..m -> Nat] : Doublings(c, m) /\ c[m] = size
  BY <1>1
<1> DEFINE k == m + 1
           d == [i \in 0..k |-> IF i = k THEN 2 * size ELSE c[i]]
<1>3. k \in Nat \ {0} /\ k \in 0..k /\ 0 \in 0..m /\ 2 * size \in Nat
  OBVIOUS
<1>4. \A i \in 0..k : i = k \/ (i # k /\ i \in 0..m)
  OBVIOUS
<1>5. d \in [0..k -> Nat] /\ d[k] = 2 * size
  BY <1>3, <1>4
<1>6. \A i \in 0..m : d[i] = c[i]
  OBVIOUS
<1> HIDE DEF d
<1>7. \A i \in 0..k - 1 : d[i + 1] = 2 * d[i]
  <2>1. TAKE i \in 0..k - 1
  <2>2. CASE i = m
    BY <1>2, <1>3, <1>5, <1>6, <2>2
  <2>3. CASE i # m
    <3>1. i \in 0..m - 1 /\ i \in 0..m /\ i + 1 \in 0..m
      BY <2>3
    <3> QED BY <1>2, <1>6, <3>1 DEF Doublings
  <2> QED BY <2>2, <2>3
<1>8. \A i \in 1..k : d[i] < 2 * ReadLimit
  <2>1. TAKE i \in 1..k
  <2>2. CASE i = k
    BY <1>5, <2>2
  <2>3. CASE i # k
    <3>1. i \in 1..m /\ i \in 0..m
      BY <2>3
    <3> QED BY <1>2, <1>6, <3>1 DEF Doublings
  <2> QED BY <2>2, <2>3
<1>9. Doublings(d, k)
  BY <1>2, <1>3, <1>5, <1>6, <1>7, <1>8 DEF Doublings
<1> QED BY <1>3, <1>5, <1>9 DEF IsDoubled

(* The invariant is about the size that is read into. *)
LEMMA GrowthIsLimit ==
  ASSUME ReadInv, GrowthInv
  PROVE  ReadIsLimited
<1>1. readBuffer.size \in Nat /\ came \in Nat /\ ReadLimit \in Nat \ {0}
  BY ReadAssumption DEF ReadInv, ReadTypeOK
<1>2. CASE came = 0
  BY <1>1, <1>2, DoubledIsLimited DEF GrowthInv, ReadIsLimited
<1>3. CASE came > 0
  BY <1>1, <1>3 DEF GrowthInv, ReadIsLimited
<1> QED BY <1>1, <1>2, <1>3

(* A handler that returns with a size within the limit, a doubled one, or    *)
(* none, which stands for the configured one.                                *)
LEMMA HandlerReturnsGrowth ==
  ASSUME ReadInv, NEW size \in Nat, HandlerReturns(size),
         size <= ReadLimit \/ IsDoubled(size)
  PROVE  GrowthInv'
<1>1. inputBufferSize \in Nat \ {0} /\ inputBufferSize' = inputBufferSize
      /\ ReadLimit \in Nat \ {0}
  BY ReadAssumption DEF ReadInv, ReadTypeOK, HandlerReturns
<1>2. came' = 0
  BY DEF HandlerReturns
<1>3. readBuffer' = IF size > 0 THEN Allocate(size) ELSE Allocate(inputBufferSize)
  BY <1>1 DEF HandlerReturns, NextReadBuffer, Resize, MovedFrom
<1>4. readBuffer'.size = size \/ readBuffer'.size = inputBufferSize
  BY <1>3 DEF Allocate
<1>5. IsDoubled(size) => IsDoubled(size)'
  BY <1>1 DEF IsDoubled, Doublings
<1>6. IsDoubled(size)' /\ readBuffer'.size = size => IsDoubled(readBuffer.size)'
  BY DEF IsDoubled, Doublings
<1> QED BY <1>1, <1>2, <1>4, <1>5, <1>6 DEF GrowthInv

(* The configured size begins the chain.                                     *)
LEMMA GrowthInit ==
  ASSUME ReadInit
  PROVE  GrowthInv
BY DEF ReadInit, GrowthInv, Allocate

(* Every read, and every step of the search, keeps the size in its bounds.   *)
LEMMA GrowthNext ==
  ASSUME ReadInv, GrowthInv, [ReadNext]_readBufferVars
  PROVE  GrowthInv'
<1>1. /\ inputBufferSize \in Nat \ {0} /\ readBuffer.size \in Nat
      /\ latest \in Nat /\ came \in Nat /\ ReadLimit \in Nat \ {0}
  BY ReadAssumption DEF ReadInv, ReadTypeOK
<1>2. ASSUME NEW n \in 1..readBuffer.size, ReadFills(n)
      PROVE  GrowthInv'
  <2>1. MinimumOf(n * 2, ReadLimit) \in Nat /\ MinimumOf(n * 2, ReadLimit) <= ReadLimit
    BY <1>1 DEF MinimumOf
  <2> QED BY <1>2, <2>1, HandlerReturnsGrowth DEF ReadFills
<1>3. ASSUME NEW n \in 1..readBuffer.size, ReadLittle(n)
      PROVE  GrowthInv'
  <2>1. 0 \in Nat /\ 0 <= ReadLimit
    BY <1>1
  <2> QED BY <1>3, <2>1, HandlerReturnsGrowth DEF ReadLittle
<1>4. ASSUME NEW n \in 1..readBuffer.size, ReadMuch(n)
      PROVE  GrowthInv'
  <2>1. /\ came = 0 /\ ~FullyUtilized(n) /\ inputBufferSize <= n
        /\ came' = n /\ latest' = inputBufferSize * 2 /\ readBuffer' = MovedFrom
        /\ inputBufferSize' = inputBufferSize
    BY <1>4 DEF ReadMuch
  <2>2. n \in Nat /\ n > 0 /\ n # readBuffer.size /\ n < readBuffer.size
    <3>1. n # readBuffer.size
      BY <2>1 DEF FullyUtilized, ReadInv, ReadSizeKnown
    <3> QED BY <1>1, <3>1
  <2>3. readBuffer'.size = 0
    BY <2>1 DEF MovedFrom
  <2>5. CASE readBuffer.size <= ReadLimit
    <3>1. came' < ReadLimit
      BY <1>1, <2>1, <2>2, <2>5
    <3>2. latest' \in Nat /\ latest' = 2 * inputBufferSize /\ latest' < 2 * ReadLimit
      BY <1>1, <2>1, <2>2, <3>1
    <3>3. IsDoubled(latest')
      BY <1>1, <3>2, FirstDoubled
    <3>4. IsDoubled(latest)'
      BY <2>1, <3>3 DEF IsDoubled, Doublings
    <3> QED BY <2>1, <2>2, <2>3, <3>1, <3>4 DEF GrowthInv
  <2>6. CASE IsDoubled(readBuffer.size)
    <3>0. PICK m \in Nat \ {0} :
            \E c \in [0..m -> Nat] : Doublings(c, m) /\ c[m] = readBuffer.size
      BY <2>6 DEF IsDoubled
    <3>1. PICK c \in [0..m -> Nat] : Doublings(c, m) /\ c[m] = readBuffer.size
      BY <3>0
    <3>2. 0 \in 0..m - 1 /\ 1 \in 1..m
      BY <3>1
    <3>3. c[1] = latest'
      <4>1. c[0 + 1] = 2 * c[0] /\ c[0] = inputBufferSize
        BY <3>1, <3>2 DEF Doublings
      <4> QED BY <1>1, <2>1, <4>1
    <3>4. Doublings(c, m)'
      BY <2>1, <3>1 DEF Doublings
    <3>5. came' < c[m]
      BY <2>1, <2>2, <3>1
    <3>6. OnTheWay'
      BY <3>1, <3>2, <3>3, <3>4, <3>5 DEF OnTheWay
    <3> QED BY <2>1, <2>2, <2>3, <3>6 DEF GrowthInv
  <2>7. CASE readBuffer.size = inputBufferSize
    BY <1>1, <2>1, <2>2, <2>7
  <2> QED BY <2>1, <2>5, <2>6, <2>7 DEF GrowthInv
<1>5. CASE DoubleSize
  <2>1. /\ came > 0 /\ latest < came /\ latest' = latest * 2
        /\ UNCHANGED <<inputBufferSize, readBuffer, came>>
    BY <1>5 DEF DoubleSize
  <2>2. came < ReadLimit /\ IsDoubled(latest) =>
          came' < ReadLimit /\ IsDoubled(latest)'
    <3>1. SUFFICES ASSUME came < ReadLimit, IsDoubled(latest)
                   PROVE  IsDoubled(latest)'
      BY <2>1
    <3>2. 2 * latest < 2 * ReadLimit /\ latest' = 2 * latest
      BY <1>1, <2>1, <3>1
    <3>3. IsDoubled(latest')
      BY <1>1, <3>1, <3>2, NextDoubled
    <3> QED BY <2>1, <3>3 DEF IsDoubled, Doublings
  <2>3. OnTheWay => OnTheWay'
    <3>1. SUFFICES ASSUME OnTheWay PROVE OnTheWay'
      OBVIOUS
    <3>0. PICK m \in Nat \ {0} :
            \E c \in [0..m -> Nat], k \in 1..m :
              Doublings(c, m) /\ c[k] = latest /\ came < c[m]
      BY <3>1 DEF OnTheWay
    <3>2. PICK c \in [0..m -> Nat], k \in 1..m :
            Doublings(c, m) /\ c[k] = latest /\ came < c[m]
      BY <3>0
    <3>3. k # m
      BY <1>1, <2>1, <3>2
    <3>4. k \in 0..m - 1 /\ k + 1 \in 1..m
      BY <3>2, <3>3
    <3>5. c[k + 1] = 2 * latest
      BY <3>2, <3>4 DEF Doublings
    <3>6. c[k + 1] = latest'
      BY <1>1, <2>1, <3>5
    <3>7. Doublings(c, m)' /\ came' < c[m]
      BY <2>1, <3>2 DEF Doublings
    <3> QED BY <3>2, <3>4, <3>6, <3>7 DEF OnTheWay
  <2> QED BY <2>1, <2>2, <2>3 DEF GrowthInv
<1>6. CASE SizeFound
  <2>1. came > 0 /\ latest >= came /\ HandlerReturns(latest)
    BY <1>6 DEF SizeFound
  <2>2. CASE IsDoubled(latest)
    BY <1>1, <2>1, <2>2, HandlerReturnsGrowth
  <2>3. CASE OnTheWay
    <3>0. PICK m \in Nat \ {0} :
            \E c \in [0..m -> Nat], k \in 1..m : Doublings(c, m) /\ c[k] = latest
      BY <2>3 DEF OnTheWay
    <3>1. PICK c \in [0..m -> Nat], k \in 1..m : Doublings(c, m) /\ c[k] = latest
      BY <3>0
    <3> DEFINE d == [i \in 0..k |-> c[i]]
    <3>2. /\ k \in Nat \ {0} /\ k <= m
          /\ \A i \in 0..k : i \in 0..m
          /\ \A i \in 0..k - 1 : i \in 0..m - 1 /\ i \in 0..k /\ i + 1 \in 0..k
          /\ \A i \in 1..k : i \in 1..m /\ i \in 0..k
          /\ 0 \in 0..k /\ k \in 0..k
      BY <3>1
    <3>3. d \in [0..k -> Nat]
      BY <3>2
    <3>4. \A i \in 0..k : d[i] = c[i]
      OBVIOUS
    <3> HIDE DEF d
    <3>5. Doublings(d, k) /\ d[k] = latest
      BY <3>1, <3>2, <3>3, <3>4 DEF Doublings
    <3>6. IsDoubled(latest)
      BY <3>2, <3>3, <3>5 DEF IsDoubled
    <3> QED BY <1>1, <2>1, <3>6, HandlerReturnsGrowth
  <2> QED BY <2>1, <2>2, <2>3 DEF GrowthInv
<1>7. CASE UNCHANGED readBufferVars
  BY <1>7 DEF readBufferVars, GrowthInv, IsDoubled, OnTheWay, Doublings
<1> QED BY <1>2, <1>3, <1>4, <1>5, <1>6, <1>7 DEF ReadNext, Read, Resizing

-----------------------------------------------------------------------------
(* The composition                                                           *)

(* A step of the composition is a step of both parts, one perhaps a stutter. *)
LEMMA EntryReadStep ==
  [EntryReadNext]_entryReadVars => [Next]_vars /\ [ReadNext]_readBufferVars
<1> SUFFICES ASSUME [EntryReadNext]_entryReadVars
             PROVE  [Next]_vars /\ [ReadNext]_readBufferVars
  OBVIOUS
<1>1. CASE ReadInput
  BY <1>1 DEF ReadInput, ReadNext
<1>2. CASE ReadBufferResized
  BY <1>2 DEF ReadBufferResized, ReadNext
<1>3. CASE HandleInput
  BY <1>3 DEF HandleInput, Next
<1>4. CASE Timing
  BY <1>4 DEF Timing, FallsSilent, Next
<1>5. CASE UNCHANGED entryReadVars
  BY <1>5 DEF entryReadVars
<1> QED
  BY <1>1, <1>2, <1>3, <1>4, <1>5 DEF EntryReadNext

(* The composition runs the heartbeat and the read buffer.                   *)
LEMMA EntryReadParts == EntryReadSpec => Spec /\ ReadSpec
<1>1. EntryReadInit => Init /\ ReadInit
  BY DEF EntryReadInit
<1> QED
  BY <1>1, EntryReadStep, PTL DEF EntryReadSpec, Spec, ReadSpec

(* The size that raw_bytes_handler_t concludes from is the one that          *)
(* after_read reads into, and never zero, for all configured sizes.          *)
THEOREM ReadSizeAlwaysKnown == EntryReadSpec => []ReadSizeKnown
<1>1. ReadSpec => []ReadInv
  BY ReadInitInv, ReadNextInv, PTL DEF ReadSpec
<1>2. ReadInv => ReadSizeKnown
  BY DEF ReadInv
<1> QED
  BY <1>1, <1>2, EntryReadParts, PTL

(* on_check_heartbeat never closes an entry whose peer answers in time, even *)
(* when its answers wait for the strand of the entry.                        *)
THEOREM ReadingPeersAreKept == EntryReadSpec => []AlivePeerIsKept
  BY EntryReadParts, AlivePeersAreKept, PTL

(* An active entry has handled an input within the bound, or it is closed    *)
(* by on_check_heartbeat, whatever is read and dispatched in between.        *)
THEOREM SilenceIsBounded == EntryReadSpec => []DetectionBound
  BY EntryReadParts, DeadPeersAreNoticed, PTL

(* A peer that sends as fast as it can never makes the buffer of after_read  *)
(* larger than twice the limit that raw_bytes_handler_t sets, unless it was  *)
(* configured larger; for all configured sizes and every limit.              *)
THEOREM BufferGrowthIsLimited == EntryReadSpec => []ReadIsLimited
<1>1. ReadInit => ReadInv /\ GrowthInv
  BY ReadInitInv, GrowthInit
<1>2. ReadInv /\ GrowthInv /\ [ReadNext]_readBufferVars => ReadInv' /\ GrowthInv'
  BY ReadNextInv, GrowthNext
<1>3. ReadSpec => [](ReadInv /\ GrowthInv)
  BY <1>1, <1>2, PTL DEF ReadSpec
<1>4. ReadInv /\ GrowthInv => ReadIsLimited
  BY GrowthIsLimit
<1> QED
  BY <1>3, <1>4, EntryReadParts, PTL
=============================================================================
