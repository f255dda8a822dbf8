------------------------------ MODULE PkgInput ------------------------------
(***************************************************************************)
(* opio::proto_entry::pkg_input_t                                          *)
(* (proto_entry/include/opio/proto_entry/pkg_input.hpp): the input of an   *)
(* entry, a ring of buffers that is read as one stream by the entry and,   *)
(* through the ZeroCopyInputStream interface, by the protobuf parser.      *)
(*                                                                         *)
(* Bytes are numbered in the order of their arrival.  The recursion of     *)
(* skip_bytes and copy_n_bytes_to is a loop of steps; nothing else happens *)
(* in between.  The entry and the parser keep the preconditions that the   *)
(* code states; reads bring at least one byte.                             *)
(***************************************************************************)
EXTENDS Integers, Sequences

CONSTANTS
  Capacity,    \* Buffer_Queue_Capacity
  HeaderSize,  \* sizeof( pkg_header_t )
  MaxBuf,      \* bound: bytes in one buffer
  MaxBytes,    \* bound: bytes in all, and bytes that ByteCount() may count
  LongSkips    \* TRUE: the parser may Skip() more than there is

ASSUME InputAssumption ==
  /\ Capacity \in Nat \ {0} /\ HeaderSize \in Nat \ {0}
  /\ MaxBuf \in Nat /\ MaxBytes \in Nat
  /\ LongSkips \in BOOLEAN

VARIABLES
  ring,     \* the members of pkg_input_t
  byteCount,\* m_byte_size_counter
  call,     \* the operation that is under way
  arrived,  \* bytes appended
  done,     \* the last operation that returned
  taken     \* bytes that skip_bytes and read_buffer took

vars == <<ring, byteCount, call, arrived, done, taken>>

Slots == 0..(Capacity - 1)

(* No operation is under way. *)
Idle == [op |-> "idle", arg |-> 0, left |-> 0, slot |-> 0, off |-> 0, dest |-> <<>>]

Bytes(from, n) == [i \in 1..n |-> from + i]
Result(op, arg, ok, bytes) == [op |-> op, arg |-> arg, ok |-> ok, bytes |-> bytes]

Init ==
  /\ ring = [bufs |-> [i \in Slots |-> <<>>], count |-> 0, first |-> 0, offset |-> 0,
             total |-> 0, served |-> FALSE]
  /\ byteCount = 0
  /\ call = Idle
  /\ arrived = 0
  /\ done = Result("none", 0, TRUE, <<>>)
  /\ taken = 0

-----------------------------------------------------------------------------
(* The helpers of pkg_input_t, on its members r                              *)

RemainedInTheFirstBuffer(r) == Len(r.bufs[r.first]) - r.offset

NextPos(slot) == (slot + 1) % Capacity

(* mutant: the offset of the popped buffer stays *)
PopBuffer_OffsetStays(r) == [r EXCEPT !.count = @ - 1, !.first = NextPos(@)]

PopBuffer(r) == [r EXCEPT !.count = @ - 1, !.first = NextPos(@), !.offset = 0]

ResetFirstBufferServed(r) ==
  IF r.served
  THEN [PopBuffer(r) EXCEPT !.total = @ - RemainedInTheFirstBuffer(r), !.served = FALSE]
  ELSE r

-----------------------------------------------------------------------------
(* append: into the next slot, or behind the last buffer of a full ring *)
AppendTo(r, buf) ==
  LET last == (r.first + r.count - 1) % Capacity
      next == (r.first + r.count) % Capacity
  IN  IF Capacity > r.count
      THEN [r EXCEPT !.total = @ + Len(buf), !.bufs[next] = buf, !.count = @ + 1]
      ELSE [r EXCEPT !.total = @ + Len(buf), !.bufs[last] = @ \o buf]

AppendBuf(n) ==
  /\ call = Idle
  /\ ~ring.served
  /\ arrived + n <= MaxBytes
  /\ ring' = AppendTo(ring, Bytes(arrived, n))
  /\ arrived' = arrived + n
  /\ done' = Result("append", n, TRUE, <<>>)
  /\ UNCHANGED <<byteCount, call, taken>>

(* Next: what was served before is consumed; the first buffer is served *)
NextChunk ==
  LET r == ResetFirstBufferServed(ring)
      n == RemainedInTheFirstBuffer(r)
  IN  /\ call = Idle
      /\ IF r.total = 0
         THEN /\ ring' = r
              /\ done' = Result("Next", 0, FALSE, <<>>)
              /\ UNCHANGED byteCount
         ELSE /\ ring' = [r EXCEPT !.served = TRUE]
              /\ byteCount' = byteCount + n
              /\ done' = Result("Next", 0, TRUE,
                                SubSeq(r.bufs[r.first], r.offset + 1, Len(r.bufs[r.first])))
      /\ UNCHANGED <<call, arrived, taken>>

(* mutant: what is kept is not counted as consumed *)
BackUpTo_KeepsTotal(r, n) ==
  LET consumed == RemainedInTheFirstBuffer(r) - n
      rest     == [r EXCEPT !.served = FALSE]
  IN  IF 0 < n THEN [rest EXCEPT !.offset = @ + consumed] ELSE PopBuffer(rest)

BackUpTo(r, n) ==
  LET consumed == RemainedInTheFirstBuffer(r) - n
      rest     == [r EXCEPT !.served = FALSE, !.total = @ - consumed]
  IN  IF 0 < n THEN [rest EXCEPT !.offset = @ + consumed] ELSE PopBuffer(rest)

(* BackUp, right after a Next that served *)
BackUp(n) ==
  /\ call = Idle
  /\ ring.served
  /\ n <= RemainedInTheFirstBuffer(ring)
  /\ ring' = BackUpTo(ring, n)
  /\ byteCount' = byteCount - n
  /\ done' = Result("BackUp", n, TRUE, <<>>)
  /\ UNCHANGED <<call, arrived, taken>>

(* Skip; enough bytes are skipped by skip_bytes.  A Skip of more than there *)
(* is counts what was asked for and leaves the stream where it is.  (The    *)
(* parser of an entry reads through a LimitingInputStream of the package's  *)
(* size, which never passes on a Skip beyond it: LongSkips is FALSE there.) *)
Skip(n) ==
  LET r == ResetFirstBufferServed(ring)
  IN  /\ call = Idle
      /\ LongSkips \/ n <= r.total
      /\ byteCount + n <= MaxBytes
      /\ ring' = r
      /\ byteCount' = byteCount + n
      /\ IF r.total < n
         THEN /\ done' = Result("Skip", n, FALSE, <<>>)
              /\ UNCHANGED call
         ELSE /\ call' = [Idle EXCEPT !.op = "Skip", !.arg = n, !.left = n]
              /\ UNCHANGED done
      /\ UNCHANGED <<arrived, taken>>

SkipBytes(n) ==
  /\ call = Idle
  /\ ~ring.served
  /\ n <= ring.total
  /\ call' = [Idle EXCEPT !.op = "skip_bytes", !.arg = n, !.left = n]
  /\ UNCHANGED <<ring, byteCount, arrived, done, taken>>

(* view_pkg_header and read_buffer begin with copy_n_bytes_to *)
StartCopy(op, n) ==
  /\ call = Idle
  /\ ~ring.served
  /\ n <= ring.total
  /\ call' = [Idle EXCEPT !.op = op, !.arg = n, !.left = n,
                          !.slot = ring.first, !.off = ring.offset]
  /\ UNCHANGED <<ring, byteCount, arrived, done, taken>>

ViewPkgHeader == StartCopy("view_pkg_header", HeaderSize)

ReadBuffer(n) == StartCopy("read_buffer", n)

(* mutant: the next buffer is read from the old offset *)
CopyOn_OffsetStays(c, n) == [c EXCEPT !.left = @ - n, !.slot = NextPos(@)]

(* mutant: it goes on behind the bytes of the same buffer *)
CopyOn_SameBuffer(c, n) == [c EXCEPT !.left = @ - n, !.off = @ + n]

(* copy_n_bytes_to goes on with the next buffer *)
CopyOn(c, n) == [c EXCEPT !.left = @ - n, !.slot = NextPos(@), !.off = 0]

CopyNBytesTo ==
  LET buf      == ring.bufs[call.slot]
      remained == Len(buf) - call.off
      last     == call.left < remained
      n        == IF last THEN call.left ELSE remained
      dest     == call.dest \o SubSeq(buf, call.off + 1, call.off + n)
  IN  /\ call.op \in {"view_pkg_header", "read_buffer"}
      /\ call' = IF ~last THEN [CopyOn(call, n) EXCEPT !.dest = dest]
                 ELSE IF call.op = "view_pkg_header" THEN Idle
                 ELSE [Idle EXCEPT !.op = "read_skip", !.arg = call.arg,
                                   !.left = call.arg, !.dest = dest]
      /\ done' = IF last /\ call.op = "view_pkg_header"
                 THEN Result(call.op, call.arg, TRUE, dest) ELSE done
      /\ UNCHANGED <<ring, byteCount, arrived, taken>>

(* The operation whose skip_bytes ends here returns. *)
SkipReturns ==
  /\ call' = Idle
  /\ done' = IF call.op = "read_skip" THEN Result("read_buffer", call.arg, TRUE, call.dest)
                                      ELSE Result(call.op, call.arg, TRUE, <<>>)
  /\ taken' = IF call.op = "Skip" THEN taken ELSE taken + call.arg

SkipsWithin(n) == n < RemainedInTheFirstBuffer(ring)

SkipBytesStep ==
  LET n == call.left
  IN  /\ call.op \in {"Skip", "skip_bytes", "read_skip"}
      /\ \/ /\ n = 0
            /\ SkipReturns
            /\ UNCHANGED ring
         \/ /\ n # 0 /\ SkipsWithin(n)
            /\ ring' = [ring EXCEPT !.offset = @ + n, !.total = @ - n]
            /\ SkipReturns
         \/ /\ n # 0 /\ ~SkipsWithin(n)
            /\ ring' = [PopBuffer(ring) EXCEPT !.total = @ - RemainedInTheFirstBuffer(ring)]
            /\ call' = [call EXCEPT !.left = @ - RemainedInTheFirstBuffer(ring)]
            /\ UNCHANGED <<done, taken>>
      /\ UNCHANGED <<byteCount, arrived>>

-----------------------------------------------------------------------------
Work == CopyNBytesTo \/ SkipBytesStep

Next ==
  \/ \E n \in 1..MaxBuf : AppendBuf(n)
  \/ NextChunk
  \/ \E n \in 0..MaxBytes : BackUp(n) \/ Skip(n) \/ SkipBytes(n)
  \/ \E n \in 1..MaxBytes : ReadBuffer(n)
  \/ ViewPkgHeader
  \/ Work

Spec == Init /\ [][Next]_vars

(* A call goes on until it returns. *)
FairSpec == Spec /\ WF_vars(Work)

-----------------------------------------------------------------------------
(* Every variable of the input has its type. *)
TypeOK ==
  /\ ring \in [bufs : [Slots -> Seq(1..MaxBytes)], count : 0..Capacity, first : Slots,
               offset : Nat, total : Nat, served : BOOLEAN]
  /\ byteCount \in Nat /\ arrived \in 0..MaxBytes /\ taken \in Nat
  /\ call \in [op : {"idle", "Skip", "skip_bytes", "read_skip", "view_pkg_header", "read_buffer"},
               arg : Nat, left : Nat, slot : Slots, off : Nat, dest : Seq(1..MaxBytes)]
  /\ done \in [op : {"none", "append", "Next", "BackUp", "Skip", "skip_bytes",
                     "view_pkg_header", "read_buffer"},
               arg : Nat, ok : BOOLEAN, bytes : Seq(1..MaxBytes)]

(* The i-th buffer of the queue. *)
Slot(i) == (ring.first + i) % Capacity
Buf(i) == ring.bufs[Slot(i)]

(* The ring holds the unread bytes, each once and in order, the first of     *)
(* them at the offset; m_total_size counts them; and the types are right.    *)
RingInv ==
  /\ TypeOK
  /\ ring.total > 0 <=> ring.count > 0
  /\ ring.served => ring.count > 0
  /\ ring.count = 0 => ring.offset = 0
  /\ ring.count > 0 =>
       /\ ring.offset < Len(Buf(0))
       /\ Buf(0)[ring.offset + 1] = arrived - ring.total + 1
       /\ Buf(ring.count - 1)[Len(Buf(ring.count - 1))] = arrived
  /\ \A i \in 0..(ring.count - 1) :
       /\ Buf(i) # <<>>
       /\ \A j \in DOMAIN Buf(i) : Buf(i)[j] = Buf(i)[1] + j - 1
       /\ i > 0 => Buf(i)[1] = Buf(i - 1)[Len(Buf(i - 1))] + 1

(* The position of the reader, as the caller sees it. *)
Lent == IF ring.served THEN RemainedInTheFirstBuffer(ring) ELSE 0
Position ==
  IF call.op \in {"Skip", "skip_bytes", "read_skip"}
  THEN arrived - ring.total - (call.arg - call.left)
  ELSE arrived - ring.total + Lent

(* ByteCount() is what the parser took through the ZeroCopyInputStream       *)
(* interface less what it gave back: the rest of what was read went to       *)
(* skip_bytes and read_buffer.  It rests on a parser that does not skip      *)
(* beyond the end (LongSkips = FALSE): a Skip that fails counts bytes that   *)
(* are not there, and does not go to the end as its comment says.            *)
CountIsParsed == call = Idle => byteCount = Position - taken

(* Whatever buffers the bytes came in, pkg_input_t is one stream: every      *)
(* operation returns the bytes it should and leaves the reader where it      *)
(* should.  It rests on LongSkips = FALSE too.                               *)
Stream == INSTANCE InputStream WITH pos <- Position, lent <- Lent
ImplementsInput == Stream!Spec

(* The recursions over the ring end. *)
CallEnds == call # Idle ~> call = Idle
=============================================================================
