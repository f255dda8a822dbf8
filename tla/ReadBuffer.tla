----------------------------- MODULE ReadBuffer -----------------------------
(***************************************************************************)
(* The buffer that a connection reads into and the input handler of an     *)
(* entry that chooses its size: after_read of opio::net::tcp::connection_t *)
(* (net/tcp/connection.hpp), raw_bytes_handler_t of                        *)
(* proto_entry/entry_base.hpp and simple_buffer_t of net/buffer.hpp.       *)
(*                                                                         *)
(* The two sides never tell each other the size: the handler knows how     *)
(* much came and what it asked for last, and concludes whether the buffer  *)
(* was full.  Its loop over doubled sizes is a loop of steps.              *)
(***************************************************************************)
EXTENDS Integers

CONSTANTS
  ConfigSizes,  \* values of input_buffer_size that are configured
  ReadLimit     \* size_buf_32mb

ASSUME ReadAssumption == ConfigSizes \subseteq Nat \ {0} /\ ReadLimit \in Nat \ {0}

VARIABLES
  inputBufferSize,  \* m_cfg.input_buffer_size()
  readBuffer,       \* m_read_buffer: [size, capacity]
  latest,           \* latest_explicitly_allocated_read_buf_size, 0 if none is
  came              \* bytes of the input while the handler searches, else 0

readBufferVars == <<inputBufferSize, readBuffer, latest, came>>

(* simple_buffer_t *)
Allocate(n) == [size |-> n, capacity |-> n]
MovedFrom == [size |-> 0, capacity |-> 0]
Resize(buf, n) == IF n <= buf.capacity THEN [buf EXCEPT !.size = n] ELSE Allocate(n)

ReadInit ==
  /\ inputBufferSize \in ConfigSizes
  /\ readBuffer = Allocate(inputBufferSize)
  /\ latest = 0
  /\ came = 0

MinimumOf(a, b) == IF a <= b THEN a ELSE b

-----------------------------------------------------------------------------
(* mutant: the buffer given by the handler is taken only beside its input *)
NextReadBuffer_ReusesFirst(given, left) ==
  IF given > 0 /\ left.capacity >= inputBufferSize
  THEN Allocate(given) ELSE Resize(left, inputBufferSize)

(* after_read: the next read is into the buffer that the input handler gave, *)
(* or else into what the handler has left of the one it received, resized.   *)
NextReadBuffer(given, left) ==
  IF given > 0 THEN Allocate(given) ELSE Resize(left, inputBufferSize)

(* The handler returns, with the size it wants next; it has moved the input *)
(* to the strand of the entry.                                              *)
HandlerReturns(size) ==
  /\ latest' = size
  /\ readBuffer' = NextReadBuffer(size, MovedFrom)
  /\ came' = 0
  /\ UNCHANGED inputBufferSize

FullyUtilized(n) == n = IF latest # 0 THEN latest ELSE inputBufferSize

(* mutant: doubled whatever the size is *)
ReadFills_Unlimited(n) ==
  /\ came = 0
  /\ FullyUtilized(n)
  /\ HandlerReturns(n * 2)

(* n bytes filled the buffer: the next one is twice as large. *)
ReadFills(n) ==
  /\ came = 0
  /\ FullyUtilized(n)
  /\ HandlerReturns(MinimumOf(n * 2, ReadLimit))

(* n bytes are less than the buffer, which had grown, but not less than the  *)
(* configured size: the search for a size begins.                            *)
ReadMuch(n) ==
  /\ came = 0
  /\ ~FullyUtilized(n) /\ inputBufferSize <= n
  /\ came' = n
  /\ latest' = inputBufferSize * 2
  /\ readBuffer' = MovedFrom
  /\ UNCHANGED inputBufferSize

DoubleSize ==
  /\ came > 0 /\ latest < came
  /\ latest' = latest * 2
  /\ UNCHANGED <<inputBufferSize, readBuffer, came>>

SizeFound ==
  /\ came > 0 /\ latest >= came
  /\ HandlerReturns(latest)

(* The configured size is enough for what came. *)
ReadLittle(n) ==
  /\ came = 0
  /\ ~FullyUtilized(n) /\ n < inputBufferSize
  /\ HandlerReturns(0)

Read(n) == ReadFills(n) \/ ReadMuch(n) \/ ReadLittle(n)

Resizing == DoubleSize \/ SizeFound

ReadNext == (\E n \in 1..readBuffer.size : Read(n)) \/ Resizing

ReadSpec == ReadInit /\ [][ReadNext]_readBufferVars

-----------------------------------------------------------------------------
ReadTypeOK ==
  /\ inputBufferSize \in ConfigSizes
  /\ readBuffer \in [size : Nat, capacity : Nat]
  /\ latest \in Nat /\ came \in Nat

(* The size that the handler concludes from is the one that is read into,    *)
(* so that a full buffer is never taken for a partly filled one, and no read *)
(* is started with an empty buffer (it would complete at once, for ever).    *)
ReadSizeKnown ==
  came = 0 =>
    /\ readBuffer.size = IF latest # 0 THEN latest ELSE inputBufferSize
    /\ readBuffer.size > 0 /\ readBuffer.size <= readBuffer.capacity

(* A peer that sends as fast as it can does not make the buffer grow without *)
(* bound.  The limit itself, "a hard max of what we read in one go", is not   *)
(* kept: a configured size that is no power of two below it is doubled past  *)
(* it, but not twice.                                                         *)
ReadIsLimited ==
  \/ readBuffer.size = inputBufferSize
  \/ readBuffer.size < 2 * ReadLimit

(* The inductive invariant: the search goes on from a positive size. *)
ReadInv ==
  /\ ReadTypeOK
  /\ ReadSizeKnown
  /\ came > 0 => latest > 0
=============================================================================
