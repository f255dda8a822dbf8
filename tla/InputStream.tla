---------------------------- MODULE InputStream ----------------------------
(***************************************************************************)
(* What opio::proto_entry::pkg_input_t promises: one stream of bytes,      *)
(* numbered in the order of their arrival, that is read from the front,    *)
(* whatever the buffers are in which it came.  The interface is that of a  *)
(* protobuf ZeroCopyInputStream with the entry's additions.                *)
(***************************************************************************)
EXTENDS Integers, Sequences

VARIABLES
  arrived,  \* bytes appended
  pos,      \* bytes given away
  lent,     \* bytes of the chunk that Next served last, which BackUp may return
  done      \* the last operation: [op, arg, ok, bytes]

vars == <<arrived, pos, lent, done>>

Bytes(from, n) == [i \in 1..n |-> from + i]

Result(op, arg, ok, bytes) == [op |-> op, arg |-> arg, ok |-> ok, bytes |-> bytes]

Init ==
  /\ arrived = 0
  /\ pos = 0
  /\ lent = 0
  /\ done = Result("none", 0, TRUE, <<>>)

AppendBuf ==
  /\ lent = 0
  /\ arrived' > arrived
  /\ done' = Result("append", arrived' - arrived, TRUE, <<>>)
  /\ UNCHANGED <<pos, lent>>

(* A chunk of at least one byte, of any size; nothing at the end. *)
NextChunk ==
  /\ \/ /\ pos < pos' /\ pos' <= arrived
        /\ lent' = pos' - pos
        /\ done' = Result("Next", 0, TRUE, Bytes(pos, lent'))
     \/ /\ pos = arrived
        /\ pos' = pos
        /\ lent' = 0
        /\ done' = Result("Next", 0, FALSE, <<>>)
  /\ UNCHANGED arrived

(* Once another operation has begun the chunk counts as consumed. *)
Settle ==
  /\ lent > 0
  /\ lent' = 0
  /\ UNCHANGED <<arrived, pos, done>>

BackUp ==
  /\ done'.arg \in 0..lent
  /\ done' = Result("BackUp", done'.arg, TRUE, <<>>)
  /\ pos' = pos - done'.arg
  /\ lent' = 0
  /\ UNCHANGED arrived

(* Skip fails, and goes to the end, if there are not enough bytes. *)
Skip ==
  LET n  == done'.arg
      ok == pos + n <= arrived
  IN  /\ n \in Nat
      /\ done' = Result("Skip", n, ok, <<>>)
      /\ pos' = IF ok THEN pos + n ELSE arrived
      /\ lent' = 0
      /\ UNCHANGED arrived

SkipBytes ==
  /\ done'.arg \in 0..(arrived - pos)
  /\ done' = Result("skip_bytes", done'.arg, TRUE, <<>>)
  /\ pos' = pos + done'.arg
  /\ UNCHANGED <<arrived, lent>>

ReadBuffer ==
  /\ done'.arg \in 0..(arrived - pos)
  /\ done' = Result("read_buffer", done'.arg, TRUE, Bytes(pos, done'.arg))
  /\ pos' = pos + done'.arg
  /\ UNCHANGED <<arrived, lent>>

ViewPkgHeader ==
  /\ done'.arg \in 0..(arrived - pos)
  /\ done' = Result("view_pkg_header", done'.arg, TRUE, Bytes(pos, done'.arg))
  /\ UNCHANGED <<arrived, pos, lent>>

Step ==
  \/ AppendBuf \/ NextChunk \/ Settle \/ BackUp
  \/ Skip \/ SkipBytes \/ ReadBuffer \/ ViewPkgHeader

Spec == Init /\ [][Step]_vars
=============================================================================
