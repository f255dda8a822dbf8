---------------------------- MODULE MCConnection ----------------------------
(* Instances of Connection for TLC.  The limits are 2 (buffers in a write, *)
(* bytes of a quick write, bytes of a concatenation), so a 3-byte buffer   *)
(* is always written asynchronously, <<1, 1>> fills an item and can be     *)
(* compacted, <<1, 2>> fills one and cannot.                               *)
EXTENDS Connection

TinyShapes == {<<1>>, <<3>>}
WriteShapes == {<<1>>, <<3>>, <<1, 1>>, <<1, 2>>}
=============================================================================
