----------------------------- MODULE ByteStream -----------------------------
(***************************************************************************)
(* What a connection promises about its output, without queues, buffers or *)
(* ways to write: a stream accepts bytes while it is open, hands them on   *)
(* in the order of acceptance, each once, and says nothing more once it is *)
(* closed.  Bytes are numbered in the order of acceptance.                 *)
(***************************************************************************)
EXTENDS Integers, Sequences

VARIABLES accepted,  \* how many bytes were accepted
          wire,      \* the bytes handed on
          open       \* bytes are accepted and handed on

streamVars == <<accepted, wire, open>>

Init == accepted = 0 /\ wire = <<>> /\ open = TRUE

(* The next k bytes, in order, go out. *)
HandOn(k) == wire' = wire \o [j \in 1..k |-> Len(wire) + j]

(* New bytes are accepted; some of what is due may go out at once. *)
Accept ==
  /\ open
  /\ accepted' \in Nat /\ accepted' > accepted
  /\ \E k \in 0..(accepted' - Len(wire)) : HandOn(k)
  /\ UNCHANGED open

Transmit ==
  /\ open
  /\ \E k \in 1..(accepted - Len(wire)) : HandOn(k)
  /\ UNCHANGED <<accepted, open>>

(* The stream ends, perhaps in the middle of a write. *)
Close ==
  /\ open
  /\ \E k \in 0..(accepted - Len(wire)) : HandOn(k)
  /\ open' = FALSE
  /\ UNCHANGED accepted

Next == Accept \/ Transmit \/ Close

Spec == Init /\ [][Next]_streamVars
=============================================================================
