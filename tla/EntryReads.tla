----------------------------- MODULE EntryReads -----------------------------
(***************************************************************************)
(* The heartbeat of an entry and the reads of its connection.  They run on *)
(* two strands: the input handler of the connection dispatches what was    *)
(* read to the strand of the entry, and the entry counts an input as a     *)
(* sign of life only when handle_input runs there.                         *)
(***************************************************************************)
EXTENDS Heartbeat, ReadBuffer

CONSTANT MaxPosted  \* bound: inputs on their way to the strand of the entry

ASSUME PostedAssumption == MaxPosted \in Nat

VARIABLE posted  \* inputs dispatched to the strand of the entry

entryReadVars == <<vars, readBufferVars, posted>>

EntryReadInit == Init /\ ReadInit /\ posted = 0

(* after_read, up to and including the dispatch *)
ReadInput ==
  /\ ~silent
  /\ posted < MaxPosted
  /\ posted' = posted + 1
  /\ \E n \in 1..readBuffer.size : Read(n)
  /\ UNCHANGED vars

ReadBufferResized == Resizing /\ UNCHANGED <<vars, posted>>

HandleInput ==
  /\ posted > 0
  /\ posted' = posted - 1
  /\ Input
  /\ UNCHANGED readBufferVars

FallsSilent == posted = 0 /\ PeerFallsSilent

Timing ==
  /\ Tick \/ FallsSilent \/ Check \/ Terminate \/ Terminated
  /\ UNCHANGED <<readBufferVars, posted>>

EntryReadNext == ReadInput \/ ReadBufferResized \/ HandleInput \/ Timing

EntryReadSpec == EntryReadInit /\ [][EntryReadNext]_entryReadVars

FairReadSpec == EntryReadSpec /\ WF_vars(Tick /\ UNCHANGED <<readBufferVars, posted>>)
                              /\ WF_vars(Check /\ UNCHANGED <<readBufferVars, posted>>)
=============================================================================
