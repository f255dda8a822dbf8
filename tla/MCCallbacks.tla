----------------------------- MODULE MCCallbacks -----------------------------
(* Instances of ConnectionCallbacks for TLC, with the buffers of           *)
(* MCConnection.                                                           *)
EXTENDS MCConnection, ConnectionCallbacks
=============================================================================
