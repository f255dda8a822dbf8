----------------------------- MODULE Connector -----------------------------
(***************************************************************************)
(* opio::net::tcp::connector_t (net/include/opio/net/tcp/connector.hpp):   *)
(* one attempt to connect, from async_connect() to the user's callback.    *)
(* Nothing in handle_resolve catches: what is thrown there, by the socket, *)
(* its options or the callback, leaves io_context::run().  Module          *)
(* Endpoints runs it.                                                      *)
(***************************************************************************)
EXTENDS Integers

VARIABLES
  connector,  \* "idle", "resolving", "resolved", "connecting", "connected", "done"
  answers     \* calls of m_on_connection_cb

connectorVars == <<connector, answers>>

ConnectorInit == connector = "idle" /\ answers = 0

AsyncConnect ==
  /\ connector = "idle"
  /\ connector' = "resolving"
  /\ UNCHANGED answers

(* The resolver, then the socket, complete; their handlers are queued. *)
ConnectorIo ==
  /\ \/ connector = "resolving" /\ connector' = "resolved"
     \/ connector = "connecting" /\ connector' = "connected"
  /\ UNCHANGED answers

HandleResolve ==
  /\ connector = "resolved"
  /\ connector' = "connecting"
  /\ UNCHANGED answers

HandleResolveError ==
  /\ connector = "resolved"
  /\ connector' = "done"
  /\ answers' = answers + 1

(* opening the socket or setting its options throws, or the callback that   *)
(* is told of the resolver's error                                          *)
HandleResolveThrows ==
  /\ connector = "resolved"
  /\ connector' = "done"
  /\ answers' \in {answers, answers + 1}

(* mutant: a failed connect is not reported *)
HandleConnect_SuccessOnly ==
  /\ connector = "connected"
  /\ connector' = "done"
  /\ answers' \in {answers, answers + 1}

(* The callback is called in any case, and what it throws is caught. *)
HandleConnect ==
  /\ connector = "connected"
  /\ connector' = "done"
  /\ answers' = answers + 1

ConnectorHandler == HandleResolve \/ HandleResolveError \/ HandleConnect
=============================================================================
