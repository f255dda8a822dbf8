------------------------------ MODULE Acceptor ------------------------------
(***************************************************************************)
(* opio::net::tcp::acceptor_t (net/include/opio/net/tcp/acceptor.hpp):     *)
(* open() and close() post their work to the executor, where it meets the  *)
(* handlers of accept operations in one queue.  Module Endpoints runs it.  *)
(*                                                                         *)
(* The user keeps the acceptor.  An accept on an acceptor that does not    *)
(* listen fails at once, and closing aborts the accepts that still wait,   *)
(* not those whose handler is in the queue.                                *)
(***************************************************************************)
EXTENDS Integers, Sequences

CONSTANTS
  MaxCalls,  \* bound: calls of open() and close()
  MaxConns   \* bound: connections that come in

ASSUME AcceptorAssumption == MaxCalls \in Nat /\ MaxConns \in Nat

VARIABLES
  acceptor,  \* m_acceptor: "closed", "open" (but not listening), "listening"
  accepts,   \* accept operations that wait for a connection
  acceptQ,   \* what is queued for the acceptor
  calls,     \* open() and close() calls so far [op, res]
  conns      \* connections accepted by the system so far

acceptorVars == <<acceptor, accepts, acceptQ, calls, conns>>

AcceptorInit ==
  /\ acceptor = "closed"
  /\ accepts = 0
  /\ acceptQ = <<>>
  /\ calls = <<>>
  /\ conns = 0

(* Call n of the user, or the end of an accept (n = 0). *)
Entry(kind, n) == [kind |-> kind, call |-> n]

Call(op) ==
  /\ Len(calls) < MaxCalls
  /\ calls' = Append(calls, [op |-> op, res |-> "none"])
  /\ acceptQ' = Append(acceptQ, Entry(op, Len(calls) + 1))
  /\ UNCHANGED <<acceptor, accepts, conns>>

(* The system completes an accept. *)
AcceptCompletes(kind) ==
  /\ acceptor = "listening" /\ accepts > 0
  /\ conns < MaxConns
  /\ conns' = conns + 1
  /\ accepts' = accepts - 1
  /\ acceptQ' = Append(acceptQ, Entry(kind, 0))
  /\ UNCHANGED <<acceptor, calls>>

-----------------------------------------------------------------------------
(* The handlers                                                              *)

Runs(kind) == acceptQ # <<>> /\ Head(acceptQ).kind = kind

Answer(res) == calls' = [calls EXCEPT ![Head(acceptQ).call].res = res]

(* mutant: an accept that fails at once is handled at once *)
AcceptNext_AtOnce(rest) ==
  IF acceptor' = "listening"
  THEN accepts' = accepts + 1 /\ acceptQ' = rest
  ELSE acceptQ' = <<Entry("error", 0)>> \o rest /\ UNCHANGED accepts

AcceptNext(rest) ==
  IF acceptor' = "listening"
  THEN accepts' = accepts + 1 /\ acceptQ' = rest
  ELSE acceptQ' = Append(rest, Entry("error", 0)) /\ UNCHANGED accepts

OpenImplAlreadyStarted ==
  /\ Runs("open")
  /\ acceptor # "closed"
  /\ Answer("already_started")
  /\ acceptQ' = Tail(acceptQ)
  /\ UNCHANGED <<acceptor, accepts, conns>>

OpenImpl ==
  /\ Runs("open")
  /\ acceptor = "closed"
  /\ acceptor' = "listening"
  /\ AcceptNext(Tail(acceptQ))
  /\ Answer("success")
  /\ UNCHANGED conns

(* mutant: what fails comes after listen and accept_next *)
OpenImplFails_Late ==
  /\ Runs("open")
  /\ acceptor = "closed"
  /\ acceptor' = "listening"
  /\ AcceptNext(Tail(acceptQ))
  /\ Answer("exception_happened")
  /\ UNCHANGED conns

(* open itself fails, or set_option, bind or listen after it *)
OpenImplFails ==
  /\ Runs("open")
  /\ acceptor = "closed"
  /\ acceptor' \in {"closed", "open"}
  /\ Answer("exception_happened")
  /\ acceptQ' = Tail(acceptQ)
  /\ UNCHANGED <<accepts, conns>>

CloseImpl ==
  /\ Runs("close")
  /\ acceptor # "closed"
  /\ acceptor' = "closed"
  /\ Answer("success")
  /\ acceptQ' = Tail(acceptQ) \o [i \in 1..accepts |-> Entry("aborted", 0)]
  /\ accepts' = 0
  /\ UNCHANGED conns

CloseImplNotRunning ==
  /\ Runs("close")
  /\ acceptor = "closed"
  /\ Answer("not_running")
  /\ acceptQ' = Tail(acceptQ)
  /\ UNCHANGED <<acceptor, accepts, conns>>

(* local_endpoint(), which open_impl and close_impl ask of an acceptor that  *)
(* is open, throws: the acceptor stays as it is.  (The close of a listening  *)
(* socket itself reports no error.)                                          *)
LocalEndpointThrows ==
  /\ Runs("open") \/ Runs("close")
  /\ acceptor # "closed"
  /\ Answer("exception_happened")
  /\ acceptQ' = Tail(acceptQ)
  /\ UNCHANGED <<acceptor, accepts, conns>>

(* mutant: any error ends accepting *)
OnConnection_ErrorEnds ==
  /\ Runs("accepted") \/ Runs("error")
  /\ IF Runs("accepted")
     THEN AcceptNext(Tail(acceptQ))
     ELSE acceptQ' = Tail(acceptQ) /\ UNCHANGED accepts
  /\ UNCHANGED <<acceptor, calls, conns>>

(* on_connection with a socket (whatever the user's callback does) or an error *)
OnConnection ==
  /\ Runs("accepted") \/ Runs("error")
  /\ UNCHANGED <<acceptor, calls, conns>>
  /\ AcceptNext(Tail(acceptQ))

OnConnectionAborted ==
  /\ Runs("aborted")
  /\ acceptQ' = Tail(acceptQ)
  /\ UNCHANGED <<acceptor, accepts, calls, conns>>

AcceptorUser == \E op \in {"open", "close"} : Call(op)
AcceptorIo == \E kind \in {"accepted", "error"} : AcceptCompletes(kind)
AcceptorHandler ==
  \/ OpenImplAlreadyStarted \/ OpenImpl \/ OpenImplFails
  \/ CloseImpl \/ CloseImplNotRunning \/ LocalEndpointThrows
  \/ OnConnection \/ OnConnectionAborted
=============================================================================
