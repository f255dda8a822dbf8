----------------------------- MODULE Endpoints -----------------------------
(***************************************************************************)
(* An acceptor, a connector and a UDP receiver on the io_context of one    *)
(* asio_thread_t.  The user's thread starts, stops and joins the thread    *)
(* and calls the three; the system completes their operations; their       *)
(* handlers run only while the thread takes them.                          *)
(***************************************************************************)
EXTENDS Acceptor, Connector, UdpReceiver, AsioThread

CONSTANT MaxRequests  \* bound: what the user asks for, of all of them

ASSUME EndpointsAssumption == MaxRequests \in Nat

vars == <<acceptorVars, connectorVars, udpVars, threadVars>>

Init == AcceptorInit /\ ConnectorInit /\ UdpInit /\ ThreadInit

(* The io_context has no work. *)
Idle ==
  /\ acceptQ = <<>> /\ accepts = 0
  /\ udpQ = <<>> /\ receives = 0
  /\ connector \in {"idle", "done"}

-----------------------------------------------------------------------------
AcceptorRuns == AcceptorHandler /\ UNCHANGED <<connectorVars, udpVars>> /\ HandlerRan(Idle')
ConnectorRuns == ConnectorHandler /\ UNCHANGED <<acceptorVars, udpVars>> /\ HandlerRan(Idle')
UdpRuns == UdpHandler /\ UNCHANGED <<acceptorVars, connectorVars>> /\ HandlerRan(Idle')

ConnectorThrows ==
  /\ HandleResolveThrows
  /\ UNCHANGED <<acceptorVars, udpVars>>
  /\ HandlerThrows(Idle')

ThreadRuns ==
  /\ MainEnds \/ Restart \/ GracefulEnds(Idle)
  /\ UNCHANGED <<acceptorVars, connectorVars, udpVars>>

(* A completed operation is seen by a thread that runs the io_context. *)
ConnectorIoStep == LoopRuns /\ ConnectorIo /\ UNCHANGED <<acceptorVars, udpVars, threadVars>>

Io ==
  \/ LoopRuns /\ AcceptorIo /\ UNCHANGED <<connectorVars, udpVars, threadVars>>
  \/ LoopRuns /\ UdpIo /\ UNCHANGED <<acceptorVars, connectorVars, threadVars>>
  \/ ConnectorIoStep

Requests == Len(calls) + switches + starts + (IF connector = "idle" THEN 0 ELSE 1)

User ==
  /\ \/ ThreadUser /\ UNCHANGED <<acceptorVars, connectorVars, udpVars>>
     \/ AcceptorUser /\ UNCHANGED <<connectorVars, udpVars, threadVars>>
     \/ AsyncConnect /\ UNCHANGED <<acceptorVars, udpVars, threadVars>>
     \/ UdpUser /\ UNCHANGED <<acceptorVars, connectorVars, threadVars>>
  /\ Requests' <= MaxRequests

Next ==
  \/ AcceptorRuns \/ ConnectorRuns \/ UdpRuns \/ ConnectorThrows
  \/ ThreadRuns \/ Io \/ User

Spec == Init /\ [][Next]_vars

(* The thread takes the handlers that are queued, one component's not for    *)
(* ever before another's; a resolver and a connect attempt end.  Nothing is  *)
(* assumed of the user and of the peers.                                     *)
FairSpec ==
  /\ Spec
  /\ WF_vars(AcceptorRuns) /\ WF_vars(UdpRuns)
  /\ WF_vars(ConnectorRuns) /\ WF_vars(ConnectorIoStep)
  /\ WF_vars(ThreadRuns)

-----------------------------------------------------------------------------
AcceptEntry == [kind : {"open", "close", "accepted", "error", "aborted"}, call : 0..MaxCalls]
Outcomes == {"none", "success", "already_started", "not_running", "exception_happened"}

(* Every variable has its type. *)
TypeOK ==
  /\ acceptor \in {"closed", "open", "listening"}
  /\ accepts \in Nat /\ acceptQ \in Seq(AcceptEntry) /\ conns \in 0..MaxConns
  /\ calls \in Seq([op : {"open", "close"}, res : Outcomes])
  /\ connector \in {"idle", "resolving", "resolved", "connecting", "connected", "done"}
  /\ answers \in {0, 1}
  /\ receiving \in BOOLEAN /\ receives \in Nat
  /\ udpQ \in Seq({"receive", "cancel", "data", "error", "aborted"})
  /\ switches \in 0..MaxSwitches /\ datagrams \in 0..MaxDatagrams
  /\ thread \in {"none", "main", "restart", "graceful", "done"}
  /\ stopped \in BOOLEAN /\ starts \in 0..MaxStarts

(* A listening acceptor goes on accepting, whatever errors accepts end with  *)
(* and however it was closed and opened in between: an accept waits, or a    *)
(* handler that starts the next one is queued.                               *)
AcceptorServes ==
  acceptor = "listening" =>
    accepts > 0 \/ \E i \in DOMAIN acceptQ : acceptQ[i].kind \in {"accepted", "error"}

(* What the user was told last is true: the acceptor listens exactly when    *)
(* the last of the successful calls is an open(), failures in between        *)
(* notwithstanding.                                                          *)
AnswersAreTrue ==
  LET good == {n \in DOMAIN calls : calls[n].res = "success"}
  IN  acceptor = "listening" <=>
        \E n \in good : calls[n].op = "open" /\ \A m \in good : m <= n

(* A receiver that is started receives: however starts, stops and datagrams  *)
(* interleave, a receive waits or something queued behind every cancel will  *)
(* start one.                                                                *)
ReceiverListens ==
  LET cancels == {i \in DOMAIN udpQ : udpQ[i] = "cancel"}
      next(i) == udpQ[i] \in {"receive", "data", "error"}
  IN  receiving =>
        \/ receives > 0 /\ cancels = {}
        \/ \E i \in DOMAIN udpQ : next(i) /\ \A c \in cancels : c < i

(* The loop of the main phase, which only stop() and a throwing handler end. *)
Serving == thread = "main" /\ ~stopped

Answered(n) == n \in DOMAIN calls /\ calls[n].res # "none"

(* open() and close() answer, also while a handler that fails again and      *)
(* again (an accept that completed before the close) keeps the queue filled. *)
CallsAreAnswered ==
  \A n \in 1..MaxCalls :
    n \in DOMAIN calls ~> (~Serving \/ Answered(n))

(* "In any case (connection succeed or connection failed) We should report   *)
(* the status": an attempt is answered, unless the thread is lost.           *)
ConnectIsAnswered == connector = "resolving" ~> (answers = 1 \/ ~Serving)

(* A thread that is stopped ends, also when its second stop is lost between  *)
(* the two loops and an accept waits for ever: join() returns.               *)
StopEnds == thread # "none" /\ stopped ~> thread \in {"none", "done"}

-----------------------------------------------------------------------------
(* The inductive invariant behind AnswersAreTrue: the calls that are queued  *)
(* are the latest ones, in their order, and not answered yet.                *)
CallsQueued(q, cs) ==
  /\ \A i \in DOMAIN q : q[i].call = 0 <=> q[i].kind \notin {"open", "close"}
  /\ \A i \in DOMAIN q : q[i].call # 0 =>
       /\ q[i].call \in DOMAIN cs /\ cs[q[i].call].op = q[i].kind
       /\ \A n \in DOMAIN cs : n >= q[i].call => cs[n].res = "none"
  /\ \A i, j \in DOMAIN q :
       i < j /\ q[i].call # 0 /\ q[j].call # 0 => q[i].call < q[j].call

(* A connector answers when it is done. *)
EndpointsInv ==
  /\ TypeOK
  /\ CallsQueued(acceptQ, calls) /\ AcceptorServes /\ AnswersAreTrue
  /\ ReceiverListens
  /\ connector # "done" => answers = 0
=============================================================================
