----------------------------- MODULE AsioThread -----------------------------
(***************************************************************************)
(* opio::net::asio_thread_t (net/include/opio/net/asio_thread.hpp): a      *)
(* thread that runs an io_context until it is stopped, restarts it and     *)
(* gives it a last while to finish.  The class is used from one thread.    *)
(* Module Endpoints puts handlers on it.                                   *)
(***************************************************************************)
EXTENDS Integers

CONSTANT MaxStarts  \* bound: calls of start()

ASSUME ThreadAssumption == MaxStarts \in Nat

VARIABLES
  thread,   \* m_thread: "none", or where the thread is
  stopped,  \* m_ioctx.stopped()
  starts    \* threads started so far

threadVars == <<thread, stopped, starts>>

ThreadInit == thread = "none" /\ stopped = FALSE /\ starts = 0

(* The thread takes handlers from the io_context. *)
LoopRuns == thread \in {"main", "graceful"} /\ ~stopped

Start ==
  /\ thread = "none"
  /\ starts < MaxStarts
  /\ thread' = "main"
  /\ starts' = starts + 1
  /\ UNCHANGED stopped

Stop ==
  /\ thread # "none"
  /\ stopped' = TRUE
  /\ UNCHANGED <<thread, starts>>

(* run() or the polling returns *)
MainEnds ==
  /\ thread = "main" /\ stopped
  /\ thread' = "restart"
  /\ UNCHANGED <<stopped, starts>>

Restart ==
  /\ thread = "restart"
  /\ thread' = "graceful"
  /\ stopped' = FALSE
  /\ UNCHANGED starts

(* mutant: run() instead of run_for() *)
GracefulEnds_Untimed(idle) ==
  /\ thread = "graceful"
  /\ idle \/ stopped
  /\ thread' = "done"
  /\ stopped' = TRUE
  /\ UNCHANGED starts

(* run_for: stopped, or without work, which counts as stopped, or time out *)
GracefulEnds(idle) ==
  /\ thread = "graceful"
  /\ thread' = "done"
  /\ stopped' \in IF idle \/ stopped THEN {TRUE} ELSE {FALSE}
  /\ UNCHANGED starts

(* A handler ran.  Without the main loop's guard the io_context stops when  *)
(* its last work is done.                                                    *)
HandlerRan(idle) ==
  /\ LoopRuns
  /\ stopped' = (thread = "graceful" /\ idle)
  /\ UNCHANGED <<thread, starts>>

(* A handler throws: the thread catches it outside of its loops, and the    *)
(* guard is gone then.                                                       *)
HandlerThrows(idle) ==
  /\ LoopRuns
  /\ thread' = "done"
  /\ stopped' = idle
  /\ UNCHANGED starts

Join ==
  /\ thread = "done"
  /\ thread' = "none"
  /\ UNCHANGED <<stopped, starts>>

ThreadUser == Start \/ Stop \/ Join
=============================================================================
