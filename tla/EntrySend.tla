------------------------------ MODULE EntrySend ------------------------------
(***************************************************************************)
(* The sending side of the generated entry                                 *)
(* (proto_entry/templates/entry.tmpl.hpp, entry_base.hpp) over the same    *)
(* connection as the back pressure extension of module BackPressure.       *)
(*                                                                         *)
(* A message goes out as a package: an image of head and message, and      *)
(* perhaps attached binaries.  Any thread may send; what the entry's       *)
(* strand sends - the consumer's code, post_send and dispatch_send,        *)
(* heartbeats, back pressure controlled buffers - it sends one after the   *)
(* other.  Every call to the connection is preceded by a look at           *)
(* m_connection_is_active, and a package with several attached binaries    *)
(* takes two calls.  send_vec is left out: it hands its container to the   *)
(* connection as if it were one buffer (entry_base.hpp:1090).              *)
(***************************************************************************)
EXTENDS BackPressure

CONSTANTS
  Threads,   \* the threads that send, besides the strand
  MaxMsgs,   \* bound: packages of one caller
  MaxLength  \* max_seq_length, the buffers that an item of the connection holds

ASSUME SendAssumption == MaxMsgs \in Nat /\ MaxLength \in Nat

VARIABLES
  begun,     \* per caller: packages begun so far
  todo,      \* per caller: the connection calls its send is still to make
  passed,    \* per caller: the next call has found the entry active
  answers,   \* what the completion callbacks heard
  last       \* the piece written last, if it was a head

callVars == <<begun, todo, passed>>
sendVars == <<vars, callVars, answers, last>>

Callers == Threads \cup {"strand"}

(* send and send_with_cb: one call, for one buffer or two.                  *)
(* send_vec_with_cb: a call for the head and one for what is attached.      *)
Forms == {"plain", "attached", "vec"}

Package(c, n, form, cb) == [by |-> c, n |-> n, form |-> form, cb |-> cb]

Packages == [by : Callers, n : 1..MaxMsgs, form : Forms, cb : BOOLEAN]
Pieces == [tag : [pkg : Packages, part : {"plain", "head", "tail"}], buf : {0}]

(* A piece is not one of the buffers of a stream. *)
ASSUME TagsAssumption == \A e \in Pieces : e.tag \notin Tags

Piece(p, part) == [tag |-> [pkg |-> p, part |-> part], buf |-> 0]

(* mutant: the callback goes with the first call *)
IsLastCall_First(p, pieces) == pieces[1].tag.part \in {"plain", "head"}

(* The completion callback goes with the last call. *)
IsLastCall(p, pieces) == pieces[Len(pieces)].tag.part # "head"

Calls(p) ==
  CASE p.form = "plain"    -> << <<Piece(p, "plain")>> >>
    [] p.form = "attached" -> << <<Piece(p, "head"), Piece(p, "tail")>> >>
    [] p.form = "vec"      -> << <<Piece(p, "head")>>, <<Piece(p, "tail")>> >>

SendInit ==
  /\ Init
  /\ begun = [c \in Callers |-> 0]
  /\ todo = [c \in Callers |-> <<>>]
  /\ passed = [c \in Callers |-> FALSE]
  /\ answers = [c \in Callers |-> [n \in 1..MaxMsgs |-> "none"]]
  /\ last = <<>>

(* mutant: what is handed to the strand does not wait for it *)
StrandIsFree_Always == TRUE

StrandIsFree == todo["strand"] = <<>>

Answer(p, what) == answers' = [answers EXCEPT ![p.by][p.n] = IF p.cb THEN what ELSE @]

-----------------------------------------------------------------------------
(* A package is made, its image and the size of what is attached, and goes  *)
(* to schedule_send_raw_bufs or a variant of it, which looks at             *)
(* m_connection_is_active: an inactive entry drops the call, and its        *)
(* callback.                                                                *)
BeginSend(c, form, cb) ==
  /\ held
  /\ todo[c] = <<>>
  /\ begun[c] < MaxMsgs
  /\ form = "vec" => cb
  /\ begun' = [begun EXCEPT ![c] = @ + 1]
  /\ todo' = IF active
             THEN [todo EXCEPT ![c] = Calls(Package(c, begun[c] + 1, form, cb))]
             ELSE todo
  /\ passed' = [passed EXCEPT ![c] = active]
  /\ UNCHANGED <<vars, answers, last>>

(* The second call of a package looks again. *)
LookAgain(c) ==
  /\ todo[c] # <<>> /\ ~passed[c]
  /\ todo' = IF active THEN todo ELSE [todo EXCEPT ![c] = <<>>]
  /\ passed' = [passed EXCEPT ![c] = active]
  /\ UNCHANGED <<vars, begun, answers, last>>

(* mutant: a rejected send is not answered *)
Schedule_NoRejection(c) ==
  LET pieces == Head(todo[c])
      p == pieces[1].tag.pkg
  IN  /\ out' = IF connOpen THEN out \o pieces ELSE out
      /\ IF IsLastCall(p, pieces)
         THEN Answer(p, "waiting")
         ELSE UNCHANGED answers

(* The call reaches the connection, which accepts all of it or rejects it. *)
Schedule(c) ==
  LET pieces == Head(todo[c])
      p == pieces[1].tag.pkg
  IN  /\ out' = IF connOpen THEN out \o pieces ELSE out
      /\ IF IsLastCall(p, pieces)
         THEN Answer(p, IF connOpen THEN "waiting" ELSE "failed")
         ELSE UNCHANGED answers

CallConnection(c) ==
  /\ todo[c] # <<>> /\ passed[c]
  /\ Schedule(c)
  /\ todo' = [todo EXCEPT ![c] = Tail(@)]
  /\ passed' = [passed EXCEPT ![c] = FALSE]
  /\ UNCHANGED <<ctx, taken, handed, written, finished, active, connVars, held, begun, last>>

(* Heartbeats go to the connection as they are. *)
SendHeartbeat ==
  /\ held /\ StrandIsFree
  /\ begun["strand"] < MaxMsgs
  /\ begun' = [begun EXCEPT !["strand"] = @ + 1]
  /\ out' = IF connOpen
            THEN Append(out, Piece(Package("strand", begun["strand"] + 1, "plain", FALSE), "plain"))
            ELSE out
  /\ UNCHANGED <<ctx, taken, handed, written, finished, active, connVars, held, todo, passed,
                 answers, last>>

-----------------------------------------------------------------------------
(* The connection and the strand's other tasks *)

WritePiece ==
  /\ writing
  /\ out # <<>> /\ Head(out).tag \notin Tags
  /\ out' = Tail(out)
  /\ last' = IF Head(out).tag.part = "head" THEN <<Head(out)>> ELSE <<>>
  /\ LET p == Head(out).tag.pkg
     IN  IF IsLastCall(p, <<Head(out)>>) THEN Answer(p, "success") ELSE UNCHANGED answers
  /\ UNCHANGED <<ctx, taken, handed, written, finished, active, connVars, held, callVars>>

WriteBuffer ==
  /\ out # <<>> /\ Head(out).tag \in Tags
  /\ WriteDone
  /\ last' = <<>>
  /\ UNCHANGED <<callVars, answers>>

ConnectionEnds ==
  /\ ConnectionShutdown
  /\ UNCHANGED <<callVars, answers, last>>

(* The callbacks among the pieces hear of a failure. *)
HearFailure(pieces) ==
  answers' = [c \in Callers |-> [n \in 1..MaxMsgs |->
    IF \E i \in DOMAIN pieces :
         /\ pieces[i].tag \notin Tags
         /\ LET p == pieces[i].tag.pkg
            IN  p.by = c /\ p.n = n /\ p.cb /\ IsLastCall(p, <<pieces[i]>>)
    THEN "failed" ELSE answers[c][n]]]

(* The first k pieces can be an item of the connection: what one call brings *)
(* goes into one, unless it is full.                                         *)
IsItem(k) ==
  k < Len(out) /\ k < MaxLength /\ out[k].tag \notin Tags =>
    LET p == out[k].tag.pkg
    IN  p.form = "attached" => out[k + 1] # Piece(p, "tail")

(* The callbacks of the item that was being written hear of it; those of     *)
(* what is queued behind it do not.                                          *)
WriteError ==
  /\ WriteFails
  /\ \E k \in DOMAIN out : IsItem(k) /\ HearFailure(SubSeq(out, 1, k))
  /\ UNCHANGED <<callVars, last>>

Destroyed ==
  /\ ConnectionDestroyed
  /\ HearFailure(out)
  /\ UNCHANGED <<callVars, last>>

(* Who sends holds the entry. *)
ReleaseEntry ==
  /\ \A c \in Callers : todo[c] = <<>>
  /\ Release
  /\ UNCHANGED <<callVars, answers, last>>

StrandTask ==
  /\ StrandIsFree
  /\ (\E t \in Tags : BpSendRawBuf(t)) \/ SendFinished \/ EntryTerminates
  /\ UNCHANGED <<callVars, answers, last>>

SendNext ==
  \/ \E c \in Callers :
        \/ \E form \in Forms, cb \in BOOLEAN : BeginSend(c, form, cb)
        \/ LookAgain(c) \/ CallConnection(c)
  \/ SendHeartbeat
  \/ WritePiece \/ WriteBuffer \/ ConnectionEnds \/ WriteError \/ Destroyed
  \/ StrandTask \/ ReleaseEntry

SendSpec == SendInit /\ [][SendNext]_sendVars

(* As in BackPressure; a strand that has begun to send goes on, and a         *)
(* connection that nobody refers to any more is destroyed.                   *)
ConnectionProgress ==
  out # <<>> /\ (WritePiece \/ WriteBuffer \/ ConnectionEnds \/ WriteError)

FairSendSpec ==
  /\ SendSpec
  /\ WF_sendVars(LookAgain("strand") \/ CallConnection("strand"))
  /\ WF_sendVars(SendFinished /\ StrandTask)
  /\ WF_sendVars(ConnectionProgress)
  /\ WF_sendVars(Destroyed)

-----------------------------------------------------------------------------
Caller(piece) == IF piece.tag \in Tags THEN "strand" ELSE piece.tag.pkg.by

(* The peer reads what follows a head as what is attached to it.  Every      *)
(* package leaves in one piece, among sends of other threads, heartbeats and *)
(* back pressure controlled buffers; only one that takes two calls can be    *)
(* torn, and only by another thread of control than its own.                 *)
PackagesWhole ==
  LET seen == last \o out
  IN  \A i \in DOMAIN seen :
        seen[i].tag \notin Tags /\ seen[i].tag.part = "head" =>
          LET p == seen[i].tag.pkg
          IN  IF i < Len(seen)
              THEN \/ seen[i + 1] = Piece(p, "tail")
                   \/ p.form = "vec" /\ Caller(seen[i + 1]) # p.by
              ELSE todo[p.by] # <<>> \/ ~Working

(* A completion callback that hears success hears it of a whole package:     *)
(* no part of it still waits in the connection or is still to be scheduled.  *)
SuccessIsWritten ==
  \A c \in Callers, n \in 1..MaxMsgs :
    answers[c][n] = "success" =>
      /\ \A i \in DOMAIN out : out[i].tag \notin Tags =>
           ~(out[i].tag.pkg.by = c /\ out[i].tag.pkg.n = n)
      /\ begun[c] = n => todo[c] = <<>>

Answered(c, n) == answers[c][n] \in {"success", "failed"}

(* A callback that the connection took is called in the end, as long as the  *)
(* connection is open, and after its end once the entry is given up: then no *)
(* callback is left behind, whichever write it waited for.                   *)
CallbackEnds ==
  \A c \in Callers, n \in 1..MaxMsgs :
    /\ answers[c][n] = "waiting" ~> Answered(c, n) \/ ~connOpen
    /\ answers[c][n] = "waiting" /\ ~held ~> Answered(c, n)
=============================================================================
