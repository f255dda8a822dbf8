---------------------------- MODULE EntrySendProofs ----------------------------
(***************************************************************************)
(* Proofs about module EntrySend: packages leave whole, and success is     *)
(* said of whole packages.                                                 *)
(*                                                                         *)
(* PackagesWhole is not inductive: a head at the end of the queue must be  *)
(* known to be awaited by its tail, the calls that are still to be made to *)
(* be those of the package that was begun last, and the queue to hold no   *)
(* piece that these calls would bring again.  SendInv says so.             *)
(*                                                                         *)
(* The streams share the connection with all of this: the steps of module  *)
(* BackPressureProofs keep their invariant in a queue that holds pieces,   *)
(* too, and no other step disturbs it.                                     *)
(***************************************************************************)
EXTENDS EntrySend, BackPressureProofs

Elements == Pieces \cup Queued

IsPiece(e) == e.tag \notin Tags
IsHead(e) == IsPiece(e) /\ e.tag.part = "head"

(* e is a piece of the nth package of caller c. *)
Of(e, c, n) == IsPiece(e) /\ e.tag.pkg.by = c /\ e.tag.pkg.n = n
NoneOf(q, c, n) == \A i \in DOMAIN q : ~Of(q[i], c, n)

TailCall(p) == << <<Piece(p, "tail")>> >>

(* What is still to be called for the package that was begun last: all, and  *)
(* the connection has none of it, or the second of two calls.                *)
TodoOK(td, bg, q) ==
  \A c \in Callers :
    td[c] # <<>> =>
      \E p \in Packages :
        /\ p.by = c /\ p.n = bg[c]
        /\ \/ td[c] = Calls(p) /\ NoneOf(q, c, bg[c])
           \/ p.form = "vec" /\ td[c] = TailCall(p)

(* The strand does not see its entry end while it sends. *)
StrandOK == todo["strand"] # <<>> => active

(* Of two pieces of a package the first is the head, and a package whose     *)
(* last piece has come needs no further call.                                *)
PiecesOK(q, bg, td) ==
  /\ \A i, j \in DOMAIN q :
       i < j /\ IsPiece(q[i]) /\ Of(q[j], q[i].tag.pkg.by, q[i].tag.pkg.n) =>
         q[i].tag.part = "head" /\ q[j].tag.part = "tail"
  /\ \A i \in DOMAIN q :
       IsPiece(q[i]) =>
         /\ q[i].tag.pkg.n <= bg[q[i].tag.pkg.by]
         /\ q[i].tag.part # "head" /\ q[i].tag.pkg.n = bg[q[i].tag.pkg.by]
              => td[q[i].tag.pkg.by] = <<>>

(* What may come behind a head: its tail or, if that takes a call of its     *)
(* own, what others send.                                                    *)
Follows(a, b) ==
  IsHead(a) =>
    \/ b = Piece(a.tag.pkg, "tail")
    \/ a.tag.pkg.form = "vec" /\ Caller(b) # a.tag.pkg.by

(* l holds the head that was written last, or nothing, and q the rest.       *)
Chained(q, l) ==
  /\ \A i \in 1..Len(q) - 1 : Follows(q[i], q[i + 1])
  /\ l # <<>> /\ q # <<>> => Follows(l[1], q[1])

End(q, l) == IF q # <<>> THEN q[Len(q)] ELSE l[1]

(* Behind a head that is the end, its caller goes on with the tail, or the   *)
(* entry has ended, and its caller, a thread, sends no more.                 *)
Awaits(a, td, act, open) ==
  IsHead(a) =>
    \/ ~open
    \/ /\ a.tag.pkg.form = "vec"
       /\ \/ td[a.tag.pkg.by] = TailCall(a.tag.pkg)
          \/ ~act /\ td[a.tag.pkg.by] = <<>> /\ a.tag.pkg.by # "strand"

Whole(q, l, td, act, open) ==
  Chained(q, l) /\ (q # <<>> \/ l # <<>> => Awaits(End(q, l), td, act, open))

(* Success was said of what is gone from the connection and of what needs no *)
(* further call.                                                             *)
SuccessOK(an, q, bg, td) ==
  \A c \in Callers, n \in 1..MaxMsgs :
    an[c][n] = "success" =>
      /\ NoneOf(q, c, n)
      /\ n <= bg[c]
      /\ n = bg[c] => td[c] = <<>>

Told == {"none", "waiting", "success", "failed"}

SendTypeOK ==
  /\ ctx \in [Tags -> [inFlight : Int, dropped : Int, memo : Nat]]
  /\ taken \in [Tags -> Nat]
  /\ out \in Seq(Elements)
  /\ finished \in Seq(Tags)
  /\ active \in BOOLEAN /\ connOpen \in BOOLEAN
  /\ begun \in [Callers -> Nat]
  /\ DOMAIN todo = Callers
  /\ answers \in [Callers -> [1..MaxMsgs -> Told]]
  /\ last = <<>> \/ \E e \in Pieces : last = <<e>>

SendInv ==
  /\ SendTypeOK
  /\ TodoOK(todo, begun, out)
  /\ StrandOK
  /\ PiecesOK(out, begun, todo)
  /\ Whole(out, last, todo, active, connOpen)
  /\ SuccessOK(answers, out, begun, todo)

-----------------------------------------------------------------------------
(* Pieces and calls                                                          *)

(* An element is a piece or a buffer of a stream. *)
LEMMA ElementFacts ==
  ASSUME NEW e \in Elements
  PROVE  /\ IsPiece(e) <=> e \in Pieces
         /\ IsPiece(e) => /\ e.tag.pkg \in Packages
                          /\ e.tag.part \in {"plain", "head", "tail"}
                          /\ e = Piece(e.tag.pkg, e.tag.part)
                          /\ e.tag.pkg.by \in Callers /\ e.tag.pkg.n \in 1..MaxMsgs
         /\ Caller(e) = IF IsPiece(e) THEN e.tag.pkg.by ELSE "strand"
<1>1. e \in Pieces => e.tag \notin Tags
  BY TagsAssumption
<1>2. e \notin Pieces => e.tag \in Tags
  BY DEF Elements, Queued
<1>3. IsPiece(e) <=> e \in Pieces
  BY <1>1, <1>2 DEF IsPiece
<1>4. ASSUME e \in Pieces
      PROVE  /\ e.tag.pkg \in Packages
             /\ e.tag.part \in {"plain", "head", "tail"}
             /\ e = Piece(e.tag.pkg, e.tag.part)
             /\ e.tag.pkg.by \in Callers /\ e.tag.pkg.n \in 1..MaxMsgs
  <2>1. e.tag \in [pkg : Packages, part : {"plain", "head", "tail"}] /\ e.buf = 0
        /\ e = [tag |-> e.tag, buf |-> e.buf]
    BY <1>4 DEF Pieces
  <2>2. e.tag.pkg \in Packages /\ e.tag.part \in {"plain", "head", "tail"}
        /\ e.tag = [pkg |-> e.tag.pkg, part |-> e.tag.part]
    BY <2>1
  <2>3. e.tag.pkg.by \in Callers /\ e.tag.pkg.n \in 1..MaxMsgs
    BY <2>2 DEF Packages
  <2> QED BY <2>1, <2>2, <2>3 DEF Piece
<1> QED BY <1>3, <1>4 DEF Caller, IsPiece

(* What a piece of a package is. *)
LEMMA PieceFacts ==
  ASSUME NEW p \in Packages, NEW part \in {"plain", "head", "tail"}
  PROVE  /\ Piece(p, part) \in Pieces /\ Piece(p, part) \in Elements
         /\ IsPiece(Piece(p, part))
         /\ Piece(p, part).tag.pkg = p /\ Piece(p, part).tag.part = part
         /\ Caller(Piece(p, part)) = p.by
<1>1. Piece(p, part) \in Pieces
  BY DEF Piece, Pieces
<1>2. Piece(p, part) \in Elements
  BY <1>1 DEF Elements
<1>3. Piece(p, part).tag.pkg = p /\ Piece(p, part).tag.part = part
  BY DEF Piece
<1> QED BY <1>1, <1>2, <1>3, ElementFacts

(* The calls of a package, by its form. *)
LEMMA CallsFacts ==
  ASSUME NEW p \in Packages
  PROVE  /\ Calls(p) # <<>>
         /\ p.form = "plain" => /\ Head(Calls(p)) = <<Piece(p, "plain")>>
                                /\ Tail(Calls(p)) = <<>>
         /\ p.form = "attached" => /\ Head(Calls(p)) = <<Piece(p, "head"), Piece(p, "tail")>>
                                   /\ Tail(Calls(p)) = <<>>
         /\ p.form = "vec" => /\ Head(Calls(p)) = <<Piece(p, "head")>>
                              /\ Tail(Calls(p)) = TailCall(p)
         /\ p.form \in {"plain", "attached", "vec"}
<1>1. p.form \in {"plain", "attached", "vec"}
  BY DEF Packages, Forms
<1>2. CASE p.form = "plain"
  <2>1. Calls(p) = << <<Piece(p, "plain")>> >>
    BY <1>2 DEF Calls
  <2> QED BY <1>2, <2>1
<1>3. CASE p.form = "attached"
  <2>1. Calls(p) = << <<Piece(p, "head"), Piece(p, "tail")>> >>
    BY <1>3 DEF Calls
  <2> QED BY <1>3, <2>1
<1>4. CASE p.form = "vec"
  <2>1. Calls(p) = << <<Piece(p, "head")>>, <<Piece(p, "tail")>> >>
    BY <1>4 DEF Calls
  <2> QED BY <1>4, <2>1 DEF TailCall
<1> QED BY <1>1, <1>2, <1>3, <1>4

(* The second of two calls tells its package, and is no first one. *)
LEMMA TailCallFacts ==
  ASSUME NEW p \in Packages, NEW r \in Packages
  PROVE  /\ TailCall(p) # <<>> /\ Head(TailCall(p)) = <<Piece(p, "tail")>>
         /\ Tail(TailCall(p)) = <<>>
         /\ TailCall(p) = TailCall(r) => p = r
         /\ Calls(p) # TailCall(r)
<1>1. TailCall(p) # <<>> /\ Head(TailCall(p)) = <<Piece(p, "tail")>>
      /\ Tail(TailCall(p)) = <<>>
  BY DEF TailCall
<1>2. TailCall(p) = TailCall(r) => p = r
  <2>1. TailCall(p)[1][1] = Piece(p, "tail") /\ TailCall(r)[1][1] = Piece(r, "tail")
    BY DEF TailCall
  <2> QED BY <2>1, PieceFacts
<1>3. Calls(p) # TailCall(r)
  <2>1. Head(TailCall(r))[1].tag.part = "tail"
    BY PieceFacts DEF TailCall
  <2>2. Head(Calls(p))[1].tag.part # "tail"
    BY CallsFacts, PieceFacts
  <2> QED BY <2>1, <2>2
<1> QED BY <1>1, <1>2, <1>3

-----------------------------------------------------------------------------
(* The queue of the connection: an element comes, an element goes            *)

(* What Append does to the queue. *)
LEMMA Appending ==
  ASSUME NEW q \in Seq(Elements), NEW e \in Elements
  PROVE  /\ Append(q, e) \in Seq(Elements) /\ Append(q, e) # <<>>
         /\ Len(q) \in Nat /\ DOMAIN q = 1..Len(q) /\ Len(Append(q, e)) = Len(q) + 1
         /\ DOMAIN Append(q, e) = 1..Len(q) + 1
         /\ \A i \in 1..Len(q) : Append(q, e)[i] = q[i] /\ q[i] \in Elements
         /\ Append(q, e)[Len(q) + 1] = e
         /\ q # <<>> => Len(q) \in 1..Len(q)
BY AppendProperties, LenProperties, ElementOfSeq

(* What Head and Tail do. *)
LEMMA Taking ==
  ASSUME NEW q \in Seq(Elements), q # <<>>
  PROVE  /\ Head(q) \in Elements /\ Head(q) = q[1] /\ 1 \in DOMAIN q
         /\ Tail(q) \in Seq(Elements)
         /\ Len(q) \in Nat \ {0} /\ Len(Tail(q)) = Len(q) - 1
         /\ DOMAIN q = 1..Len(q) /\ DOMAIN Tail(q) = 1..Len(q) - 1
         /\ \A i \in 1..Len(q) - 1 : Tail(q)[i] = q[i + 1]
         /\ \A i \in 1..Len(q) : q[i] \in Elements
BY HeadTailProperties, LenProperties, ElementOfSeq

(* A piece of another package brings none of this one. *)
LEMMA NoneAppended ==
  ASSUME NEW q \in Seq(Elements), NEW e \in Elements, NEW c, NEW n, NoneOf(q, c, n), ~Of(e, c, n)
  PROVE  NoneOf(Append(q, e), c, n)
<1>1. \A i \in DOMAIN Append(q, e) : i \in 1..Len(q) \/ i = Len(q) + 1
  BY Appending
<1> QED BY <1>1, Appending DEF NoneOf

(* What is taken brings nothing. *)
LEMMA NoneTaken ==
  ASSUME NEW q \in Seq(Elements), q # <<>>, NEW c, NEW n, NoneOf(q, c, n)
  PROVE  NoneOf(Tail(q), c, n)
<1>1. \A i \in DOMAIN Tail(q) : i + 1 \in DOMAIN q /\ Tail(q)[i] = q[i + 1]
  BY Taking
<1> QED BY <1>1 DEF NoneOf

(* A piece comes behind the pieces of its package. *)
LEMMA PiecesAppended ==
  ASSUME NEW q \in Seq(Elements), NEW e \in Elements, NEW bg, NEW td, PiecesOK(q, bg, td),
         IsPiece(e) =>
           /\ e.tag.pkg.n <= bg[e.tag.pkg.by]
           /\ e.tag.part # "head" /\ e.tag.pkg.n = bg[e.tag.pkg.by] => td[e.tag.pkg.by] = <<>>
           /\ \/ NoneOf(q, e.tag.pkg.by, e.tag.pkg.n)
              \/ /\ e.tag.part = "tail"
                 /\ \A i \in DOMAIN q :
                      Of(q[i], e.tag.pkg.by, e.tag.pkg.n) => q[i].tag.part = "head"
  PROVE  PiecesOK(Append(q, e), bg, td)
<1> DEFINE r == Append(q, e)
           m == Len(q)
<1>1. /\ m \in Nat /\ DOMAIN q = 1..m /\ DOMAIN r = 1..m + 1
      /\ \A i \in 1..m : r[i] = q[i]
      /\ r[m + 1] = e
      /\ \A i \in 1..m + 1 : i \in 1..m \/ i = m + 1
  BY Appending
<1> HIDE DEF r, m
<1>2. ASSUME NEW i \in DOMAIN r, NEW j \in DOMAIN r, i < j, IsPiece(r[i]),
             Of(r[j], r[i].tag.pkg.by, r[i].tag.pkg.n)
      PROVE  r[i].tag.part = "head" /\ r[j].tag.part = "tail"
  <2>1. i \in 1..m
    BY <1>1, <1>2
  <2>2. CASE j \in 1..m
    BY <1>1, <1>2, <2>1, <2>2 DEF PiecesOK
  <2>3. CASE j = m + 1
    <3>1. IsPiece(e) /\ e.tag.pkg.by = q[i].tag.pkg.by /\ e.tag.pkg.n = q[i].tag.pkg.n
      BY <1>1, <1>2, <2>1, <2>3 DEF Of
    <3>2. Of(q[i], e.tag.pkg.by, e.tag.pkg.n)
      BY <1>1, <1>2, <2>1, <3>1 DEF Of
    <3> QED BY <1>1, <2>1, <2>3, <3>1, <3>2 DEF NoneOf
  <2> QED BY <1>1, <2>2, <2>3
<1>3. ASSUME NEW i \in DOMAIN r, IsPiece(r[i])
      PROVE  /\ r[i].tag.pkg.n <= bg[r[i].tag.pkg.by]
             /\ r[i].tag.part # "head" /\ r[i].tag.pkg.n = bg[r[i].tag.pkg.by]
                  => td[r[i].tag.pkg.by] = <<>>
  <2>1. CASE i \in 1..m
    BY <1>1, <1>3, <2>1 DEF PiecesOK
  <2>2. CASE i = m + 1
    BY <1>1, <1>3, <2>2
  <2> QED BY <1>1, <2>1, <2>2
<1>4. PiecesOK(r, bg, td)
  BY <1>2, <1>3 DEF PiecesOK
<1> QED BY <1>4 DEF r

(* What is taken had nothing of its package behind it, unless it is a head.  *)
LEMMA PiecesTaken ==
  ASSUME NEW q \in Seq(Elements), q # <<>>, NEW bg, NEW td, PiecesOK(q, bg, td)
  PROVE  /\ PiecesOK(Tail(q), bg, td)
         /\ IsPiece(Head(q)) /\ Head(q).tag.part # "head" =>
              NoneOf(Tail(q), Head(q).tag.pkg.by, Head(q).tag.pkg.n)
<1> DEFINE r == Tail(q)
           m == Len(q)
<1>1. /\ m \in Nat \ {0} /\ DOMAIN q = 1..m /\ DOMAIN r = 1..m - 1
      /\ Head(q) = q[1] /\ 1 \in DOMAIN q
      /\ \A i \in DOMAIN r : i + 1 \in DOMAIN q /\ 1 < i + 1 /\ r[i] = q[i + 1]
  BY Taking
<1> HIDE DEF r, m
<1>2. \A i, j \in DOMAIN r : i < j => i + 1 < j + 1
  BY <1>1
<1>3. PiecesOK(r, bg, td)
  <2>1. ASSUME NEW i \in DOMAIN r, NEW j \in DOMAIN r, i < j, IsPiece(r[i]),
               Of(r[j], r[i].tag.pkg.by, r[i].tag.pkg.n)
        PROVE  r[i].tag.part = "head" /\ r[j].tag.part = "tail"
    BY <1>1, <1>2, <2>1 DEF PiecesOK
  <2>2. ASSUME NEW i \in DOMAIN r, IsPiece(r[i])
        PROVE  /\ r[i].tag.pkg.n <= bg[r[i].tag.pkg.by]
               /\ r[i].tag.part # "head" /\ r[i].tag.pkg.n = bg[r[i].tag.pkg.by]
                    => td[r[i].tag.pkg.by] = <<>>
    BY <1>1, <2>2 DEF PiecesOK
  <2> QED BY <2>1, <2>2 DEF PiecesOK
<1>4. ASSUME IsPiece(Head(q)), Head(q).tag.part # "head"
      PROVE  NoneOf(r, Head(q).tag.pkg.by, Head(q).tag.pkg.n)
  BY <1>1, <1>4 DEF PiecesOK, NoneOf
<1> QED BY <1>3, <1>4 DEF r

(* The chain goes on with what may follow its end. *)
LEMMA ChainAppended ==
  ASSUME NEW q \in Seq(Elements), NEW e \in Elements, NEW l, Chained(q, l),
         q # <<>> \/ l # <<>> => Follows(End(q, l), e)
  PROVE  Chained(Append(q, e), l) /\ End(Append(q, e), l) = e
<1> DEFINE r == Append(q, e)
           m == Len(q)
<1>1. /\ m \in Nat /\ DOMAIN q = 1..m /\ Len(r) = m + 1 /\ r # <<>>
      /\ \A i \in 1..m : r[i] = q[i]
      /\ r[m + 1] = e
      /\ q # <<>> => m \in 1..m /\ 1 \in 1..m
      /\ q = <<>> => m = 0
  BY Appending
<1> HIDE DEF r, m
<1>2. ASSUME NEW i \in 1..Len(r) - 1
      PROVE  Follows(r[i], r[i + 1])
  <2>1. i \in 1..m /\ q # <<>>
    BY <1>1
  <2>2. CASE i = m
    BY <1>1, <2>1, <2>2 DEF End, m
  <2>3. CASE i # m
    <3>1. i \in 1..m - 1 /\ i + 1 \in 1..m
      BY <1>1, <2>1, <2>3
    <3> QED BY <1>1, <2>1, <3>1 DEF Chained, m
  <2> QED BY <2>2, <2>3
<1>3. ASSUME l # <<>>
      PROVE  Follows(l[1], r[1])
  <2>1. CASE q = <<>>
    BY <1>1, <1>3, <2>1 DEF End
  <2>2. CASE q # <<>>
    BY <1>1, <1>3, <2>2 DEF Chained
  <2> QED BY <2>1, <2>2
<1>4. End(r, l) = e
  BY <1>1 DEF End
<1>5. Chained(r, l)
  BY <1>2, <1>3 DEF Chained
<1> QED BY <1>4, <1>5 DEF r

(* A head that is taken is remembered, so that what follows it is known; the *)
(* end stays the end.                                                        *)
LEMMA ChainTaken ==
  ASSUME NEW q \in Seq(Elements), q # <<>>, NEW l, Chained(q, l),
         NEW k, k = IF IsHead(Head(q)) THEN <<Head(q)>> ELSE <<>>
  PROVE  /\ Chained(Tail(q), k)
         /\ Tail(q) # <<>> \/ k # <<>> => End(Tail(q), k) = End(q, l)
<1> DEFINE r == Tail(q)
           m == Len(q)
<1>1. /\ m \in Nat \ {0} /\ DOMAIN q = 1..m /\ Len(r) = m - 1
      /\ Head(q) = q[1] /\ 1 \in 1..m
      /\ \A i \in 1..m - 1 : r[i] = q[i + 1]
      /\ r # <<>> => m - 1 \in 1..m - 1 /\ 1 \in 1..m - 1 /\ (m - 1) + 1 = m /\ 1 + 1 = 2
      /\ r = <<>> => m = 1
  <2>1. /\ m \in Nat \ {0} /\ DOMAIN q = 1..m /\ Len(r) = m - 1 /\ r \in Seq(Elements)
        /\ Head(q) = q[1]
        /\ \A i \in 1..m - 1 : r[i] = q[i + 1]
    BY Taking
  <2> HIDE DEF r, m
  <2>2. r = <<>> <=> m - 1 = 0
    BY <2>1, EmptySeq, LenProperties
  <2> QED BY <2>1, <2>2
<1> HIDE DEF r, m
<1>2. ASSUME NEW i \in 1..Len(r) - 1
      PROVE  Follows(r[i], r[i + 1])
  <2>1. i \in 1..m - 1 /\ i + 1 \in 1..m - 1 /\ i + 1 \in 1..Len(q) - 1
    BY <1>1 DEF m
  <2> QED BY <1>1, <2>1 DEF Chained
<1>3. k # <<>> => k[1] = q[1]
  BY <1>1
<1>4. r # <<>> => Follows(q[1], r[1])
  <2> SUFFICES ASSUME r # <<>> PROVE Follows(q[1], r[1])
    OBVIOUS
  <2>1. 1 \in 1..Len(q) - 1 /\ r[1] = q[1 + 1]
    BY <1>1 DEF m
  <2> QED BY <2>1 DEF Chained
<1>5. r # <<>> \/ k # <<>> => End(r, k) = End(q, l)
  <2>1. CASE r # <<>>
    BY <1>1, <2>1 DEF End, m
  <2>2. CASE r = <<>>
    BY <1>1, <1>3, <2>2 DEF End, m
  <2> QED BY <2>1, <2>2
<1>6. Chained(r, k)
  BY <1>2, <1>3, <1>4 DEF Chained
<1> QED BY <1>5, <1>6 DEF r

-----------------------------------------------------------------------------
(* The steps                                                                 *)

(* Nothing is sent yet. *)
LEMMA SendInvInit == SendInit => SendInv
<1> SUFFICES ASSUME SendInit PROVE SendInv
  OBVIOUS
<1>1. /\ out = <<>> /\ last = <<>> /\ finished = <<>> /\ active = TRUE /\ connOpen = TRUE
      /\ ctx = [t \in Tags |-> [inFlight |-> 0, dropped |-> 0, memo |-> 0]]
      /\ taken = [t \in Tags |-> 0]
      /\ begun = [c \in Callers |-> 0] /\ todo = [c \in Callers |-> <<>>]
      /\ answers = [c \in Callers |-> [n \in 1..MaxMsgs |-> "none"]]
  BY DEF SendInit, Init
<1>2. out \in Seq(Elements) /\ finished \in Seq(Tags) /\ DOMAIN out = {} /\ Len(out) = 0
  BY <1>1
<1>3. SendTypeOK
  <2>1. answers \in [Callers -> [1..MaxMsgs -> Told]]
    BY <1>1 DEF Told
  <2> QED BY <1>1, <1>2, <2>1 DEF SendTypeOK
<1>4. TodoOK(todo, begun, out)
  BY <1>1 DEF TodoOK
<1>5. StrandOK
  BY <1>1 DEF StrandOK
<1>6. PiecesOK(out, begun, todo)
  BY <1>2 DEF PiecesOK
<1>7. Whole(out, last, todo, active, connOpen)
  <2>1. \A i \in 1..Len(out) - 1 : FALSE
    BY <1>2
  <2> QED BY <1>1, <2>1 DEF Whole, Chained
<1>8. SuccessOK(answers, out, begun, todo)
  BY <1>1 DEF SuccessOK
<1> QED BY <1>3, <1>4, <1>5, <1>6, <1>7, <1>8 DEF SendInv

(* The end of the queue, or the head written last, is an element. *)
LEMMA EndIsElement ==
  ASSUME SendTypeOK, out # <<>> \/ last # <<>>
  PROVE  End(out, last) \in Elements
<1>1. CASE out # <<>>
  <2>1. out \in Seq(Elements)
    BY DEF SendTypeOK
  <2>2. Len(out) \in Nat \ {0}
    BY <1>1, <2>1, EmptySeq
  <2>3. out[Len(out)] \in Elements
    BY <2>1, <2>2, ElementOfSeq
  <2> QED BY <1>1, <2>3 DEF End
<1>2. CASE out = <<>>
  BY <1>2 DEF SendTypeOK, End, Elements
<1> QED BY <1>1, <1>2

(* A package is begun, by a caller that has nothing to call.                 *)
LEMMA BeginSendStep ==
  ASSUME SendInv, NEW c \in Callers, NEW form \in Forms, NEW cb \in BOOLEAN,
         BeginSend(c, form, cb)
  PROVE  SendInv'
<1> DEFINE p == Package(c, begun[c] + 1, form, cb)
<1>1. /\ todo[c] = <<>> /\ begun[c] < MaxMsgs
      /\ begun' = [begun EXCEPT ![c] = @ + 1]
      /\ todo' = IF active THEN [todo EXCEPT ![c] = Calls(p)] ELSE todo
      /\ UNCHANGED <<ctx, taken, out, finished, active, connOpen, answers, last>>
  BY DEF BeginSend, vars, connVars
<1>2. /\ SendTypeOK /\ TodoOK(todo, begun, out) /\ PiecesOK(out, begun, todo)
      /\ Whole(out, last, todo, active, connOpen) /\ SuccessOK(answers, out, begun, todo)
      /\ StrandOK
  BY DEF SendInv
<1>3. begun \in [Callers -> Nat] /\ DOMAIN todo = Callers /\ begun[c] \in Nat /\ MaxMsgs \in Nat
  BY <1>2, SendAssumption DEF SendTypeOK
<1>4. p \in Packages /\ p.by = c /\ p.n = begun[c] + 1
  BY <1>1, <1>3 DEF Package, Packages
<1> HIDE DEF p
<1>5. /\ begun' \in [Callers -> Nat] /\ begun'[c] = begun[c] + 1
      /\ \A x \in Callers : x # c => begun'[x] = begun[x]
  BY <1>1, <1>3
<1>6. /\ DOMAIN todo' = Callers
      /\ \A x \in Callers : x # c => todo'[x] = todo[x]
      /\ active => todo'[c] = Calls(p)
      /\ ~active => todo'[c] = <<>>
  BY <1>1, <1>3
<1>7. SendTypeOK'
  BY <1>1, <1>2, <1>5, <1>6 DEF SendTypeOK
<1>8. \A i \in DOMAIN out : out[i] \in Elements
  <2>1. out \in Seq(Elements)
    BY <1>2 DEF SendTypeOK
  <2> QED BY <2>1, Appending
<1>9. \A i \in DOMAIN out : IsPiece(out[i]) =>
         /\ out[i].tag.pkg.by \in Callers /\ out[i].tag.pkg.n \in Nat
         /\ out[i].tag.pkg.n <= begun[out[i].tag.pkg.by]
  BY <1>2, <1>3, <1>8, ElementFacts DEF PiecesOK
<1>10. NoneOf(out, c, begun'[c])
  <2> SUFFICES ASSUME NEW i \in DOMAIN out, Of(out[i], c, begun'[c]) PROVE FALSE
    BY DEF NoneOf
  <2>1. begun[c] + 1 <= begun[c]
    BY <1>5, <1>9 DEF Of
  <2> QED BY <1>3, <2>1
<1>11. TodoOK(todo', begun', out')
  <2> SUFFICES ASSUME NEW x \in Callers, todo'[x] # <<>>
               PROVE  \E r \in Packages :
                        /\ r.by = x /\ r.n = begun'[x]
                        /\ \/ todo'[x] = Calls(r) /\ NoneOf(out', x, begun'[x])
                           \/ r.form = "vec" /\ todo'[x] = TailCall(r)
    BY DEF TodoOK
  <2>1. CASE x = c
    BY <1>1, <1>4, <1>5, <1>6, <1>10, <2>1
  <2>2. CASE x # c
    BY <1>1, <1>2, <1>5, <1>6, <2>2 DEF TodoOK
  <2> QED BY <2>1, <2>2
<1>12. StrandOK'
  BY <1>1, <1>2, <1>6 DEF StrandOK, Callers
<1>13. PiecesOK(out', begun', todo')
  <2>1. ASSUME NEW i \in DOMAIN out, IsPiece(out[i])
        PROVE  /\ out[i].tag.pkg.n <= begun'[out[i].tag.pkg.by]
               /\ out[i].tag.part # "head" /\ out[i].tag.pkg.n = begun'[out[i].tag.pkg.by]
                    => todo'[out[i].tag.pkg.by] = <<>>
    <3>1. CASE out[i].tag.pkg.by = c
      BY <1>3, <1>5, <1>9, <2>1, <3>1
    <3>2. CASE out[i].tag.pkg.by # c
      BY <1>2, <1>5, <1>6, <1>9, <2>1, <3>2 DEF PiecesOK
    <3> QED BY <3>1, <3>2
  <2> QED BY <1>1, <1>2, <2>1 DEF PiecesOK
<1>14. Whole(out', last', todo', active', connOpen')
  <2>1. ASSUME out # <<>> \/ last # <<>>
        PROVE  Awaits(End(out, last), todo', active, connOpen)
    <3> DEFINE a == End(out, last)
    <3>1. a \in Elements /\ Awaits(a, todo, active, connOpen)
      BY <1>2, <2>1, EndIsElement DEF Whole
    <3> HIDE DEF a
    <3>2. IsHead(a) => a.tag.pkg \in Packages /\ a.tag.pkg.by \in Callers
      BY <3>1, ElementFacts DEF IsHead
    <3>3. IsHead(a) => todo[a.tag.pkg.by] = todo'[a.tag.pkg.by]
                        \/ (a.tag.pkg.by = c /\ active)
      BY <1>1, <1>6, <3>2
    <3>4. IsHead(a) => TailCall(a.tag.pkg) # <<>>
      BY <3>2, TailCallFacts
    <3> QED BY <1>1, <3>1, <3>3, <3>4 DEF Awaits, a
  <2> QED BY <1>1, <1>2, <2>1 DEF Whole
<1>15. SuccessOK(answers', out', begun', todo')
  <2> SUFFICES ASSUME NEW x \in Callers, NEW n \in 1..MaxMsgs, answers[x][n] = "success"
               PROVE  NoneOf(out, x, n) /\ n <= begun'[x] /\ (n = begun'[x] => todo'[x] = <<>>)
    BY <1>1 DEF SuccessOK
  <2>1. NoneOf(out, x, n) /\ n <= begun[x] /\ (n = begun[x] => todo[x] = <<>>)
    BY <1>2 DEF SuccessOK
  <2>2. CASE x = c
    BY <1>3, <1>5, <2>1, <2>2
  <2>3. CASE x # c
    BY <1>5, <1>6, <2>1, <2>3
  <2> QED BY <2>2, <2>3
<1> QED BY <1>7, <1>11, <1>12, <1>13, <1>14, <1>15 DEF SendInv, StrandOK

(* The second look: what is left of a package is dropped if the entry has    *)
(* ended, which the strand does not see while it sends.                      *)
LEMMA LookAgainStep ==
  ASSUME SendInv, NEW c \in Callers, LookAgain(c)
  PROVE  SendInv'
<1>1. /\ todo[c] # <<>>
      /\ todo' = IF active THEN todo ELSE [todo EXCEPT ![c] = <<>>]
      /\ UNCHANGED <<ctx, taken, out, finished, active, connOpen, begun, answers, last>>
  BY DEF LookAgain, vars, connVars
<1>2. /\ SendTypeOK /\ TodoOK(todo, begun, out) /\ PiecesOK(out, begun, todo)
      /\ Whole(out, last, todo, active, connOpen) /\ SuccessOK(answers, out, begun, todo)
      /\ StrandOK
  BY DEF SendInv
<1>3. DOMAIN todo = Callers
  BY <1>2 DEF SendTypeOK
<1>4. /\ DOMAIN todo' = Callers
      /\ \A x \in Callers : x # c => todo'[x] = todo[x]
      /\ \A x \in Callers : todo'[x] = todo[x] \/ todo'[x] = <<>>
      /\ active => todo'[c] = todo[c]
      /\ ~active => todo'[c] = <<>> /\ c # "strand"
  BY <1>1, <1>2, <1>3 DEF StrandOK
<1>5. SendTypeOK'
  BY <1>1, <1>2, <1>4 DEF SendTypeOK
<1>6. TodoOK(todo', begun', out')
  BY <1>1, <1>2, <1>4 DEF TodoOK
<1>7. StrandOK'
  BY <1>1, <1>2, <1>4 DEF StrandOK, Callers
<1>8. \A i \in DOMAIN out : IsPiece(out[i]) => out[i].tag.pkg.by \in Callers
  <2>1. out \in Seq(Elements)
    BY <1>2 DEF SendTypeOK
  <2> QED BY <2>1, Appending, ElementFacts
<1>9. PiecesOK(out', begun', todo')
  BY <1>1, <1>2, <1>4, <1>8 DEF PiecesOK
<1>10. Whole(out', last', todo', active', connOpen')
  <2>1. ASSUME out # <<>> \/ last # <<>>
        PROVE  Awaits(End(out, last), todo', active, connOpen)
    <3> DEFINE a == End(out, last)
    <3>1. a \in Elements /\ Awaits(a, todo, active, connOpen)
      BY <1>2, <2>1, EndIsElement DEF Whole
    <3> HIDE DEF a
    <3>2. IsHead(a) => a.tag.pkg \in Packages /\ a.tag.pkg.by \in Callers
      BY <3>1, ElementFacts DEF IsHead
    <3>3. CASE a.tag.pkg.by = c
      BY <1>4, <3>1, <3>2, <3>3 DEF Awaits, a
    <3>4. CASE a.tag.pkg.by # c
      BY <1>4, <3>1, <3>2, <3>4 DEF Awaits, a
    <3> QED BY <3>3, <3>4
  <2> QED BY <1>1, <1>2, <2>1 DEF Whole
<1>11. SuccessOK(answers', out', begun', todo')
  BY <1>1, <1>2, <1>4 DEF SuccessOK
<1> QED BY <1>5, <1>6, <1>7, <1>9, <1>10, <1>11 DEF SendInv

(* What a caller sends follows the end, unless it owes a tail and sends      *)
(* something else.                                                           *)
LEMMA FollowsEnd ==
  ASSUME SendInv, connOpen, NEW e \in Elements, out # <<>> \/ last # <<>>,
         Caller(e) # "strand" => todo[Caller(e)] # <<>>,
         \A r \in Packages : todo[Caller(e)] = TailCall(r) => e = Piece(r, "tail")
  PROVE  Follows(End(out, last), e)
<1> DEFINE a == End(out, last)
<1>1. a \in Elements /\ Awaits(a, todo, active, connOpen)
  BY EndIsElement DEF SendInv, Whole
<1> HIDE DEF a
<1>2. IsHead(a) => a.tag.pkg \in Packages
  BY <1>1, ElementFacts DEF IsHead
<1>3. Follows(a, e)
  <2> SUFFICES ASSUME IsHead(a)
               PROVE  e = Piece(a.tag.pkg, "tail")
                      \/ (a.tag.pkg.form = "vec" /\ Caller(e) # a.tag.pkg.by)
    BY DEF Follows
  <2>1. /\ a.tag.pkg.form = "vec"
        /\ \/ todo[a.tag.pkg.by] = TailCall(a.tag.pkg)
           \/ todo[a.tag.pkg.by] = <<>> /\ a.tag.pkg.by # "strand"
    BY <1>1 DEF Awaits
  <2> QED BY <1>2, <2>1
<1> QED BY <1>3 DEF a

(* What comes in order leaves the chain whole. *)
LEMMA WholeAppended ==
  ASSUME SendInv, connOpen, NEW e \in Elements,
         Caller(e) # "strand" => todo[Caller(e)] # <<>>,
         \A r \in Packages : todo[Caller(e)] = TailCall(r) => e = Piece(r, "tail")
  PROVE  Chained(Append(out, e), last) /\ End(Append(out, e), last) = e
<1>1. out \in Seq(Elements) /\ Chained(out, last)
  BY DEF SendInv, SendTypeOK, Whole
<1>2. out # <<>> \/ last # <<>> => Follows(End(out, last), e)
  BY FollowsEnd
<1> QED BY <1>1, <1>2, ChainAppended

(* What the connection takes of one call.                                    *)
LEMMA OneAccepted ==
  ASSUME SendInv, connOpen, NEW p \in Packages, NEW part \in {"plain", "head", "tail"}, NEW td,
         p.n = begun[p.by], todo[p.by] # <<>>,
         \A x \in Callers : x # p.by => td[x] = todo[x],
         \/ part # "tail" /\ todo[p.by] = Calls(p) /\ NoneOf(out, p.by, p.n)
         \/ part = "tail" /\ todo[p.by] = TailCall(p),
         part = "head" => p.form = "vec" /\ td[p.by] = TailCall(p),
         part # "head" => td[p.by] = <<>>
  PROVE  LET q == Append(out, Piece(p, part))
         IN  /\ q \in Seq(Elements)
             /\ PiecesOK(q, begun, td)
             /\ Whole(q, last, td, active, connOpen)
             /\ \A x, n : NoneOf(out, x, n) /\ ~(x = p.by /\ n = p.n) => NoneOf(q, x, n)
<1> DEFINE e == Piece(p, part)
           q == Append(out, e)
<1>1. /\ SendTypeOK /\ PiecesOK(out, begun, todo) /\ out \in Seq(Elements)
      /\ begun \in [Callers -> Nat]
  BY DEF SendInv, SendTypeOK
<1>2. /\ e \in Elements /\ IsPiece(e) /\ e.tag.pkg = p /\ e.tag.part = part
      /\ Caller(e) = p.by /\ p.by \in Callers
  BY PieceFacts, ElementFacts
<1>3. e = Piece(p, part)
  OBVIOUS
<1> HIDE DEF e
<1>4. PiecesOK(out, begun, td)
  <2>1. \A i \in DOMAIN out : IsPiece(out[i]) => out[i].tag.pkg.by \in Callers
    BY <1>1, Appending, ElementFacts
  <2>2. \A x \in Callers : todo[x] = <<>> => td[x] = <<>>
    OBVIOUS
  <2> QED BY <1>1, <2>1, <2>2 DEF PiecesOK
<1>5. PiecesOK(q, begun, td)
  <2>1. begun[p.by] \in Nat
    BY <1>1, <1>2
  <2>2. \/ NoneOf(out, p.by, p.n)
        \/ /\ part = "tail"
           /\ \A i \in DOMAIN out : Of(out[i], p.by, p.n) => out[i].tag.part = "head"
    BY <1>1 DEF PiecesOK, Of
  <2>3. /\ e.tag.pkg.n <= begun[e.tag.pkg.by]
        /\ e.tag.part # "head" /\ e.tag.pkg.n = begun[e.tag.pkg.by] => td[e.tag.pkg.by] = <<>>
        /\ \/ NoneOf(out, e.tag.pkg.by, e.tag.pkg.n)
           \/ /\ e.tag.part = "tail"
              /\ \A i \in DOMAIN out :
                   Of(out[i], e.tag.pkg.by, e.tag.pkg.n) => out[i].tag.part = "head"
    BY <1>2, <2>1, <2>2
  <2> QED BY <1>1, <1>2, <1>4, <2>3, PiecesAppended
<1>6. Whole(q, last, td, active, connOpen)
  <2>1. \A r \in Packages : todo[Caller(e)] = TailCall(r) => e = Piece(r, "tail")
    BY <1>2, <1>3, TailCallFacts
  <2>2. Chained(q, last) /\ End(q, last) = e
    BY <1>2, <2>1, WholeAppended
  <2>3. Awaits(e, td, active, connOpen)
    BY <1>2 DEF Awaits, IsHead
  <2> QED BY <2>2, <2>3 DEF Whole
<1>7. \A x, n : NoneOf(out, x, n) /\ ~(x = p.by /\ n = p.n) => NoneOf(q, x, n)
  BY <1>1, <1>2, NoneAppended DEF Of
<1>8. q \in Seq(Elements)
  BY <1>1, <1>2, Appending
<1> QED BY <1>5, <1>6, <1>7, <1>8 DEF e

(* A call of two pieces: head and tail arrive together.                      *)
LEMMA TwoAccepted ==
  ASSUME SendInv, connOpen, NEW p \in Packages, NEW td,
         p.n = begun[p.by], todo[p.by] = Calls(p), NoneOf(out, p.by, p.n),
         \A x \in Callers : x # p.by => td[x] = todo[x],
         td[p.by] = <<>>
  PROVE  LET q == Append(Append(out, Piece(p, "head")), Piece(p, "tail"))
         IN  /\ q \in Seq(Elements)
             /\ PiecesOK(q, begun, td)
             /\ Whole(q, last, td, active, connOpen)
             /\ \A x, n : NoneOf(out, x, n) /\ ~(x = p.by /\ n = p.n) => NoneOf(q, x, n)
<1> DEFINE a == Piece(p, "head")
           b == Piece(p, "tail")
           q1 == Append(out, a)
           q == Append(q1, b)
<1>1. /\ SendTypeOK /\ PiecesOK(out, begun, todo) /\ out \in Seq(Elements)
      /\ begun \in [Callers -> Nat]
  BY DEF SendInv, SendTypeOK
<1>2. /\ a \in Elements /\ IsPiece(a) /\ a.tag.pkg = p /\ a.tag.part = "head"
      /\ b \in Elements /\ IsPiece(b) /\ b.tag.pkg = p /\ b.tag.part = "tail"
      /\ Caller(a) = p.by /\ p.by \in Callers /\ b = Piece(a.tag.pkg, "tail")
  BY PieceFacts, ElementFacts
<1> HIDE DEF a, b
<1>3. q1 \in Seq(Elements) /\ q1 # <<>>
  BY <1>1, <1>2, Appending
<1>4. PiecesOK(out, begun, td)
  <2>1. \A i \in DOMAIN out : IsPiece(out[i]) => out[i].tag.pkg.by \in Callers
    BY <1>1, Appending, ElementFacts
  <2>2. \A x \in Callers : todo[x] = <<>> => td[x] = <<>>
    OBVIOUS
  <2> QED BY <1>1, <2>1, <2>2 DEF PiecesOK
<1>5. begun[p.by] \in Nat
  BY <1>1, <1>2
<1>6. PiecesOK(q1, begun, td)
  BY <1>1, <1>2, <1>4, <1>5, PiecesAppended
<1>7. \A i \in DOMAIN q1 : Of(q1[i], p.by, p.n) => q1[i].tag.part = "head"
  <2> SUFFICES ASSUME NEW i \in DOMAIN q1, Of(q1[i], p.by, p.n) PROVE q1[i].tag.part = "head"
    OBVIOUS
  <2>1. i \in 1..Len(out) \/ i = Len(out) + 1
    BY <1>1, <1>2, Appending
  <2>2. CASE i \in 1..Len(out)
    BY <1>1, <1>2, <2>2, Appending DEF NoneOf
  <2>3. CASE i = Len(out) + 1
    BY <1>1, <1>2, <2>3, Appending
  <2> QED BY <2>1, <2>2, <2>3
<1> HIDE DEF q1
<1>8. PiecesOK(q, begun, td)
  BY <1>2, <1>3, <1>5, <1>6, <1>7, PiecesAppended
<1>9. Whole(q, last, td, active, connOpen)
  <2>1. \A r \in Packages : todo[Caller(a)] = TailCall(r) => a = Piece(r, "tail")
    BY <1>2, TailCallFacts
  <2>2. Calls(p) # <<>>
    BY CallsFacts
  <2>3. Chained(q1, last) /\ End(q1, last) = a
    BY <1>2, <2>1, <2>2, WholeAppended DEF q1
  <2>4. Follows(a, b)
    BY <1>2 DEF Follows
  <2>5. Chained(q, last) /\ End(q, last) = b
    BY <1>2, <1>3, <2>3, <2>4, ChainAppended
  <2>6. Awaits(b, td, active, connOpen)
    BY <1>2 DEF Awaits, IsHead
  <2> QED BY <2>5, <2>6 DEF Whole
<1>10. \A x, n : NoneOf(out, x, n) /\ ~(x = p.by /\ n = p.n) => NoneOf(q, x, n)
  <2>1. \A x, n : NoneOf(out, x, n) /\ ~(x = p.by /\ n = p.n) => NoneOf(q1, x, n)
    BY <1>1, <1>2, NoneAppended DEF Of, q1
  <2> QED BY <1>2, <1>3, <2>1, NoneAppended DEF Of
<1>11. q \in Seq(Elements)
  BY <1>2, <1>3, Appending
<1> QED BY <1>8, <1>9, <1>10, <1>11 DEF a, b, q1

(* A call brings one piece or two. *)
LEMMA OneOrTwo ==
  ASSUME NEW q \in Seq(Elements), NEW a \in Elements, NEW b \in Elements
  PROVE  q \o <<a>> = Append(q, a) /\ q \o <<a, b>> = Append(Append(q, a), b)
<1>1. q \o <<a>> = Append(q, a)
  BY AppendIsConcat
<1>2. Append(Append(q, a), b) = (q \o <<a>>) \o <<b>>
  <2>1. Append(q, a) \in Seq(Elements)
    BY Appending
  <2> QED BY <1>1, <2>1, AppendIsConcat
<1>3. <<a>> \in Seq(Elements) /\ <<b>> \in Seq(Elements) /\ <<a, b>> = <<a>> \o <<b>>
  <2>1. <<a>> \in Seq(Elements) /\ <<b>> \in Seq(Elements)
    OBVIOUS
  <2>2. Append(<<a>>, b) = <<a>> \o <<b>>
    BY <2>1, AppendIsConcat
  <2>3. Append(<<a>>, b) = <<a, b>>
    <3>1. Append(<<a>>, b) \in Seq(Elements) /\ <<a, b>> \in Seq(Elements)
      BY <2>1, AppendProperties
    <3>2. Len(Append(<<a>>, b)) = 2 /\ Len(<<a, b>>) = 2
      BY <2>1, AppendProperties
    <3>3. \A i \in 1..2 : Append(<<a>>, b)[i] = <<a, b>>[i]
      <4>1. Append(<<a>>, b)[1] = <<a>>[1] /\ Append(<<a>>, b)[2] = b
        BY <2>1, AppendProperties
      <4>2. \A i \in 1..2 : i = 1 \/ i = 2
        OBVIOUS
      <4> QED BY <4>1, <4>2
    <3> QED BY <3>1, <3>2, <3>3, SeqEqual
  <2> QED BY <2>1, <2>2, <2>3
<1>4. (q \o <<a>>) \o <<b>> = q \o (<<a>> \o <<b>>)
  BY <1>3, ConcatAssociative
<1> QED BY <1>1, <1>2, <1>3, <1>4

(* A callback hears; only what is said to be success counts.                 *)
LEMMA AnswerFacts ==
  ASSUME SendTypeOK, NEW p \in Packages, NEW what \in Told, Answer(p, what)
  PROVE  /\ answers' \in [Callers -> [1..MaxMsgs -> Told]]
         /\ \A x \in Callers, n \in 1..MaxMsgs :
              answers'[x][n] = answers[x][n]
              \/ (x = p.by /\ n = p.n /\ answers'[x][n] = what)
<1>1. p.by \in Callers /\ p.n \in 1..MaxMsgs
  BY DEF Packages
<1>2. answers \in [Callers -> [1..MaxMsgs -> Told]]
  BY DEF SendTypeOK
<1>3. answers' = [answers EXCEPT ![p.by][p.n] = IF p.cb THEN what ELSE @]
  BY DEF Answer
<1> DEFINE v == IF p.cb THEN what ELSE answers[p.by][p.n]
<1>4. v \in Told /\ (v = answers[p.by][p.n] \/ v = what)
  BY <1>1, <1>2
<1>5. answers' = [answers EXCEPT ![p.by] = [answers[p.by] EXCEPT ![p.n] = v]]
  BY <1>1, <1>2, <1>3
<1> HIDE DEF v
<1>6. [answers[p.by] EXCEPT ![p.n] = v] \in [1..MaxMsgs -> Told]
  BY <1>1, <1>2, <1>4
<1> QED BY <1>1, <1>2, <1>4, <1>5, <1>6

(* The connection takes a call, or rejects it. *)
LEMMA CallConnectionStep ==
  ASSUME SendInv, NEW c \in Callers, CallConnection(c)
  PROVE  SendInv'
<1> DEFINE pieces == Head(todo[c])
<1>1. /\ todo[c] # <<>>
      /\ out' = IF connOpen THEN out \o pieces ELSE out
      /\ IF IsLastCall(pieces[1].tag.pkg, pieces)
         THEN Answer(pieces[1].tag.pkg, IF connOpen THEN "waiting" ELSE "failed")
         ELSE UNCHANGED answers
      /\ todo' = [todo EXCEPT ![c] = Tail(@)]
      /\ UNCHANGED <<ctx, taken, finished, active, connOpen, begun, last>>
  BY DEF CallConnection, Schedule, connVars
<1>2. /\ SendTypeOK /\ TodoOK(todo, begun, out) /\ PiecesOK(out, begun, todo)
      /\ Whole(out, last, todo, active, connOpen) /\ SuccessOK(answers, out, begun, todo)
      /\ StrandOK /\ out \in Seq(Elements)
      /\ begun \in [Callers -> Nat] /\ DOMAIN todo = Callers
  BY DEF SendInv, SendTypeOK
<1>3. PICK p \in Packages :
        /\ p.by = c /\ p.n = begun[c]
        /\ \/ todo[c] = Calls(p) /\ NoneOf(out, c, begun[c])
           \/ p.form = "vec" /\ todo[c] = TailCall(p)
  BY <1>1, <1>2 DEF TodoOK
<1>4. /\ DOMAIN todo' = Callers
      /\ \A x \in Callers : x # c => todo'[x] = todo[x]
      /\ todo'[c] = Tail(todo[c])
  BY <1>1, <1>2
<1> DEFINE a == Piece(p, "head")
           b == Piece(p, "tail")
           e == Piece(p, "plain")
<1>5. /\ a \in Elements /\ b \in Elements /\ e \in Elements
      /\ a.tag.pkg = p /\ b.tag.pkg = p /\ e.tag.pkg = p
  BY PieceFacts
<1>6. \/ todo[c] = Calls(p) /\ pieces = <<e>> /\ todo'[c] = <<>>
      \/ todo[c] = Calls(p) /\ pieces = <<a, b>> /\ todo'[c] = <<>>
      \/ p.form = "vec" /\ todo[c] = Calls(p) /\ pieces = <<a>> /\ todo'[c] = TailCall(p)
      \/ todo[c] = TailCall(p) /\ pieces = <<b>> /\ todo'[c] = <<>>
  <2>1. CASE todo[c] = Calls(p)
    BY <1>4, <2>1, CallsFacts
  <2>2. CASE todo[c] = TailCall(p)
    BY <1>4, <2>2, TailCallFacts
  <2> QED BY <1>3, <2>1, <2>2
<1> HIDE DEF pieces
<1>7. pieces[1].tag.pkg = p
  BY <1>5, <1>6
<1> HIDE DEF a, b, e
<1>8. connOpen => /\ out' \in Seq(Elements)
                  /\ PiecesOK(out', begun, todo')
                  /\ Whole(out', last, todo', active, connOpen)
                  /\ \A x, n : NoneOf(out, x, n) /\ ~(x = c /\ n = begun[c]) => NoneOf(out', x, n)
  <2> SUFFICES ASSUME connOpen
               PROVE  /\ out' \in Seq(Elements)
                      /\ PiecesOK(out', begun, todo')
                      /\ Whole(out', last, todo', active, connOpen)
                      /\ \A x, n : NoneOf(out, x, n) /\ ~(x = c /\ n = begun[c])
                                     => NoneOf(out', x, n)
    OBVIOUS
  <2>0. SendInv /\ connOpen
    OBVIOUS
  <2>1. NoneOf(out, c, begun[c]) \/ todo[c] = TailCall(p)
    BY <1>3
  <2>2. CASE todo[c] = Calls(p) /\ pieces = <<e>> /\ todo'[c] = <<>>
    <3>1. out' = Append(out, Piece(p, "plain"))
      BY <1>1, <1>2, <1>5, <2>2, OneOrTwo DEF e
    <3>2. NoneOf(out, c, begun[c])
      BY <2>1, <2>2, TailCallFacts
    <3>3. /\ p.n = begun[p.by] /\ todo[p.by] # <<>>
          /\ \A x \in Callers : x # p.by => todo'[x] = todo[x]
          /\ todo[p.by] = Calls(p) /\ NoneOf(out, p.by, p.n) /\ todo'[p.by] = <<>>
      BY <1>1, <1>3, <1>4, <2>2, <3>2
    <3>4. /\ out' \in Seq(Elements)
          /\ PiecesOK(out', begun, todo')
          /\ Whole(out', last, todo', active, connOpen)
          /\ \A x, n : NoneOf(out, x, n) /\ ~(x = p.by /\ n = p.n) => NoneOf(out', x, n)
      BY <2>0, <3>1, <3>3, OneAccepted
    <3> QED BY <1>3, <3>4
  <2>3. CASE todo[c] = Calls(p) /\ pieces = <<a, b>> /\ todo'[c] = <<>>
    <3>1. out' = Append(Append(out, Piece(p, "head")), Piece(p, "tail"))
      BY <1>1, <1>2, <1>5, <2>3, OneOrTwo DEF a, b
    <3>2. NoneOf(out, c, begun[c])
      BY <2>1, <2>3, TailCallFacts
    <3>3. /\ p.n = begun[p.by] /\ todo[p.by] # <<>>
          /\ \A x \in Callers : x # p.by => todo'[x] = todo[x]
          /\ todo[p.by] = Calls(p) /\ NoneOf(out, p.by, p.n) /\ todo'[p.by] = <<>>
      BY <1>1, <1>3, <1>4, <2>3, <3>2
    <3>4. /\ out' \in Seq(Elements)
          /\ PiecesOK(out', begun, todo')
          /\ Whole(out', last, todo', active, connOpen)
          /\ \A x, n : NoneOf(out, x, n) /\ ~(x = p.by /\ n = p.n) => NoneOf(out', x, n)
      BY <2>0, <3>1, <3>3, TwoAccepted
    <3> QED BY <1>3, <3>4
  <2>4. CASE p.form = "vec" /\ todo[c] = Calls(p) /\ pieces = <<a>> /\ todo'[c] = TailCall(p)
    <3>1. out' = Append(out, Piece(p, "head"))
      BY <1>1, <1>2, <1>5, <2>4, OneOrTwo DEF a
    <3>2. NoneOf(out, c, begun[c])
      BY <2>1, <2>4, TailCallFacts
    <3>3. /\ p.n = begun[p.by] /\ todo[p.by] # <<>>
          /\ \A x \in Callers : x # p.by => todo'[x] = todo[x]
          /\ todo[p.by] = Calls(p) /\ NoneOf(out, p.by, p.n)
          /\ p.form = "vec" /\ todo'[p.by] = TailCall(p)
      BY <1>1, <1>3, <1>4, <2>4, <3>2
    <3>4. /\ out' \in Seq(Elements)
          /\ PiecesOK(out', begun, todo')
          /\ Whole(out', last, todo', active, connOpen)
          /\ \A x, n : NoneOf(out, x, n) /\ ~(x = p.by /\ n = p.n) => NoneOf(out', x, n)
      BY <2>0, <3>1, <3>3, OneAccepted
    <3> QED BY <1>3, <3>4
  <2>5. CASE todo[c] = TailCall(p) /\ pieces = <<b>> /\ todo'[c] = <<>>
    <3>1. out' = Append(out, Piece(p, "tail"))
      BY <1>1, <1>2, <1>5, <2>5, OneOrTwo DEF b
    <3>3. /\ p.n = begun[p.by] /\ todo[p.by] # <<>>
          /\ \A x \in Callers : x # p.by => todo'[x] = todo[x]
          /\ todo[p.by] = TailCall(p) /\ todo'[p.by] = <<>>
      BY <1>1, <1>3, <1>4, <2>5
    <3>4. /\ out' \in Seq(Elements)
          /\ PiecesOK(out', begun, todo')
          /\ Whole(out', last, todo', active, connOpen)
          /\ \A x, n : NoneOf(out, x, n) /\ ~(x = p.by /\ n = p.n) => NoneOf(out', x, n)
      BY <2>0, <3>1, <3>3, OneAccepted
    <3> QED BY <1>3, <3>4
  <2> QED BY <1>6, <2>2, <2>3, <2>4, <2>5
<1>9. ~connOpen => /\ out' = out
                   /\ PiecesOK(out', begun, todo')
                   /\ Whole(out', last, todo', active, connOpen)
  <2> SUFFICES ASSUME ~connOpen
               PROVE  /\ out' = out
                      /\ PiecesOK(out', begun, todo')
                      /\ Whole(out', last, todo', active, connOpen)
    OBVIOUS
  <2>1. out' = out
    BY <1>1
  <2>2. \A i \in DOMAIN out : IsPiece(out[i]) => out[i].tag.pkg.by \in Callers
    BY <1>2, Appending, ElementFacts
  <2>3. PiecesOK(out, begun, todo')
    BY <1>1, <1>2, <1>4, <2>2 DEF PiecesOK
  <2>4. Whole(out, last, todo', active, connOpen)
    BY <1>2 DEF Whole, Awaits
  <2> QED BY <2>1, <2>3, <2>4
<1>10. /\ out' \in Seq(Elements)
       /\ PiecesOK(out', begun', todo')
       /\ Whole(out', last', todo', active', connOpen')
       /\ \A x, n : NoneOf(out, x, n) /\ ~(x = c /\ n = begun[c]) => NoneOf(out', x, n)
  BY <1>1, <1>2, <1>8, <1>9
<1>11. /\ answers' \in [Callers -> [1..MaxMsgs -> Told]]
       /\ \A x \in Callers, n \in 1..MaxMsgs :
            answers'[x][n] = "success" => answers[x][n] = "success"
  <2>1. CASE UNCHANGED answers
    BY <1>2, <2>1 DEF SendTypeOK
  <2>2. CASE Answer(p, IF connOpen THEN "waiting" ELSE "failed")
    <3>1. CASE connOpen
      BY <1>2, <2>2, <3>1, AnswerFacts DEF Told
    <3>2. CASE ~connOpen
      BY <1>2, <2>2, <3>2, AnswerFacts DEF Told
    <3> QED BY <3>1, <3>2
  <2> QED BY <1>1, <1>7, <2>1, <2>2
<1>12. SendTypeOK'
  BY <1>1, <1>2, <1>4, <1>10, <1>11 DEF SendTypeOK
<1>13. TodoOK(todo', begun', out')
  <2> SUFFICES ASSUME NEW x \in Callers, todo'[x] # <<>>
               PROVE  \E r \in Packages :
                        /\ r.by = x /\ r.n = begun[x]
                        /\ \/ todo'[x] = Calls(r) /\ NoneOf(out', x, begun[x])
                           \/ r.form = "vec" /\ todo'[x] = TailCall(r)
    BY <1>1 DEF TodoOK
  <2>1. CASE x = c
    BY <1>3, <1>6, <2>1
  <2>2. CASE x # c
    BY <1>2, <1>4, <1>10, <2>2 DEF TodoOK
  <2> QED BY <2>1, <2>2
<1>14. StrandOK'
  BY <1>1, <1>2, <1>4 DEF StrandOK, Callers
<1>15. SuccessOK(answers', out', begun', todo')
  <2> SUFFICES ASSUME NEW x \in Callers, NEW n \in 1..MaxMsgs, answers[x][n] = "success"
               PROVE  NoneOf(out', x, n) /\ n <= begun[x] /\ (n = begun[x] => todo'[x] = <<>>)
    BY <1>1, <1>11 DEF SuccessOK
  <2>1. NoneOf(out, x, n) /\ n <= begun[x] /\ (n = begun[x] => todo[x] = <<>>)
    BY <1>2 DEF SuccessOK
  <2>2. CASE x = c
    BY <1>1, <1>10, <2>1, <2>2
  <2>3. CASE x # c
    BY <1>4, <1>10, <2>1, <2>3
  <2> QED BY <2>2, <2>3
<1> QED BY <1>12, <1>13, <1>14, <1>10, <1>15 DEF SendInv

(* What the strand hands over by itself follows the end: it has no package   *)
(* on its way.                                                               *)
LEMMA BufferAppended ==
  ASSUME SendInv, connOpen, StrandIsFree, NEW t \in Tags, NEW b \in Nat
  PROVE  LET q == Append(out, [tag |-> t, buf |-> b])
         IN  /\ q \in Seq(Elements)
             /\ PiecesOK(q, begun, todo)
             /\ Whole(q, last, todo, active, connOpen)
             /\ \A x, n : NoneOf(out, x, n) => NoneOf(q, x, n)
<1> DEFINE e == [tag |-> t, buf |-> b]
           q == Append(out, e)
<1>1. PiecesOK(out, begun, todo) /\ out \in Seq(Elements) /\ todo["strand"] = <<>>
  BY DEF SendInv, SendTypeOK, StrandIsFree
<1>2. e \in Elements /\ ~IsPiece(e) /\ Caller(e) = "strand"
  BY DEF Elements, Queued, IsPiece, Caller
<1> HIDE DEF e
<1>3. PiecesOK(q, begun, todo)
  BY <1>1, <1>2, PiecesAppended
<1>4. Whole(q, last, todo, active, connOpen)
  <2>1. \A r \in Packages : todo[Caller(e)] # TailCall(r)
    BY <1>1, <1>2, TailCallFacts
  <2>2. Chained(q, last) /\ End(q, last) = e
    BY <1>2, <2>1, WholeAppended
  <2> QED BY <1>2, <2>2 DEF Whole, Awaits, IsHead
<1>5. \A x, n : NoneOf(out, x, n) => NoneOf(q, x, n)
  BY <1>1, <1>2, NoneAppended DEF Of
<1>6. q \in Seq(Elements)
  BY <1>1, <1>2, Appending
<1> QED BY <1>3, <1>4, <1>5, <1>6 DEF e

(* The streams: buffers and their completions.                               *)
Contexts == [inFlight : Int, dropped : Int, memo : Nat]

(* A step of a stream leaves the packages alone.                             *)
LEMMA StreamStep ==
  ASSUME SendInv, StrandIsFree,
         UNCHANGED <<active, connOpen, begun, todo, answers, last>>,
         ctx' \in [Tags -> Contexts],
         taken' \in [Tags -> Nat], finished' \in Seq(Tags),
         \/ out' = out
         \/ connOpen /\ \E t \in Tags, b \in Nat : out' = Append(out, [tag |-> t, buf |-> b])
  PROVE  SendInv'
<1>1. /\ SendTypeOK /\ TodoOK(todo, begun, out) /\ PiecesOK(out, begun, todo)
      /\ Whole(out, last, todo, active, connOpen) /\ SuccessOK(answers, out, begun, todo)
      /\ StrandOK /\ out \in Seq(Elements)
  BY DEF SendInv, SendTypeOK
<1>2. /\ out' \in Seq(Elements)
      /\ PiecesOK(out', begun, todo)
      /\ Whole(out', last, todo, active, connOpen)
      /\ \A x, n : NoneOf(out, x, n) => NoneOf(out', x, n)
  <2>1. CASE out' = out
    BY <1>1, <2>1
  <2>2. CASE connOpen /\ \E t \in Tags, b \in Nat : out' = Append(out, [tag |-> t, buf |-> b])
    BY <2>2, BufferAppended
  <2> QED BY <2>1, <2>2
<1>3. SendTypeOK'
  BY <1>1, <1>2 DEF SendTypeOK, Contexts
<1>4. TodoOK(todo', begun', out')
  BY <1>1, <1>2 DEF TodoOK
<1>5. SuccessOK(answers', out', begun', todo')
  BY <1>1, <1>2 DEF SuccessOK
<1>6. PiecesOK(out', begun', todo') /\ Whole(out', last', todo', active', connOpen')
  BY <1>2
<1>7. StrandOK'
  BY <1>1 DEF StrandOK
<1> QED BY <1>3, <1>4, <1>5, <1>6, <1>7 DEF SendInv

(* The fields of a stream's context. *)
LEMMA ContextFields ==
  ASSUME NEW c \in Contexts
  PROVE  c.inFlight \in Int /\ c.dropped \in Int /\ c.memo \in Nat
BY DEF Contexts

(* in_flight is counted. *)
LEMMA ContextCounts ==
  ASSUME NEW c \in Contexts, NEW i \in Int
  PROVE  [c EXCEPT !.inFlight = i] \in Contexts
BY DEF Contexts

(* The slot is filled or emptied. *)
LEMMA ContextKeeps ==
  ASSUME NEW c \in Contexts, NEW d \in Int, NEW m \in Nat
  PROVE  [c EXCEPT !.memo = m, !.dropped = d] \in Contexts
BY DEF Contexts

(* A buffer of a stream comes. *)
LEMMA BpSendRawBufStep ==
  ASSUME SendInv, StrandIsFree, NEW t \in Tags, BpSendRawBuf(t),
         UNCHANGED <<callVars, answers, last>>
  PROVE  SendInv'
<1>1. /\ ctx \in [Tags -> Contexts]
      /\ taken \in [Tags -> Nat] /\ finished \in Seq(Tags)
  BY DEF SendInv, SendTypeOK, Contexts
<1>2. taken[t] + 1 \in Nat
  BY <1>1
<1>3. taken' \in [Tags -> Nat]
  BY <1>1 DEF BpSendRawBuf
<1>4. UNCHANGED <<active, connOpen, begun, todo, answers, last, finished>>
  BY DEF BpSendRawBuf, callVars, connVars
<1>5. ctx' \in [Tags -> Contexts]
  <2>1. CASE CanSendNow(t)
    <3>1. ctx' = [ctx EXCEPT ![t] = [ctx[t] EXCEPT !.inFlight = ctx[t].inFlight + 1]]
      BY <1>1, <2>1 DEF BpSendRawBuf
    <3>2. [ctx[t] EXCEPT !.inFlight = ctx[t].inFlight + 1]
            \in Contexts
      <4>1. ctx[t] \in Contexts
        BY <1>1
      <4>2. ctx[t].inFlight + 1 \in Int
        BY <4>1, ContextFields
      <4> QED BY <4>1, <4>2, ContextCounts
    <3> QED BY <1>1, <3>1, <3>2
  <2>2. CASE ~CanSendNow(t)
    <3>1. ctx' = [ctx EXCEPT ![t] = Memorize(ctx[t], taken[t] + 1)]
      BY <1>1, <2>2 DEF BpSendRawBuf
    <3>2. Memorize(ctx[t], taken[t] + 1) \in Contexts
      <4>1. ctx[t] \in Contexts
        BY <1>1
      <4> DEFINE d == IF ctx[t].memo = 0 THEN ctx[t].dropped ELSE ctx[t].dropped + 1
      <4>2. d \in Int
        BY <4>1, ContextFields
      <4>3. Memorize(ctx[t], taken[t] + 1)
              = [ctx[t] EXCEPT !.memo = taken[t] + 1, !.dropped = d]
        BY <4>1 DEF Memorize
      <4> HIDE DEF d
      <4> QED BY <1>2, <4>1, <4>2, <4>3, ContextKeeps
    <3> QED BY <1>1, <3>1, <3>2
  <2> QED BY <2>1, <2>2
<1>6. \/ out' = out
      \/ connOpen /\ out' = Append(out, [tag |-> t, buf |-> taken[t] + 1])
  BY DEF BpSendRawBuf, SendBuffer
<1> QED BY <1>1, <1>2, <1>3, <1>4, <1>5, <1>6, StreamStep

(* A completion is handled. *)
LEMMA StrandFinishedStep ==
  ASSUME SendInv, StrandIsFree, SendFinished, UNCHANGED <<callVars, answers, last>>
  PROVE  SendInv'
<1>1. /\ ctx \in [Tags -> Contexts]
      /\ taken \in [Tags -> Nat] /\ finished \in Seq(Tags)
  BY DEF SendInv, SendTypeOK, Contexts
<1> DEFINE t == Head(finished)
<1>2. t \in Tags /\ Tail(finished) \in Seq(Tags)
  BY <1>1, HeadTailProperties DEF SendFinished
<1>3. /\ UNCHANGED <<active, connOpen, begun, todo, answers, last, taken>>
      /\ finished' = Tail(finished)
  BY DEF SendFinished, callVars, connVars
<1>4. IF ctx[t].memo # 0
      THEN /\ ctx' = [ctx EXCEPT ![t].memo = 0, ![t].dropped = 0]
           /\ SendBuffer(t, ctx[t].memo)
      ELSE /\ ctx' = [ctx EXCEPT ![t].inFlight = @ - 1]
           /\ UNCHANGED <<out, handed>>
  BY DEF SendFinished
<1> HIDE DEF t
<1>5. ctx' \in [Tags -> Contexts]
  <2>1. CASE ctx[t].memo # 0
    <3> DEFINE r == [ctx[t] EXCEPT !.memo = 0, !.dropped = 0]
    <3>1. ctx' = [ctx EXCEPT ![t] = r]
      BY <1>1, <1>2, <1>4, <2>1
    <3>2. r \in Contexts
      <4>1. ctx[t] \in Contexts
        BY <1>1, <1>2
      <4>2. 0 \in Int /\ 0 \in Nat
        OBVIOUS
      <4>3. [ctx[t] EXCEPT !.memo = 0, !.dropped = 0] \in Contexts
        BY <4>1, <4>2, ContextKeeps
      <4> QED BY <4>3
    <3> HIDE DEF r
    <3> QED BY <1>1, <3>1, <3>2
  <2>2. CASE ctx[t].memo = 0
    <3> DEFINE r == [ctx[t] EXCEPT !.inFlight = ctx[t].inFlight - 1]
    <3>1. ctx' = [ctx EXCEPT ![t] = r]
      BY <1>1, <1>2, <1>4, <2>2
    <3>2. r \in Contexts
      <4>1. ctx[t] \in Contexts
        BY <1>1, <1>2
      <4>2. ctx[t].inFlight - 1 \in Int
        BY <4>1, ContextFields
      <4> QED BY <4>1, <4>2, ContextCounts
    <3> HIDE DEF r
    <3> QED BY <1>1, <3>1, <3>2
  <2> QED BY <2>1, <2>2
<1>6. ctx[t].memo \in Nat
  <2>1. ctx[t] \in Contexts
    BY <1>1, <1>2
  <2> QED BY <2>1, ContextFields
<1>7. \/ out' = out
      \/ connOpen /\ out' = Append(out, [tag |-> t, buf |-> ctx[t].memo])
  BY <1>4 DEF SendBuffer
<1> QED BY <1>1, <1>2, <1>3, <1>5, <1>6, <1>7, StreamStep

(* The entry ends, while the strand sends nothing. *)
LEMMA EntryTerminatesStep ==
  ASSUME SendInv, StrandIsFree, EntryTerminates, UNCHANGED <<callVars, answers, last>>
  PROVE  SendInv'
<1>1. /\ SendTypeOK /\ TodoOK(todo, begun, out) /\ PiecesOK(out, begun, todo)
      /\ Whole(out, last, todo, active, connOpen) /\ SuccessOK(answers, out, begun, todo)
  BY DEF SendInv
<1>2. /\ active' = FALSE
      /\ UNCHANGED <<ctx, taken, out, finished, connOpen, begun, todo, answers, last>>
  BY DEF EntryTerminates, callVars, connVars
<1>3. SendTypeOK'
  BY <1>1, <1>2 DEF SendTypeOK
<1>4. StrandOK'
  BY <1>2 DEF StrandOK, StrandIsFree
<1>5. Whole(out', last', todo', active', connOpen')
  BY <1>1, <1>2 DEF Whole, Awaits
<1>6. TodoOK(todo', begun', out') /\ PiecesOK(out', begun', todo')
      /\ SuccessOK(answers', out', begun', todo')
  BY <1>1, <1>2
<1> QED BY <1>3, <1>4, <1>5, <1>6 DEF SendInv

(* The connection ends, with what it has not written or without it. *)
LEMMA EndOfConnection ==
  ASSUME SendInv, connOpen' = FALSE, out' = out \/ out' = <<>>,
         UNCHANGED <<ctx, taken, finished, active, begun, todo, last>>,
         answers' \in [Callers -> [1..MaxMsgs -> Told]],
         \A c \in Callers, n \in 1..MaxMsgs :
           answers'[c][n] = "success" => answers[c][n] = "success"
  PROVE  SendInv'
<1>1. /\ SendTypeOK /\ TodoOK(todo, begun, out) /\ PiecesOK(out, begun, todo)
      /\ Whole(out, last, todo, active, connOpen) /\ SuccessOK(answers, out, begun, todo)
      /\ StrandOK /\ out \in Seq(Elements)
  BY DEF SendInv, SendTypeOK
<1>2. out' = <<>> => out' \in Seq(Elements) /\ DOMAIN out' = {} /\ Len(out') = 0
  OBVIOUS
<1>3. out' \in Seq(Elements)
  BY <1>1, <1>2
<1>4. SendTypeOK'
  <2>1. connOpen' \in BOOLEAN
    BY Zenon
  <2> QED BY <1>1, <1>3, <2>1 DEF SendTypeOK
<1>5. \A x, n : NoneOf(out, x, n) => NoneOf(out', x, n)
  BY <1>2 DEF NoneOf
<1>6. TodoOK(todo', begun', out')
  BY <1>1, <1>5 DEF TodoOK
<1>7. PiecesOK(out', begun', todo')
  BY <1>1, <1>2 DEF PiecesOK
<1>8. Whole(out', last', todo', active', connOpen')
  <2>1. Chained(out', last')
    <3>1. CASE out' = out
      BY <1>1, <3>1 DEF Whole
    <3>2. CASE out' = <<>>
      <4>1. \A k \in 1..Len(out') - 1 : FALSE
        BY <1>2, <3>2
      <4> QED BY <3>2, <4>1 DEF Chained
    <3> QED BY <3>1, <3>2
  <2> QED BY <2>1 DEF Whole, Awaits
<1>9. SuccessOK(answers', out', begun', todo')
  BY <1>1, <1>5 DEF SuccessOK
<1>10. StrandOK'
  BY <1>1 DEF StrandOK
<1> QED BY <1>4, <1>6, <1>7, <1>8, <1>9, <1>10 DEF SendInv

(* What hears of a failure hears no success. *)
LEMMA Failures ==
  ASSUME answers \in [Callers -> [1..MaxMsgs -> Told]], NEW pieces, HearFailure(pieces)
  PROVE  /\ answers' \in [Callers -> [1..MaxMsgs -> Told]]
         /\ \A c \in Callers, n \in 1..MaxMsgs :
              answers'[c][n] = "success" => answers[c][n] = "success"
<1> DEFINE Hears(c, n) ==
      \E i \in DOMAIN pieces :
         /\ pieces[i].tag \notin Tags
         /\ LET p == pieces[i].tag.pkg
            IN  p.by = c /\ p.n = n /\ p.cb /\ IsLastCall(p, <<pieces[i]>>)
<1>1. answers' = [c \in Callers |-> [n \in 1..MaxMsgs |->
                    IF Hears(c, n) THEN "failed" ELSE answers[c][n]]]
  BY Zenon DEF HearFailure
<1> HIDE DEF Hears
<1>2. \A c \in Callers, n \in 1..MaxMsgs : answers[c][n] \in Told
  OBVIOUS
<1>3. "failed" \in Told
  BY DEF Told
<1> QED BY <1>1, <1>2, <1>3

(* shutdown, a write that fails, and the destructor. *)
LEMMA ConnectionEndsStep ==
  ASSUME SendInv, ConnectionEnds \/ WriteError \/ Destroyed
  PROVE  SendInv'
<1>1. answers \in [Callers -> [1..MaxMsgs -> Told]]
  BY DEF SendInv, SendTypeOK
<1>2. CASE ConnectionEnds
  <2>1. /\ connOpen' = FALSE /\ out' = out
        /\ UNCHANGED <<ctx, taken, finished, active, begun, todo, last, answers>>
    BY <1>2 DEF ConnectionEnds, ConnectionShutdown, callVars
  <2> QED BY <1>1, <2>1, EndOfConnection
<1>3. CASE WriteError
  <2>1. /\ connOpen' = FALSE /\ out' = out
        /\ UNCHANGED <<ctx, taken, finished, active, begun, todo, last>>
        /\ \E pieces : HearFailure(pieces)
    BY <1>3 DEF WriteError, WriteFails, callVars
  <2> QED BY <1>1, <2>1, Failures, EndOfConnection
<1>4. CASE Destroyed
  <2>1. /\ connOpen \in BOOLEAN /\ ~connOpen /\ out' = <<>>
        /\ UNCHANGED <<ctx, taken, finished, active, begun, todo, last, connOpen>>
        /\ HearFailure(out)
    BY <1>4 DEF Destroyed, ConnectionDestroyed, callVars, connVars, SendInv, SendTypeOK
  <2>2. connOpen' = FALSE
    BY <2>1, Zenon
  <2> QED BY <1>1, <2>1, <2>2, Failures, EndOfConnection
<1> QED BY <1>2, <1>3, <1>4

(* A heartbeat is a package of one piece. *)
LEMMA SendHeartbeatStep ==
  ASSUME SendInv, SendHeartbeat
  PROVE  SendInv'
<1> DEFINE s == "strand"
           p == Package("strand", begun["strand"] + 1, "plain", FALSE)
           e == Piece(p, "plain")
<1>1. /\ todo[s] = <<>> /\ begun[s] < MaxMsgs
      /\ begun' = [begun EXCEPT ![s] = @ + 1]
      /\ out' = IF connOpen THEN Append(out, e) ELSE out
      /\ UNCHANGED <<ctx, taken, finished, active, connOpen, todo, answers, last>>
  BY DEF SendHeartbeat, StrandIsFree, connVars
<1>2. /\ SendTypeOK /\ TodoOK(todo, begun, out) /\ PiecesOK(out, begun, todo)
      /\ Whole(out, last, todo, active, connOpen) /\ SuccessOK(answers, out, begun, todo)
      /\ StrandOK /\ out \in Seq(Elements)
  BY DEF SendInv, SendTypeOK
<1>3. /\ begun \in [Callers -> Nat] /\ DOMAIN todo = Callers /\ s \in Callers
      /\ begun[s] \in Nat /\ MaxMsgs \in Nat
  BY <1>2, SendAssumption DEF SendTypeOK, Callers
<1>4. p \in Packages /\ p.by = s /\ p.n = begun[s] + 1
  BY <1>1, <1>3 DEF Package, Packages, Forms
<1> HIDE DEF p
<1>5. /\ e \in Elements /\ IsPiece(e) /\ e.tag.pkg = p /\ e.tag.part = "plain"
      /\ Caller(e) = s
  BY <1>4, PieceFacts
<1> HIDE DEF e, s
<1>6. /\ begun' \in [Callers -> Nat] /\ begun'[s] = begun[s] + 1
      /\ \A x \in Callers : x # s => begun'[x] = begun[x]
  BY <1>1, <1>3
<1>7. \A i \in DOMAIN out : IsPiece(out[i]) =>
         /\ out[i].tag.pkg.by \in Callers /\ out[i].tag.pkg.n \in Nat
         /\ out[i].tag.pkg.n <= begun[out[i].tag.pkg.by]
         /\ out[i].tag.part # "head" /\ out[i].tag.pkg.n = begun[out[i].tag.pkg.by]
              => todo[out[i].tag.pkg.by] = <<>>
  BY <1>2, Appending, ElementFacts DEF PiecesOK
<1>8. PiecesOK(out, begun', todo)
  <2>1. ASSUME NEW i \in DOMAIN out, IsPiece(out[i])
        PROVE  /\ out[i].tag.pkg.n <= begun'[out[i].tag.pkg.by]
               /\ out[i].tag.part # "head" /\ out[i].tag.pkg.n = begun'[out[i].tag.pkg.by]
                    => todo[out[i].tag.pkg.by] = <<>>
    <3>1. CASE out[i].tag.pkg.by = s
      BY <1>1, <1>3, <1>6, <1>7, <2>1, <3>1
    <3>2. CASE out[i].tag.pkg.by # s
      BY <1>6, <1>7, <2>1, <3>2
    <3> QED BY <3>1, <3>2
  <2> QED BY <1>2, <2>1 DEF PiecesOK
<1>9. NoneOf(out, s, begun[s] + 1)
  <2> SUFFICES ASSUME NEW i \in DOMAIN out, Of(out[i], s, begun[s] + 1) PROVE FALSE
    BY DEF NoneOf
  <2>1. begun[s] + 1 <= begun[s]
    BY <1>7 DEF Of
  <2> QED BY <1>3, <2>1
<1>10. /\ out' \in Seq(Elements)
       /\ PiecesOK(out', begun', todo)
       /\ Whole(out', last, todo, active, connOpen)
       /\ \A x, n : NoneOf(out, x, n) /\ ~(x = s /\ n = begun[s] + 1) => NoneOf(out', x, n)
  <2>1. CASE ~connOpen
    <3>1. out' = out
      BY <1>1, <2>1
    <3> QED BY <1>2, <1>8, <3>1
  <2>2. CASE connOpen
    <3>1. out' = Append(out, e)
      BY <1>1, <2>2
    <3>2. begun'[s] \in Nat /\ e.tag.pkg.n = begun'[s] /\ e.tag.pkg.by = s
      BY <1>3, <1>4, <1>5, <1>6
    <3>3. e.tag.pkg.n <= begun'[e.tag.pkg.by] /\ NoneOf(out, e.tag.pkg.by, e.tag.pkg.n)
          /\ todo[e.tag.pkg.by] = <<>>
      BY <1>1, <1>4, <1>5, <1>9, <3>2
    <3>4. PiecesOK(out', begun', todo)
      BY <1>2, <1>5, <1>8, <3>1, <3>3, PiecesAppended
    <3>5. Chained(out', last) /\ End(out', last) = e
      <4>1. \A r \in Packages : todo[Caller(e)] # TailCall(r)
        BY <1>1, <1>5, TailCallFacts
      <4>2. Caller(e) = "strand"
        BY <1>5 DEF s
      <4> QED BY <1>5, <2>2, <3>1, <4>1, <4>2, WholeAppended
    <3>6. Whole(out', last, todo, active, connOpen)
      BY <1>5, <3>5 DEF Whole, Awaits, IsHead
    <3>7. \A x, n : NoneOf(out, x, n) /\ ~(x = s /\ n = begun[s] + 1) => NoneOf(out', x, n)
      BY <1>2, <1>4, <1>5, <3>1, NoneAppended DEF Of
    <3>8. out' \in Seq(Elements)
      BY <1>2, <1>5, <3>1, Appending
    <3> QED BY <3>4, <3>6, <3>7, <3>8
  <2> QED BY <2>1, <2>2
<1>11. SendTypeOK'
  BY <1>1, <1>2, <1>6, <1>10 DEF SendTypeOK
<1>12. TodoOK(todo', begun', out')
  <2> SUFFICES ASSUME NEW x \in Callers, todo[x] # <<>>
               PROVE  \E r \in Packages :
                        /\ r.by = x /\ r.n = begun'[x]
                        /\ \/ todo[x] = Calls(r) /\ NoneOf(out', x, begun'[x])
                           \/ r.form = "vec" /\ todo[x] = TailCall(r)
    BY <1>1 DEF TodoOK
  <2>1. x # s /\ begun'[x] = begun[x]
    BY <1>1, <1>6
  <2> QED BY <1>2, <1>10, <2>1 DEF TodoOK
<1>13. SuccessOK(answers', out', begun', todo')
  <2> SUFFICES ASSUME NEW x \in Callers, NEW n \in 1..MaxMsgs, answers[x][n] = "success"
               PROVE  NoneOf(out', x, n) /\ n <= begun'[x] /\ (n = begun'[x] => todo[x] = <<>>)
    BY <1>1 DEF SuccessOK
  <2>1. NoneOf(out, x, n) /\ n <= begun[x] /\ (n = begun[x] => todo[x] = <<>>)
    BY <1>2 DEF SuccessOK
  <2>2. CASE x = s
    BY <1>1, <1>3, <1>6, <1>10, <2>1, <2>2
  <2>3. CASE x # s
    BY <1>6, <1>10, <2>1, <2>3
  <2> QED BY <2>2, <2>3
<1>14. StrandOK' /\ PiecesOK(out', begun', todo')
       /\ Whole(out', last', todo', active', connOpen')
  BY <1>1, <1>2, <1>10 DEF StrandOK
<1> QED BY <1>11, <1>12, <1>13, <1>14 DEF SendInv

(* The front of the queue is written.                                        *)
LEMMA Written ==
  ASSUME SendInv, out # <<>>, out' = Tail(out),
         last' = IF IsHead(Head(out)) THEN <<Head(out)>> ELSE <<>>,
         UNCHANGED <<ctx, taken, active, connOpen, begun, todo>>,
         finished' \in Seq(Tags),
         answers' \in [Callers -> [1..MaxMsgs -> Told]],
         \A x \in Callers, n \in 1..MaxMsgs :
           answers'[x][n] = "success" =>
             \/ answers[x][n] = "success"
             \/ IsPiece(Head(out)) /\ Head(out).tag.part # "head"
                /\ x = Head(out).tag.pkg.by /\ n = Head(out).tag.pkg.n
  PROVE  SendInv'
<1> DEFINE a == Head(out)
<1>1. /\ SendTypeOK /\ TodoOK(todo, begun, out) /\ PiecesOK(out, begun, todo)
      /\ Whole(out, last, todo, active, connOpen) /\ SuccessOK(answers, out, begun, todo)
      /\ StrandOK /\ out \in Seq(Elements)
  BY DEF SendInv, SendTypeOK
<1>2. /\ a \in Elements /\ a = out[1] /\ 1 \in DOMAIN out /\ out' \in Seq(Elements)
      /\ IsPiece(a) <=> a \in Pieces
  BY <1>1, Taking, ElementFacts
<1>3. /\ PiecesOK(out', begun, todo)
      /\ IsPiece(a) /\ a.tag.part # "head" => NoneOf(out', a.tag.pkg.by, a.tag.pkg.n)
  BY <1>1, PiecesTaken
<1>4. \A x, n : NoneOf(out, x, n) => NoneOf(out', x, n)
  BY <1>1, NoneTaken
<1>5. /\ Chained(out', last')
      /\ out' # <<>> \/ last' # <<>> => End(out', last') = End(out, last)
  BY <1>1, ChainTaken DEF Whole
<1>6. Whole(out', last', todo', active', connOpen')
  BY <1>1, <1>5 DEF Whole
<1> HIDE DEF a
<1>7. last' = <<>> \/ \E e \in Pieces : last' = <<e>>
  BY <1>2 DEF IsHead, a
<1>8. SendTypeOK'
  BY <1>1, <1>2, <1>7 DEF SendTypeOK
<1>9. TodoOK(todo', begun', out')
  BY <1>1, <1>4 DEF TodoOK
<1>10. SuccessOK(answers', out', begun', todo')
  <2> SUFFICES ASSUME NEW x \in Callers, NEW n \in 1..MaxMsgs, answers'[x][n] = "success"
               PROVE  NoneOf(out', x, n) /\ n <= begun[x] /\ (n = begun[x] => todo[x] = <<>>)
    BY DEF SuccessOK
  <2>1. CASE answers[x][n] = "success"
    BY <1>1, <1>4, <2>1 DEF SuccessOK
  <2>2. CASE IsPiece(a) /\ a.tag.part # "head" /\ x = a.tag.pkg.by /\ n = a.tag.pkg.n
    BY <1>1, <1>2, <1>3, <2>2 DEF PiecesOK
  <2> QED BY <2>1, <2>2 DEF a
<1>11. StrandOK' /\ PiecesOK(out', begun', todo')
  BY <1>1, <1>3 DEF StrandOK
<1> QED BY <1>6, <1>8, <1>9, <1>10, <1>11 DEF SendInv

(* A piece is written, and its callback told if it is the last. *)
LEMMA WritePieceStep ==
  ASSUME SendInv, WritePiece
  PROVE  SendInv'
<1> DEFINE a == Head(out)
           p == a.tag.pkg
<1>1. /\ out # <<>> /\ IsPiece(a)
      /\ out' = Tail(out)
      /\ last' = IF a.tag.part = "head" THEN <<a>> ELSE <<>>
      /\ IF IsLastCall(p, <<a>>) THEN Answer(p, "success") ELSE UNCHANGED answers
      /\ UNCHANGED <<ctx, taken, finished, active, connOpen, begun, todo>>
  BY DEF WritePiece, IsPiece, callVars, connVars
<1>2. SendTypeOK /\ out \in Seq(Elements) /\ finished \in Seq(Tags)
      /\ answers \in [Callers -> [1..MaxMsgs -> Told]]
  BY DEF SendInv, SendTypeOK
<1>3. a \in Elements /\ p \in Packages
  <2>1. a \in Elements
    BY <1>1, <1>2, Taking
  <2> QED BY <1>1, <2>1, ElementFacts
<1>4. IsLastCall(p, <<a>>) <=> a.tag.part # "head"
  BY DEF IsLastCall
<1> HIDE DEF a, p
<1>5. /\ answers' \in [Callers -> [1..MaxMsgs -> Told]]
      /\ \A x \in Callers, n \in 1..MaxMsgs :
           answers'[x][n] = "success" =>
             \/ answers[x][n] = "success"
             \/ a.tag.part # "head" /\ x = p.by /\ n = p.n
  <2>1. CASE IsLastCall(p, <<a>>)
    BY <1>1, <1>2, <1>3, <1>4, <2>1, AnswerFacts DEF Told
  <2>2. CASE ~IsLastCall(p, <<a>>)
    BY <1>1, <1>2, <2>2
  <2> QED BY <2>1, <2>2
<1>6. last' = IF IsHead(a) THEN <<a>> ELSE <<>>
  BY <1>1 DEF IsHead
<1> QED BY <1>1, <1>2, <1>5, <1>6, Written DEF a, p

(* A buffer of a stream is written. *)
LEMMA WriteBufferStep ==
  ASSUME SendInv, WriteBuffer
  PROVE  SendInv'
<1>1. /\ out # <<>> /\ ~IsPiece(Head(out)) /\ out' = Tail(out) /\ last' = <<>>
      /\ Head(out).tag \in Tags
      /\ finished' = finished \/ finished' = Append(finished, Head(out).tag)
      /\ UNCHANGED <<ctx, taken, active, connOpen, begun, todo, answers>>
  BY DEF WriteBuffer, WriteDone, IsPiece, callVars, connVars
<1>2. finished \in Seq(Tags) /\ answers \in [Callers -> [1..MaxMsgs -> Told]]
  BY DEF SendInv, SendTypeOK
<1>3. finished' \in Seq(Tags)
  BY <1>1, <1>2, AppendProperties
<1> QED BY <1>1, <1>2, <1>3, Written DEF IsHead

(* Every step keeps the invariant. *)
LEMMA SendInvStep == SendInv /\ [SendNext]_sendVars => SendInv'
<1> SUFFICES ASSUME SendInv, [SendNext]_sendVars PROVE SendInv'
  OBVIOUS
<1>1. CASE \E c \in Callers :
             \/ \E form \in Forms, cb \in BOOLEAN : BeginSend(c, form, cb)
             \/ LookAgain(c) \/ CallConnection(c)
  BY <1>1, BeginSendStep, LookAgainStep, CallConnectionStep
<1>2. CASE SendHeartbeat
  BY <1>2, SendHeartbeatStep
<1>3. CASE WritePiece
  BY <1>3, WritePieceStep
<1>4. CASE WriteBuffer
  BY <1>4, WriteBufferStep
<1>5. CASE ConnectionEnds \/ WriteError \/ Destroyed
  BY <1>5, ConnectionEndsStep
<1>6. CASE StrandTask
  BY <1>6, BpSendRawBufStep, StrandFinishedStep, EntryTerminatesStep DEF StrandTask
<1>7. CASE ReleaseEntry \/ UNCHANGED sendVars
  <2>1. UNCHANGED <<ctx, taken, out, finished, active, connOpen, begun, todo, answers, last>>
    BY <1>7 DEF ReleaseEntry, Release, sendVars, vars, connVars, callVars
  <2>2. SendTypeOK' /\ StrandOK'
    BY <2>1 DEF SendInv, SendTypeOK, StrandOK
  <2>3. /\ TodoOK(todo', begun', out') /\ PiecesOK(out', begun', todo')
        /\ Whole(out', last', todo', active', connOpen')
        /\ SuccessOK(answers', out', begun', todo')
    BY <2>1 DEF SendInv
  <2> QED BY <2>2, <2>3 DEF SendInv
<1> QED BY <1>1, <1>2, <1>3, <1>4, <1>5, <1>6, <1>7 DEF SendNext

(* The invariant means what the peer needs. *)
LEMMA SendInvIsWhole == SendInv => PackagesWhole
<1> SUFFICES ASSUME SendInv PROVE PackagesWhole
  OBVIOUS
<1> DEFINE seen == last \o out
           m == Len(out)
<1>1. /\ Chained(out, last) /\ (out # <<>> \/ last # <<>> => Awaits(End(out, last), todo, active, connOpen))
      /\ out \in Seq(Elements) /\ (last = <<>> \/ \E e \in Pieces : last = <<e>>)
      /\ SendTypeOK
  BY DEF SendInv, SendTypeOK, Whole
<1>2. m \in Nat /\ DOMAIN out = 1..m /\ (out = <<>> <=> m = 0)
  BY <1>1, EmptySeq, LenProperties
<1>3. last \in Seq(Elements)
  <2>1. CASE last = <<>>
    BY <2>1
  <2>2. CASE \E e \in Pieces : last = <<e>>
    <3>1. PICK e \in Pieces : last = <<e>>
      BY <2>2
    <3>2. e \in Elements
      BY DEF Elements
    <3> HIDE DEF Elements
    <3> QED BY <3>1, <3>2
  <2> QED BY <1>1, <2>1, <2>2
<1>4. /\ seen \in Seq(Elements) /\ Len(seen) = Len(last) + m /\ DOMAIN seen = 1..Len(last) + m
      /\ \A i \in 1..Len(last) + m : seen[i] = IF i <= Len(last) THEN last[i] ELSE out[i - Len(last)]
  <2>1. seen \in Seq(Elements) /\ Len(seen) = Len(last) + m
        /\ \A i \in 1..Len(last) + m : seen[i] = IF i <= Len(last) THEN last[i] ELSE out[i - Len(last)]
    BY <1>1, <1>3, ConcatProperties, Zenon
  <2> HIDE DEF seen, m
  <2> QED BY <2>1, LenProperties
<1>5. (last = <<>> /\ Len(last) = 0) \/ (last # <<>> /\ Len(last) = 1)
  BY <1>1
<1> HIDE DEF seen, m
<1>6. ASSUME NEW i \in DOMAIN seen, IsHead(seen[i])
      PROVE  /\ i < Len(seen) => Follows(seen[i], seen[i + 1])
             /\ i = Len(seen) => seen[i] = End(out, last) /\ (out # <<>> \/ last # <<>>)
  <2>1. CASE last = <<>> /\ Len(last) = 0
    <3>1. \A j \in 1..m : seen[j] = out[j]
      BY <1>2, <1>4, <2>1
    <3>2. i \in 1..m /\ Len(seen) = m /\ out # <<>>
      BY <1>2, <1>4, <1>6, <2>1
    <3>3. i < Len(seen) => Follows(seen[i], seen[i + 1])
      <4> SUFFICES ASSUME i < m PROVE Follows(seen[i], seen[i + 1])
        BY <3>2
      <4>1. i \in 1..m - 1 /\ i + 1 \in 1..m
        BY <1>2, <3>2
      <4> QED BY <1>1, <3>1, <3>2, <4>1 DEF Chained, m
    <3>4. i = Len(seen) => seen[i] = End(out, last)
      BY <3>1, <3>2 DEF End, m
    <3> QED BY <3>2, <3>3, <3>4
  <2>2. CASE last # <<>> /\ Len(last) = 1
    <3>1. seen[1] = last[1] /\ \A j \in 1..m : seen[j + 1] = out[j]
      BY <1>2, <1>4, <2>2
    <3>2. i \in 1..m + 1 /\ Len(seen) = m + 1
      BY <1>2, <1>4, <1>6, <2>2
    <3>3. CASE i = 1
      <4>1. i < Len(seen) => out # <<>> /\ seen[i + 1] = out[1]
        BY <1>2, <3>1, <3>2, <3>3
      <4>2. i = Len(seen) => out = <<>>
        BY <1>2, <3>2, <3>3
      <4> QED BY <1>1, <2>2, <3>1, <3>3, <4>1, <4>2 DEF Chained, End
    <3>4. CASE i # 1
      <4> DEFINE j == i - 1
      <4>1. j \in 1..m /\ i = j + 1
        BY <1>2, <3>2, <3>4
      <4> HIDE DEF j
      <4>2. seen[i] = out[j] /\ out # <<>>
        BY <1>2, <3>1, <4>1
      <4>3. i < Len(seen) => Follows(seen[i], seen[i + 1])
        <5> SUFFICES ASSUME i < m + 1 PROVE Follows(seen[i], seen[i + 1])
          BY <3>2
        <5>1. j \in 1..m - 1 /\ i \in 1..m /\ i + 1 = (j + 1) + 1 /\ j + 1 \in 1..m
          BY <1>2, <4>1
        <5>2. seen[i + 1] = out[j + 1]
          BY <3>1, <4>1, <5>1
        <5> QED BY <1>1, <4>2, <5>1, <5>2 DEF Chained, m
      <4>4. i = Len(seen) => j = m
        BY <1>2, <3>2, <4>1
      <4> QED BY <4>2, <4>3, <4>4 DEF End, m
    <3> QED BY <3>3, <3>4
  <2> QED BY <1>5, <2>1, <2>2
<1>7. ASSUME NEW i \in DOMAIN seen, IsHead(seen[i])
      PROVE  LET p == seen[i].tag.pkg
             IN  IF i < Len(seen)
                 THEN \/ seen[i + 1] = Piece(p, "tail")
                      \/ p.form = "vec" /\ Caller(seen[i + 1]) # p.by
                 ELSE todo[p.by] # <<>> \/ ~Working
  <2>1. CASE i < Len(seen)
    BY <1>6, <1>7, <2>1 DEF Follows
  <2>2. CASE ~(i < Len(seen))
    <3>1. i = Len(seen)
      BY <1>4, <1>5, <1>2, <1>7, <2>2
    <3>2. Awaits(seen[i], todo, active, connOpen)
      BY <1>1, <1>6, <1>7, <3>1
    <3>3. seen[i].tag.pkg \in Packages
      BY <1>4, <1>7, ElementFacts, ElementOfSeq DEF IsHead
    <3>4. TailCall(seen[i].tag.pkg) # <<>>
      BY <3>3, TailCallFacts
    <3> QED BY <1>7, <2>2, <3>2, <3>4 DEF Awaits, Working
  <2> QED BY <2>1, <2>2
<1> QED BY <1>7 DEF PackagesWhole, IsHead, IsPiece, seen

-----------------------------------------------------------------------------
(* What is still to be called, what waits in the connection, what was told   *)
(* and what was written last agree with one another, at all times.           *)
THEOREM SendInvariant == SendSpec => []SendInv
<1>1. SendInv /\ [SendNext]_sendVars => SendInv'
  BY SendInvStep
<1> QED BY SendInvInit, <1>1, PTL DEF SendSpec

(* schedule_send_raw_bufs hands a head and what is attached to it over in    *)
(* one call or, send_vec_with_cb, in two: whatever threads, heartbeats and   *)
(* back pressure controlled buffers do, only what another thread of control  *)
(* sends comes between a head and its tail, and only if they take two calls; *)
(* and a head that waits for its tail gets it or the entry has ended.        *)
THEOREM PackagesAreWhole == SendSpec => []PackagesWhole
<1>1. SendInv => PackagesWhole
  BY SendInvIsWhole
<1> QED BY SendInvariant, <1>1, PTL

(* A completion callback is called with success when the last piece of its   *)
(* package was written: nothing of the package waits in the connection or    *)
(* for its call.                                                             *)
THEOREM SuccessIsOfAWholePackage == SendSpec => []SuccessIsWritten
<1>1. SendInv => SuccessIsWritten
  BY DEF SendInv, SuccessOK, NoneOf, Of, IsPiece, SuccessIsWritten
<1> QED BY SendInvariant, <1>1, PTL

-----------------------------------------------------------------------------
(* The streams of back pressure among the other sends                        *)

(* Pieces are no buffers. *)
LEMMA ElementsAreShared == Shared(Elements)
<1>1. \A e \in Pieces : e.tag \notin Tags
  BY TagsAssumption
<1> QED BY <1>1 DEF Shared, Elements, Queued

(* No piece is in the queue twice.                                           *)
LEMMA PiecesDiffer ==
  ASSUME NEW q \in Seq(Elements), NEW bg, NEW td, PiecesOK(q, bg, td),
         NEW i \in DOMAIN q, NEW j \in DOMAIN q, q[i].tag \notin Tags, q[i].tag = q[j].tag
  PROVE  i = j
<1>1. i \in Nat /\ j \in Nat
  BY Appending
<1>2. ~(i < j) /\ ~(j < i)
  BY DEF PiecesOK, Of, IsPiece
<1> QED BY <1>1, <1>2

(* Counting from another place. *)
LEMMA ShiftedBack ==
  ASSUME NEW a \in Int, NEW b \in Int, NEW k \in Int, a + k = b + k
  PROVE  a = b
OBVIOUS

(* What is not a buffer may come and go.                                     *)
LEMMA StreamsAreLeft ==
  ASSUME Typed(Elements), BackPressureInv, SendInv',
         UNCHANGED <<ctx, taken, handed, written, finished, active, writing, connOpen, held>>,
         NEW k \in {0, 1},
         \A i \in DOMAIN out' : out'[i].tag \in Tags =>
           i + k \in DOMAIN out /\ out'[i] = out[i + k],
         \A i \in DOMAIN out : out[i].tag \in Tags =>
           i - k \in DOMAIN out' /\ out'[i - k] = out[i]
  PROVE  Typed(Elements)' /\ BackPressureInv'
<1>1. out' \in Seq(Elements)
  BY DEF SendInv, SendTypeOK
<1>2. Typed(Elements)'
  BY <1>1 DEF Typed
<1>3. /\ DOMAIN out' \subseteq Int /\ DOMAIN out \subseteq Int
      /\ \A i \in DOMAIN finished : finished[i] \in Tags
  BY <1>1, Appending, QueueElements, ElementsAreShared DEF Typed
<1>4. \A i, j \in DOMAIN out' : out'[i].tag = out'[j].tag => i = j
  <2> SUFFICES ASSUME NEW i \in DOMAIN out', NEW j \in DOMAIN out', out'[i].tag = out'[j].tag
               PROVE  i = j
    OBVIOUS
  <2>1. CASE out'[i].tag \in Tags
    <3>1. i + k \in DOMAIN out /\ j + k \in DOMAIN out /\ out[i + k].tag = out[j + k].tag
      BY <2>1
    <3>2. i + k = j + k
      BY <3>1 DEF BackPressureInv, OneInFlight
    <3>3. i \in Int /\ j \in Int /\ k \in Int
      BY <1>3
    <3> QED BY <3>2, <3>3, ShiftedBack
  <2>2. CASE out'[i].tag \notin Tags
    <3>1. PiecesOK(out', begun', todo')
      BY DEF SendInv
    <3> QED BY <1>1, <2>2, <3>1, PiecesDiffer
  <2> QED BY <2>1, <2>2
<1>5. \A i \in DOMAIN out', j \in DOMAIN finished : out'[i].tag # finished[j]
  BY <1>3 DEF BackPressureInv, OneInFlight
<1>6. \A t \in Tags : Pending(t)' <=> Pending(t)
  BY DEF Pending
<1>7. Working' <=> Working
  BY DEF Working
<1>8. OneInFlight'
  <2>1. \A t \in Tags : /\ ctx'[t].inFlight \in {0, 1}
                        /\ Pending(t)' => ctx'[t].inFlight = 1
                        /\ Working' /\ ctx'[t].inFlight = 1 => Pending(t)'
    BY <1>6, <1>7 DEF BackPressureInv, OneInFlight
  <2>2. \A i, j \in DOMAIN finished' : finished'[i] = finished'[j] => i = j
    BY DEF BackPressureInv, OneInFlight
  <2> QED BY <1>4, <1>5, <2>1, <2>2, Zenon DEF OneInFlight
<1>9. UnderWayInv'
  BY DEF BackPressureInv, UnderWayInv
<1>10. LatestIsKept' /\ DropsCounted'
  BY <1>7 DEF BackPressureInv, LatestIsKept, DropsCounted
<1> QED BY <1>2, <1>8, <1>9, <1>10 DEF BackPressureInv

(* A call brings pieces only. *)
LEMMA CallIsPieces ==
  ASSUME SendInv, NEW c \in Callers, todo[c] # <<>>
  PROVE  /\ Head(todo[c]) \in Seq(Elements)
         /\ \A i \in DOMAIN Head(todo[c]) : Head(todo[c])[i].tag \notin Tags
<1>1. PICK p \in Packages : todo[c] = Calls(p) \/ todo[c] = TailCall(p)
  BY DEF SendInv, TodoOK
<1> DEFINE a == Piece(p, "head")
           b == Piece(p, "tail")
           e == Piece(p, "plain")
<1>2. /\ a \in Elements /\ b \in Elements /\ e \in Elements
      /\ a.tag \notin Tags /\ b.tag \notin Tags /\ e.tag \notin Tags
  BY PieceFacts DEF IsPiece
<1>3. \/ Head(todo[c]) = <<e>>
      \/ Head(todo[c]) = <<a, b>>
      \/ Head(todo[c]) = <<a>>
      \/ Head(todo[c]) = <<b>>
  BY <1>1, CallsFacts, TailCallFacts
<1> HIDE DEF a, b, e, Elements
<1> DEFINE pieces == Head(todo[c])
<1> HIDE DEF pieces
<1>4. CASE pieces = <<e>>
  <2>1. pieces \in Seq(Elements) /\ DOMAIN pieces = 1..1 /\ pieces[1] = e
    BY <1>2, <1>4
  <2>2. \A i \in 1..1 : i = 1
    OBVIOUS
  <2>3. \A i \in DOMAIN pieces : pieces[i].tag \notin Tags
    BY <1>2, <2>1, <2>2
  <2> QED BY <2>1, <2>3 DEF pieces
<1>5. CASE pieces = <<a, b>>
  <2>1. pieces \in Seq(Elements) /\ DOMAIN pieces = 1..2
    BY <1>2, <1>5
  <2>2. \A i \in 1..2 : i = 1 \/ i = 2
    OBVIOUS
  <2>3. \A i \in DOMAIN pieces : pieces[i].tag \notin Tags
    BY <1>2, <1>5, <2>1, <2>2
  <2> QED BY <2>1, <2>3 DEF pieces
<1>6. CASE pieces = <<a>>
  <2>1. pieces \in Seq(Elements) /\ DOMAIN pieces = 1..1 /\ pieces[1] = a
    BY <1>2, <1>6
  <2>2. \A i \in 1..1 : i = 1
    OBVIOUS
  <2>3. \A i \in DOMAIN pieces : pieces[i].tag \notin Tags
    BY <1>2, <2>1, <2>2
  <2> QED BY <2>1, <2>3 DEF pieces
<1>7. CASE pieces = <<b>>
  <2>1. pieces \in Seq(Elements) /\ DOMAIN pieces = 1..1 /\ pieces[1] = b
    BY <1>2, <1>7
  <2>2. \A i \in 1..1 : i = 1
    OBVIOUS
  <2>3. \A i \in DOMAIN pieces : pieces[i].tag \notin Tags
    BY <1>2, <2>1, <2>2
  <2> QED BY <2>1, <2>3 DEF pieces
<1> QED BY <1>3, <1>4, <1>5, <1>6, <1>7 DEF pieces

(* Every step keeps the streams' invariant, and takes no stream back. *)
LEMMA StreamsStep ==
  ASSUME SendInv, SendInv', Typed(Elements), BackPressureInv, [SendNext]_sendVars
  PROVE  /\ Typed(Elements)' /\ BackPressureInv'
         /\ \A t \in Tags : written'[t] >= written[t]
<1>1. Shared(Elements) /\ out \in Seq(Elements)
  BY ElementsAreShared DEF SendInv, SendTypeOK
<1>2. \A t \in Tags : written[t] \in Nat
  BY DEF Typed
<1>3. /\ Len(out) \in Nat /\ DOMAIN out = 1..Len(out)
  BY <1>1, QueueElements
<1>4. ASSUME UNCHANGED vars
      PROVE  Typed(Elements)' /\ BackPressureInv' /\ \A t \in Tags : written'[t] >= written[t]
  <2>1. UNCHANGED <<ctx, taken, handed, written, out, finished, active, writing, connOpen, held>>
    BY <1>4 DEF vars, connVars
  <2>2. Typed(Elements)' /\ BackPressureInv'
    BY <2>1 DEF Typed, BackPressureInv, OneInFlight, UnderWayInv, LatestIsKept, DropsCounted,
                Pending, Working
  <2> QED BY <1>2, <2>1, <2>2
<1>5. CASE \E c \in Callers : \/ \E form \in Forms, cb \in BOOLEAN : BeginSend(c, form, cb)
                              \/ LookAgain(c)
  BY <1>4, <1>5 DEF BeginSend, LookAgain
<1>6. ASSUME NEW c \in Callers, CallConnection(c)
      PROVE  Typed(Elements)' /\ BackPressureInv' /\ \A t \in Tags : written'[t] >= written[t]
  <2> DEFINE pieces == Head(todo[c])
  <2>1. /\ pieces \in Seq(Elements)
        /\ \A i \in DOMAIN pieces : pieces[i].tag \notin Tags
    BY <1>6, CallIsPieces DEF CallConnection
  <2>2. /\ out' = IF connOpen THEN out \o pieces ELSE out
        /\ UNCHANGED <<ctx, taken, handed, written, finished, active, writing, connOpen, held>>
    BY <1>6 DEF CallConnection, Schedule, connVars
  <2> HIDE DEF pieces
  <2>3. CASE connOpen
    <3>1. out' = out \o pieces
      BY <2>2, <2>3
    <3>2. /\ Len(pieces) \in Nat /\ DOMAIN pieces = 1..Len(pieces)
          /\ out' \in Seq(Elements) /\ Len(out') = Len(out) + Len(pieces)
          /\ \A i \in 1..Len(out) + Len(pieces) :
               out'[i] = IF i <= Len(out) THEN out[i] ELSE pieces[i - Len(out)]
      BY <1>1, <2>1, <3>1, ConcatProperties, LenProperties, Zenon
    <3>3. DOMAIN out' = 1..Len(out) + Len(pieces)
      BY <3>2, LenProperties
    <3>4. \A i \in DOMAIN out : i \in DOMAIN out' /\ out'[i] = out[i]
      BY <1>3, <3>2, <3>3
    <3>5. \A i \in DOMAIN out' : i \in DOMAIN out \/ out'[i].tag \notin Tags
      <4> SUFFICES ASSUME NEW i \in DOMAIN out', i \notin DOMAIN out PROVE out'[i].tag \notin Tags
        OBVIOUS
      <4>1. i - Len(out) \in DOMAIN pieces /\ out'[i] = pieces[i - Len(out)]
        BY <1>3, <3>2, <3>3
      <4> QED BY <2>1, <4>1
    <3>6. \A i \in DOMAIN out' : i + 0 = i /\ i - 0 = i
      BY <1>3, <3>2, <3>3
    <3>7. \A i \in DOMAIN out : i + 0 = i /\ i - 0 = i
      BY <1>3
    <3> QED BY <1>2, <2>2, <3>4, <3>5, <3>6, <3>7, StreamsAreLeft
  <2>4. CASE ~connOpen
    BY <1>4, <2>2, <2>4 DEF vars, connVars
  <2> QED BY <2>3, <2>4
<1>7. CASE SendHeartbeat
  <2> DEFINE e == Piece(Package("strand", begun["strand"] + 1, "plain", FALSE), "plain")
  <2>1. /\ out' = IF connOpen THEN Append(out, e) ELSE out
        /\ UNCHANGED <<ctx, taken, handed, written, finished, active, writing, connOpen, held>>
    BY <1>7 DEF SendHeartbeat, connVars
  <2>2. e \in Elements /\ e.tag \notin Tags
    <3>1. begun["strand"] \in Nat /\ begun["strand"] < MaxMsgs
      BY <1>7 DEF SendHeartbeat, SendInv, SendTypeOK, Callers
    <3>2. Package("strand", begun["strand"] + 1, "plain", FALSE) \in Packages
      BY <3>1, SendAssumption DEF Package, Packages, Forms, Callers
    <3> QED BY <3>2, PieceFacts DEF IsPiece
  <2> HIDE DEF e
  <2>3. CASE connOpen
    <3>1. /\ DOMAIN out' = 1..Len(out) + 1
          /\ \A i \in 1..Len(out) : out'[i] = out[i]
          /\ out'[Len(out) + 1] = e
      BY <1>1, <2>1, <2>2, <2>3, Appending
    <3>2. \A i \in DOMAIN out : i \in DOMAIN out' /\ out'[i] = out[i]
      BY <1>3, <3>1
    <3>3. \A i \in DOMAIN out' : i \in DOMAIN out \/ out'[i].tag \notin Tags
      BY <1>3, <2>2, <3>1
    <3>4. \A i \in DOMAIN out' : i + 0 = i /\ i - 0 = i
      BY <1>3, <3>1
    <3>5. \A i \in DOMAIN out : i + 0 = i /\ i - 0 = i
      BY <1>3
    <3> QED BY <1>2, <2>1, <3>2, <3>3, <3>4, <3>5, StreamsAreLeft
  <2>4. CASE ~connOpen
    BY <1>4, <2>1, <2>4 DEF vars, connVars
  <2> QED BY <2>3, <2>4
<1>8. CASE WritePiece
  <2>1. /\ out # <<>> /\ Head(out).tag \notin Tags /\ out' = Tail(out)
        /\ UNCHANGED <<ctx, taken, handed, written, finished, active, writing, connOpen, held>>
    BY <1>8 DEF WritePiece, connVars
  <2>2. /\ Head(out) = out[1] /\ DOMAIN out' = 1..Len(out) - 1
        /\ \A i \in 1..Len(out) - 1 : out'[i] = out[i + 1]
    BY <1>1, <2>1, Taking
  <2>3. \A i \in DOMAIN out' : i + 1 \in DOMAIN out /\ out'[i] = out[i + 1]
    BY <1>3, <2>2
  <2>4. \A i \in DOMAIN out : out[i].tag \in Tags => i - 1 \in DOMAIN out' /\ out'[i - 1] = out[i]
    <3> SUFFICES ASSUME NEW i \in DOMAIN out, out[i].tag \in Tags
                 PROVE  i - 1 \in DOMAIN out' /\ out'[i - 1] = out[i]
      OBVIOUS
    <3>1. i # 1
      BY <2>1, <2>2
    <3>2. i - 1 \in 1..Len(out) - 1 /\ (i - 1) + 1 = i
      BY <1>3, <3>1
    <3> QED BY <2>2, <3>2
  <2> QED BY <1>2, <2>1, <2>3, <2>4, StreamsAreLeft
<1>9. CASE WriteBuffer
  BY <1>1, <1>9, WriteDoneStep DEF WriteBuffer
<1>10. CASE ConnectionEnds \/ WriteError \/ Destroyed \/ ReleaseEntry
  <2>1. Ends
    BY <1>10 DEF ConnectionEnds, WriteError, Destroyed, ReleaseEntry, Ends
  <2> QED BY <1>1, <1>2, <2>1, EndStep
<1>11. CASE StrandTask
  <2>1. \/ \E t \in Tags : BpSendRawBuf(t)
        \/ SendFinished
        \/ EntryTerminates
    BY <1>11 DEF StrandTask
  <2>2. written' = written
    BY <2>1 DEF BpSendRawBuf, SendFinished, EntryTerminates
  <2>3. EntryTerminates => Ends
    BY DEF Ends
  <2> QED BY <1>1, <1>2, <2>1, <2>2, <2>3, BpSendStep, SendFinishedStep, EndStep
<1>12. CASE UNCHANGED sendVars
  BY <1>4, <1>12 DEF sendVars
<1> QED BY <1>5, <1>6, <1>7, <1>8, <1>9, <1>10, <1>11, <1>12 DEF SendNext

(* No stream has begun. *)
LEMMA StreamsInit == SendInit => Typed(Elements) /\ BackPressureInv
<1> SUFFICES ASSUME SendInit PROVE Typed(Elements) /\ BackPressureInv
  OBVIOUS
<1>1. TypeOK /\ BackPressureInv /\ SendInv
  BY BackPressureInit, SendInvInit DEF SendInit
<1>2. out \in Seq(Elements)
  BY <1>1 DEF SendInv, SendTypeOK
<1> QED BY <1>1, <1>2 DEF TypeOK, Typed, Ctx

(* The invariant of back pressure holds among sends of other threads,        *)
(* packages and heartbeats, which share the connection with the streams.     *)
THEOREM StreamsInvariant == SendSpec => [](SendInv /\ Typed(Elements) /\ BackPressureInv)
<1>1. SendInv /\ Typed(Elements) /\ BackPressureInv /\ [SendNext]_sendVars
        => (SendInv /\ Typed(Elements) /\ BackPressureInv)'
  BY SendInvStep, StreamsStep
<1> QED BY SendInvInit, StreamsInit, <1>1, PTL DEF SendSpec

(* bp_send_raw_buf and send_finished keep one buffer of a stream under way,  *)
(* in_flight counts it, and the connection has no piece twice.               *)
THEOREM OneBufferAmongSends == SendSpec => []OneInFlight
<1>1. BackPressureInv => OneInFlight
  BY DEF BackPressureInv
<1> QED BY StreamsInvariant, <1>1, PTL

(* Nothing that other senders do makes a stream go back.                     *)
THEOREM NoStreamGoesBack == SendSpec => NeverGoesBack
<1>1. SendInv /\ SendInv' /\ Typed(Elements) /\ BackPressureInv /\ [SendNext]_sendVars
        => [\A t \in Tags : written'[t] >= written[t]]_vars
  BY StreamsStep
<1> QED BY StreamsInvariant, <1>1, PTL DEF SendSpec, NeverGoesBack
================================================================================
