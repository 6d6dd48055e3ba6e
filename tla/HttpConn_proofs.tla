--------------------------- MODULE HttpConn_proofs ---------------------------
(***************************************************************************)
(* The properties of HttpConn for files of any size and any bounds.        *)
(***************************************************************************)
EXTENDS HttpConn, SequenceTheorems, FiniteSetTheorems, TLAPS

LEMMA BoundsAreNat ==
  /\ FileSize \in Nat /\ MaxHeaders \in Nat
  /\ MaxItems \in Nat /\ MaxRequests \in Nat
BY HttpConstants

-----------------------------------------------------------------------------
(* What the steps do.                                                      *)

Started(kind) == [kind |-> kind, id |-> answered + 1, rest |-> FileSize,
                  buf |-> "none"]

\* A response of the length len, with a body of its own or one that follows.
Answers(keep, len, body, close) ==
  /\ keep \in BOOLEAN /\ close \in BOOLEAN /\ len \in {0, 1, FileSize}
  /\ resp' = resp \o <<HeadOf(keep, len)>> \o body
  /\ answered' = answered + 1 /\ closing' = close /\ req' = NoReq
  /\ ~ keep => close
  /\ "error" \in met' \/ (close => ~ keep)
  /\ \/ UNCHANGED <<xfer, file>> /\ body = <<>> /\ len = 0
     \/ UNCHANGED <<xfer, file>> /\ body = <<Body(answered + 1)>> /\ len = 1
     \/ xfer' = Started("get") /\ file' = "open" /\ body = <<>> /\ len = FileSize
     \/ xfer' = Started("list") /\ file' = file /\ body = <<>> /\ len = FileSize
     \/ xfer' = Started("put") /\ file' = "open" /\ body = <<>> /\ len = 0
     \/ /\ xfer' = Started("put") /\ file' = "open"
        /\ body = <<Body(answered + 1)>> /\ len = 1
  /\ met' \in {met, met \cup {"error"}, met \cup {"overfull"},
              met \cup {"misconfigured"}}

\* Two responses for one request.
Second(keep) == <<[HeadOf(keep, 1) EXCEPT !.id = answered + 2], Body(answered + 2)>>

Twice(keep, len) ==
  /\ keep \in BOOLEAN /\ len \in {0, 1, FileSize}
  /\ resp' = resp \o (<<HeadOf(keep, len)>> \o Second(keep))
  /\ answered' = answered + 2 /\ closing' = ~ keep /\ req' = NoReq
  /\ \/ UNCHANGED <<xfer, file>>
     \/ xfer' = Started("get") /\ file' = "open"
     \/ xfer' = Started("list") /\ file' = file
  /\ met' = met \cup {"misconfigured"}

\* A line of a request that is not answered yet.
Remembers(item) ==
  /\ UNCHANGED <<answered, resp, closing, xfer, file>>
  /\ \/ /\ ~ req.has /\ item.kind = "line" /\ met' = met
        /\ req' = [req EXCEPT !.has = TRUE, !.ver = item.ver]
     \/ /\ ~ req.has /\ item.kind = "nameless" /\ met' = met \cup {"nameless"}
        /\ req' = [req EXCEPT !.ver = item.ver]
     \/ /\ req.has /\ item.kind # "end" /\ met' = met
        /\ LET again == item.conn # "none" /\ req.conn # "none" IN
           req' = [req EXCEPT !.n = IF again THEN @ ELSE @ + 1,
                              !.conn = IF again THEN "other"
                                       ELSE IF item.conn = "none" THEN @
                                       ELSE item.conn]

\* Without a request line there are no headers; and a version only from a line
\* without a method.
Fresh == ~ req.has => req.conn = "none" /\ (req.ver # 11 \/ "nameless" \in met)

LEMMA PersistentBoolean == \A r : Persistent(r) \in BOOLEAN
BY DEF Persistent

LEMMA ErrorAnswers ==
  ASSUME ~ closing, NEW r, ErrorResponse(r),
         \/ UNCHANGED <<xfer, file>>
         \/ NewXfer("put"),
         met' \in {met, met \cup {"overfull"}, met \cup {"misconfigured"}}
  PROVE  Answers(Persistent(r), 1, <<Body(answered + 1)>>, ~ Persistent(r))
<1>1. Persistent(r) \in BOOLEAN
  BY PersistentBoolean
<1>2. closing' = ~ Persistent(r)
  BY <1>1 DEF ErrorResponse, Respond
<1> HIDE DEF Persistent
<1>3. UNCHANGED <<xfer, file>> \/ (xfer' = Started("put") /\ file' = "open")
  BY DEF NewXfer, Started
<1> QED
  BY <1>1, <1>2, <1>3 DEF ErrorResponse, Respond, Answers

LEMMA TwiceAnswers ==
  ASSUME ~ closing, NEW keep \in BOOLEAN, NEW len \in {0, FileSize},
         RespondTwice(keep, len), met' = met \cup {"misconfigured"},
         \/ UNCHANGED <<xfer, file>>
         \/ NewXfer("get") \/ NewXfer("list")
  PROVE  Twice(keep, len)
<1>1. \A h, g, b : <<h, g, b>> = <<h>> \o <<g, b>>
  OBVIOUS
<1>2. /\ resp' = resp \o (<<HeadOf(keep, len)>> \o Second(keep))
      /\ answered' = answered + 2 /\ closing' = ~ keep /\ req' = NoReq
  BY <1>1 DEF RespondTwice, Second
<1>3. \/ UNCHANGED <<xfer, file>>
      \/ xfer' = Started("get") /\ file' = "open"
      \/ xfer' = Started("list") /\ file' = file
  BY DEF NewXfer, Started
<1> QED
  BY <1>2, <1>3 DEF Twice

LEMMA ExecuteAnswers ==
  ASSUME ~ closing, Execute
  PROVE  \/ \E keep, len, body, close : Answers(keep, len, body, close)
         \/ \E keep, len : Twice(keep, len)
<1> DEFINE keep == Persistent(req)
<1>1. keep \in BOOLEAN
  BY PersistentBoolean
<1>2. \/ (GetFile(keep) \/ GetListing \/ PutFile(keep) \/ AnswerPlainly(keep)
            \/ RefuseCommand) /\ UNCHANGED met
      \/ FailCommand(keep)
      \/ Misconfigured(keep)
  BY DEF Execute
<1>3. CASE RefuseCommand /\ UNCHANGED met
  BY <1>3, ErrorAnswers DEF RefuseCommand
<1>9. CASE Misconfigured(keep)
  <2>1. met' = met \cup {"misconfigured"}
    BY <1>9 DEF Misconfigured, Meet
  <2>2. CASE ErrorResponse(req) /\ NewXfer("put")
    BY <2>1, <2>2, ErrorAnswers
  <2> HIDE DEF keep
  <2>3. CASE RespondTwice(keep, FileSize) /\ NewXfer("get")
    BY <1>1, <2>1, <2>3, TwiceAnswers
  <2>4. CASE /\ RespondTwice(FALSE, FileSize)
             /\ NewXfer("list") \/ UNCHANGED <<xfer, file>>
    BY <2>1, <2>4, TwiceAnswers
  <2>5. CASE RespondTwice(keep, 0) /\ UNCHANGED <<xfer, file>>
    BY <1>1, <2>1, <2>5, TwiceAnswers
  <2> QED
    BY <1>9, <2>2, <2>3, <2>4, <2>5 DEF Misconfigured
<1> HIDE DEF keep
<1>4. CASE GetFile(keep) /\ UNCHANGED met
  <2>1. Answers(keep, FileSize, <<>>, ~ keep)
    BY <1>1, <1>4 DEF GetFile, Respond, NewXfer, Answers, Started
  <2> QED
    BY <2>1
<1>5. CASE GetListing /\ UNCHANGED met
  <2>1. Answers(FALSE, FileSize, <<>>, TRUE) \/ Answers(FALSE, 0, <<>>, TRUE)
    BY <1>5 DEF GetListing, Respond, NewXfer, Answers, Started
  <2> QED
    BY <2>1
<1>6. CASE PutFile(keep) /\ UNCHANGED met
  <2>1. Answers(keep, 0, <<>>, ~ keep)
    BY <1>1, <1>6 DEF PutFile, Respond, NewXfer, Answers, Started
  <2> QED
    BY <2>1
<1>7. CASE AnswerPlainly(keep) /\ UNCHANGED met
  <2>1. Answers(keep, 0, <<>>, ~ keep)
    BY <1>1, <1>7 DEF AnswerPlainly, Respond, Answers
  <2> QED
    BY <2>1
<1>8. CASE FailCommand(keep)
  <2>1. Answers(keep, 1, <<Body(answered + 1)>>, TRUE)
    BY <1>1, <1>8 DEF FailCommand, Respond, Answers, Meet
  <2> QED
    BY <2>1
<1> QED
  BY <1>2, <1>3, <1>4, <1>5, <1>6, <1>7, <1>8, <1>9

\* A line is remembered, or answered: as the end of a request, or as something
\* that is no request, after which the connection is to be closed unless a line
\* without a method has left its version, or after too many headers.
LEMMA Interpreted ==
  ASSUME ~ closing, Fresh, NEW item, Interpret(item)
  PROVE  \/ Remembers(item)
         \/ req.has /\ \E keep, len : Twice(keep, len)
         \/ \E keep, len, body, close :
              /\ Answers(keep, len, body, close)
              /\ \/ req.has /\ item.kind = "end"
                 \/ ~ req.has /\ item.kind # "line" /\ close
                 \/ "overfull" \in met' \/ "nameless" \in met'
<1>1. CASE ~ req.has /\ item.kind \notin {"line", "nameless"}
  <2>1. ErrorResponse(req) \/ ErrorResponse(NoReq)
    BY <1>1 DEF Interpret
  <2>2. UNCHANGED <<xfer, file, met>>
    BY <1>1 DEF Interpret
  <2>3. ~ Persistent(NoReq)
    BY DEF Persistent, NoReq
  <2>4. ~ Persistent(req) \/ "nameless" \in met'
    BY <1>1, <2>2 DEF Persistent, Fresh
  <2>5. CASE ErrorResponse(NoReq)
    <3>1. Answers(Persistent(NoReq), 1, <<Body(answered + 1)>>, ~ Persistent(NoReq))
      BY <2>2, <2>5, ErrorAnswers
    <3> QED
      BY <1>1, <2>3, <3>1
  <2>6. CASE ErrorResponse(req)
    <3>1. Answers(Persistent(req), 1, <<Body(answered + 1)>>, ~ Persistent(req))
      BY <2>2, <2>6, ErrorAnswers
    <3> QED
      BY <1>1, <2>4, <3>1
  <2> QED
    BY <2>1, <2>5, <2>6
<1>2. CASE req.has /\ item.kind # "end" /\ req.n > MaxHeaders
  <2>1. \/ ErrorResponse(req) /\ UNCHANGED <<xfer, file>>
           /\ met' = met \cup {"overfull"}
        \/ Remembers(item)
    BY <1>2 DEF Interpret, Meet, Remembers
  <2> QED
    BY <1>2, <2>1, ErrorAnswers
<1>3. CASE req.has /\ item.kind = "end"
  <2>1. Execute
    BY <1>3 DEF Interpret
  <2> QED
    BY <1>3, <2>1, ExecuteAnswers
<1>4. CASE \/ ~ req.has /\ item.kind \in {"line", "nameless"}
           \/ req.has /\ item.kind # "end" /\ ~ (req.n > MaxHeaders)
  BY <1>4 DEF Interpret, Remembers, Meet
<1> QED
  BY <1>1, <1>2, <1>3, <1>4

\* How many pieces of a transfer are still to be written.
Left(buf, rest) == rest + (IF buf = "full" THEN 1 ELSE 0)

Buffers == {"none", "empty", "full"}

\* A call of the pump loses nothing, and ends when nothing is left.
LEMMA PumpCounts ==
  ASSUME NEW x, x.rest \in 0..FileSize, x.buf \in Buffers, NEW m \in Io(x)
  PROVE  /\ m.buf \in Buffers /\ m.rest \in 0..FileSize /\ m.sent \in Nat
         /\ m.end \in {"more", "done", "limit"}
         /\ m.sent + Left(m.buf, m.rest) = Left(x.buf, x.rest)
         /\ m.end = "done" => Left(m.buf, m.rest) = 0
<1>1. x.rest \in Nat /\ x.rest <= FileSize /\ FileSize \in Nat
  BY BoundsAreNat
<1>2. ASSUME NEW sent \in {0, 1}, m \in Refill(x.rest, sent)
      PROVE  /\ m.buf \in Buffers /\ m.rest \in 0..FileSize /\ m.sent \in Nat
             /\ m.end \in {"more", "done", "limit"}
             /\ m.sent + Left(m.buf, m.rest) = sent + x.rest
             /\ m.end = "done" => Left(m.buf, m.rest) = 0
  BY <1>1, <1>2 DEF Refill, Moves, Left, Buffers
<1>3. CASE x.buf = "none" /\ m \in SystemSendfile(x.rest)
  <2>1. CASE x.rest = 0
    BY <1>1, <1>3, <2>1 DEF SystemSendfile, Moves, Left, Buffers
  <2>2. CASE x.rest # 0
    <3>1. PICK k \in 0..x.rest : m \in {Moves("none", x.rest - k, k, "more"),
                                        Moves("none", x.rest - k, k, "limit")}
      BY <1>1, <1>3, <2>2 DEF SystemSendfile
    <3> QED
      BY <1>1, <1>3, <3>1 DEF Moves, Left, Buffers
  <2> QED
    BY <2>1, <2>2
<1>4. CASE x.buf = "none" /\ m \in Refill(x.rest, 0)
  BY <1>1, <1>2, <1>4 DEF Left
<1>5. CASE x.buf = "full" /\ m = Moves("full", x.rest, 0, "more")
  BY <1>1, <1>5 DEF Moves, Left, Buffers
<1>6. CASE x.buf = "full" /\ m \in Refill(x.rest, 1)
  BY <1>1, <1>2, <1>6 DEF Left
<1>7. CASE x.buf = "empty" /\ m \in Refill(x.rest, 0)
  BY <1>1, <1>2, <1>7 DEF Left
<1>8. \/ x.buf = "none" /\ m \in SystemSendfile(x.rest)
      \/ x.buf = "none" /\ m \in Refill(x.rest, 0)
      \/ x.buf = "full" /\ m = Moves("full", x.rest, 0, "more")
      \/ x.buf = "full" /\ m \in Refill(x.rest, 1)
      \/ x.buf = "empty" /\ m \in Refill(x.rest, 0)
  BY DEF Io, Buffers
<1> QED
  BY <1>3, <1>4, <1>5, <1>6, <1>7, <1>8

LEMMA FlushIs ==
  ASSUME NEW x, x.rest \in 0..FileSize, NEW m \in Flush(x)
  PROVE  /\ m.buf \in Buffers /\ m.rest \in 0..FileSize /\ m.sent \in Nat
         /\ m.end \in {"more", "done"}
BY DEF Flush, Moves, Buffers

-----------------------------------------------------------------------------
(* Types. Every response is begun for an item that is read.                *)

One(b) == IF b THEN 1 ELSE 0

Kinds == {"none", "get", "list", "put"}

Requests == [has : BOOLEAN, ver : {0} \cup Versions, conn : Connections, n : Nat]
Transfers == [kind : Kinds, id : 0..MaxItems, rest : 0..FileSize, buf : Buffers]

Typed ==
  /\ asked \in 0..MaxRequests /\ items \in 0..MaxItems
  /\ typing \in BOOLEAN /\ eof \in BOOLEAN
  /\ begun \in BOOLEAN /\ closing \in BOOLEAN
  /\ inq \in Seq(Items) /\ resp \in Seq(Tokens) /\ got \in Seq(Tokens)
  /\ req \in Requests /\ answered \in 0..MaxItems /\ xfer \in Transfers
  /\ file \in {"none", "open", "doomed"}
  /\ phase \in {"wait", "body", "write", "gone"}
  /\ why \in {"none", "done", "lost"}
  /\ met \subseteq Mishaps
  /\ answered + Len(inq) + One(req.has) <= items
  /\ Fresh

LEMMA TypedGives == Typed => TypeOK
BY DEF Typed, TypeOK, Requests, Transfers, Kinds, Buffers

LEMMA NothingQueued ==
  ASSUME NEW S
  PROVE  <<>> \in Seq(S) /\ Len(<<>>) = 0
OBVIOUS

LEMMA InitTyped == Init => Typed
<1> SUFFICES ASSUME Init PROVE Typed
  OBVIOUS
<1>1. inq \in Seq(Items) /\ resp \in Seq(Tokens) /\ got \in Seq(Tokens)
  BY NothingQueued, Zenon DEF Init
<1>2. Len(inq) = 0
  BY NothingQueued, Zenon DEF Init
<1>3. req \in Requests /\ xfer \in Transfers
  BY BoundsAreNat DEF Init, NoReq, NoXfer, Requests, Connections, Transfers,
                      Kinds, Buffers
<1>4. /\ asked \in 0..MaxRequests /\ items \in 0..MaxItems
      /\ answered \in 0..MaxItems /\ answered + 0 + One(req.has) <= items
  BY BoundsAreNat DEF Init, NoReq, One
<1>5. /\ typing \in BOOLEAN /\ eof \in BOOLEAN
      /\ begun \in BOOLEAN /\ closing \in BOOLEAN
      /\ file \in {"none", "open", "doomed"}
      /\ phase \in {"wait", "body", "write", "gone"}
      /\ why \in {"none", "done", "lost"}
      /\ met \subseteq Mishaps
  BY DEF Init
<1>6. Fresh
  <2>1. req.conn = "none" /\ req.ver = 0
    BY DEF Init, NoReq
  <2> QED
    BY <2>1 DEF Fresh
<1> QED
  BY <1>1, <1>2, <1>3, <1>4, <1>5, <1>6 DEF Typed

\* One more item, and one less.
LEMMA Queued ==
  ASSUME NEW S, NEW s \in Seq(S), NEW e \in S
  PROVE  Append(s, e) \in Seq(S) /\ Len(Append(s, e)) = Len(s) + 1
OBVIOUS

LEMMA Dequeued ==
  ASSUME NEW S, NEW s \in Seq(S), s # <<>>
  PROVE  /\ s[1] \in S /\ Tail(s) \in Seq(S)
         /\ Len(s) \in Nat \ {0} /\ Len(Tail(s)) = Len(s) - 1
OBVIOUS

LEMMA Joined ==
  ASSUME NEW S, NEW s \in Seq(S), NEW t \in Seq(S)
  PROVE  /\ s \o t \in Seq(S)
         /\ Len(s) \in Nat /\ Len(t) \in Nat
         /\ Len(s \o t) = Len(s) + Len(t)
         /\ \A i \in 1..Len(s) : (s \o t)[i] = s[i]
         /\ \A i \in 1..Len(t) : (s \o t)[Len(s) + i] = t[i]
OBVIOUS

LEMMA TokensMade ==
  ASSUME Typed, answered + 1 <= MaxItems
  PROVE  /\ \A keep \in BOOLEAN, len \in {0, 1, FileSize} : HeadOf(keep, len) \in Tokens
         /\ Body(answered + 1) \in Tokens
         /\ \A kind \in Kinds : Started(kind) \in Transfers
<1>1. answered \in 0..MaxItems /\ answered + 1 \in 0..MaxItems
  BY BoundsAreNat DEF Typed
<1>2. {0, 1, FileSize} \subseteq Nat
  BY BoundsAreNat
<1> QED
  BY <1>1, <1>2, BoundsAreNat DEF HeadOf, Body, Tokens, Started, Transfers, Buffers

LEMMA PiecesMade ==
  ASSUME Typed, NEW k \in Nat
  PROVE  /\ Bodies(k) \in Seq(Tokens) /\ Len(Bodies(k)) = k
         /\ \A i \in 1..k : Bodies(k)[i] = Body(xfer.id)
<1>1. Body(xfer.id) \in Tokens
  BY DEF Typed, Body, Tokens, Transfers
<1> QED
  BY <1>1 DEF Bodies

LEMMA AskTyped ==
  ASSUME Typed, NEW item \in Items, Ask(item)
  PROVE  Typed'
<1>1. /\ items < MaxItems /\ items' = items + 1 /\ inq' = Append(inq, item)
      /\ UNCHANGED <<eof, server, phase, got, why, met>>
      /\ \/ asked < MaxRequests /\ asked' = asked + 1 /\ typing' = TRUE
         \/ UNCHANGED <<asked, typing>>
         \/ typing' = FALSE /\ UNCHANGED asked
  BY DEF Ask
<1>2. inq' \in Seq(Items) /\ Len(inq') = Len(inq) + 1 /\ Len(inq) \in Nat
  BY <1>1, Queued DEF Typed
<1>3. asked' \in 0..MaxRequests /\ items' \in 0..MaxItems /\ typing' \in BOOLEAN
  <2>1. asked \in Nat /\ asked <= MaxRequests /\ items \in Nat /\ typing \in BOOLEAN
    BY DEF Typed
  <2>2. items' \in 0..MaxItems
    BY <1>1, <2>1, BoundsAreNat
  <2>3. asked' \in 0..MaxRequests
    BY <1>1, <2>1, BoundsAreNat
  <2>4. typing' \in BOOLEAN
    BY <1>1, <2>1
  <2> QED
    BY <2>2, <2>3, <2>4
<1>4. UNCHANGED <<eof, req, answered, resp, begun, closing, xfer, file, phase, got,
                  why, met>>
  BY <1>1 DEF server
<1>5. answered' + Len(inq') + One(req'.has) <= items' /\ answered' \in 0..MaxItems
  BY <1>1, <1>2, <1>4, BoundsAreNat DEF Typed, One
<1>6. Fresh'
  BY <1>4 DEF Typed, Fresh
<1> QED
  BY <1>2, <1>3, <1>4, <1>5, <1>6 DEF Typed

\* The second response of a request.
LEMMA SecondMade ==
  ASSUME Typed, answered + 2 <= MaxItems, NEW keep \in BOOLEAN,
         NEW len \in {0, 1, FileSize}
  PROVE  <<HeadOf(keep, len)>> \o Second(keep) \in Seq(Tokens)
<1>1. answered \in Nat /\ MaxItems \in Nat /\ answered + 2 <= MaxItems
  BY BoundsAreNat DEF Typed
<1>2. answered + 1 \in 0..MaxItems /\ answered + 2 \in 0..MaxItems
  BY <1>1
<1>3. len \in Nat
  BY BoundsAreNat
<1>4. /\ HeadOf(keep, len) \in Tokens
      /\ [HeadOf(keep, 1) EXCEPT !.id = answered + 2] \in Tokens
      /\ Body(answered + 2) \in Tokens
  BY <1>2, <1>3 DEF HeadOf, Body, Tokens
<1>5. <<HeadOf(keep, len)>> \in Seq(Tokens) /\ Second(keep) \in Seq(Tokens)
  BY <1>4 DEF Second
<1> QED
  BY <1>5, Joined

LEMMA RemembersTyped ==
  ASSUME Typed, NEW item \in Items, Remembers(item)
  PROVE  req' \in Requests /\ met' \subseteq Mishaps /\ Fresh'
<1>1. req \in Requests /\ met \subseteq Mishaps /\ Fresh
  BY DEF Typed
<1>2. CASE /\ ~ req.has /\ met' = met
           /\ req' = [req EXCEPT !.has = TRUE, !.ver = item.ver]
  BY <1>1, <1>2 DEF Items, Requests, Fresh
<1>3. CASE /\ ~ req.has /\ met' = met \cup {"nameless"}
           /\ req' = [req EXCEPT !.ver = item.ver]
  BY <1>1, <1>3 DEF Items, Requests, Fresh, Mishaps
<1>4. CASE /\ req.has /\ met' = met
           /\ LET again == item.conn # "none" /\ req.conn # "none" IN
              req' = [req EXCEPT !.n = IF again THEN @ ELSE @ + 1,
                                 !.conn = IF again THEN "other"
                                          ELSE IF item.conn = "none" THEN @
                                          ELSE item.conn]
  <2>1. item.conn \in Connections /\ req.conn \in Connections /\ req.n \in Nat
    BY <1>1 DEF Items, Requests
  <2> DEFINE again == item.conn # "none" /\ req.conn # "none"
             n == IF again THEN req.n ELSE req.n + 1
             conn == IF again THEN "other"
                     ELSE IF item.conn = "none" THEN req.conn ELSE item.conn
  <2>2. n \in Nat /\ conn \in Connections
    BY <2>1 DEF Connections
  <2>3. req' = [req EXCEPT !.n = n, !.conn = conn]
    BY <1>1, <1>4, <2>1 DEF Requests
  <2> HIDE DEF n, conn
  <2>4. req' \in Requests /\ req'.has
    BY <1>1, <1>4, <2>2, <2>3 DEF Requests
  <2> QED
    BY <1>1, <1>4, <2>4 DEF Fresh
<1> QED
  BY <1>2, <1>3, <1>4 DEF Remembers

LEMMA ReadLineRoom ==
  ASSUME Typed, inq # <<>>
  PROVE  answered + 1 <= MaxItems /\ (req.has => answered + 2 <= MaxItems)
<1>1. inq \in Seq(Items)
  BY DEF Typed
<1>2. Len(inq) \in Nat \ {0}
  BY <1>1, Dequeued
<1>3. /\ answered \in Nat /\ items \in Nat /\ items <= MaxItems /\ MaxItems \in Nat
      /\ answered + Len(inq) + One(req.has) <= items /\ One(req.has) \in Nat
      /\ req.has => One(req.has) = 1
  BY BoundsAreNat DEF Typed, One
<1> QED
  BY <1>2, <1>3

LEMMA ReadLineTyped ==
  ASSUME Typed, ReadLine
  PROVE  Typed'
<1>1. /\ ~ closing /\ inq # <<>> /\ inq' = Tail(inq) /\ Interpret(inq[1])
      /\ phase' = IF xfer'.kind = "put" THEN "body" ELSE "write"
      /\ UNCHANGED <<asked, items, typing, eof, begun, got, why>>
  BY DEF ReadLine
<1>2. /\ inq[1] \in Items /\ inq' \in Seq(Items)
      /\ Len(inq) \in Nat \ {0} /\ Len(inq') = Len(inq) - 1
  BY <1>1, Dequeued DEF Typed
<1>3. /\ answered \in Nat /\ items \in Nat /\ items <= MaxItems
      /\ answered + Len(inq) + One(req.has) <= items /\ MaxItems \in Nat
      /\ req.has \in BOOLEAN
  BY BoundsAreNat DEF Typed, Requests
<1>4. /\ answered + 1 <= MaxItems /\ answered + 1 + Len(inq') <= items
      /\ req.has => answered + 2 <= MaxItems /\ answered + 2 + Len(inq') <= items
  BY <1>2, <1>3 DEF One
<1>5. NoReq \in Requests /\ ~ NoReq.has /\ NoReq.conn = "none" /\ NoReq.ver # 11
  BY DEF NoReq, Connections, Requests
<1>6. CASE Remembers(inq[1])
  <2>1. req' \in Requests /\ met' \subseteq Mishaps /\ Fresh'
    BY <1>2, <1>6, RemembersTyped
  <2>2. /\ UNCHANGED <<answered, resp, closing, xfer, file>>
        /\ req'.has = req.has \/ ~ req.has
    BY <1>3, <1>6 DEF Remembers, Typed, Requests
  <2>3. req'.has \in BOOLEAN
    BY <2>1 DEF Requests
  <2>4. answered' + Len(inq') + One(req'.has) <= items'
    BY <1>1, <1>2, <1>3, <1>4, <2>2, <2>3 DEF One
  <2> QED
    BY <1>1, <1>2, <2>1, <2>2, <2>4 DEF Typed
<1>7. ASSUME NEW keep, NEW len, NEW body, NEW close,
             Answers(keep, len, body, close)
      PROVE  Typed'
  <2>1. /\ answered' = answered + 1 /\ closing' = close /\ req' = NoReq
        /\ keep \in BOOLEAN /\ close \in BOOLEAN /\ len \in {0, 1, FileSize}
    BY <1>7 DEF Answers
  <2>2. resp' \in Seq(Tokens)
    <3>1. HeadOf(keep, len) \in Tokens /\ Body(answered + 1) \in Tokens
      BY <1>4, <2>1, TokensMade
    <3>2. body \in Seq(Tokens)
      <4>1. body = <<>> \/ body = <<Body(answered + 1)>>
        BY <1>7 DEF Answers
      <4>2. <<>> \in Seq(Tokens) /\ <<Body(answered + 1)>> \in Seq(Tokens)
        BY <3>1
      <4> QED
        BY <4>1, <4>2, Zenon
    <3>3. <<HeadOf(keep, len)>> \in Seq(Tokens)
      BY <3>1
    <3>4. resp \o <<HeadOf(keep, len)>> \in Seq(Tokens)
      BY <3>3, Joined DEF Typed
    <3>5. (resp \o <<HeadOf(keep, len)>>) \o body \in Seq(Tokens)
      BY <3>2, <3>4, Joined
    <3> QED
      BY <1>7, <3>5 DEF Answers
  <2>3. /\ xfer' = xfer \/ \E kind \in Kinds : xfer' = Started(kind)
        /\ file' \in {file, "open"}
    BY <1>7 DEF Answers, Kinds
  <2>4. xfer' \in Transfers
    BY <1>4, <2>3, TokensMade DEF Typed
  <2>5. met' \subseteq Mishaps
    BY <1>7 DEF Typed, Answers, Mishaps
  <2>6. answered' + Len(inq') + One(req'.has) <= items' /\ Fresh'
    BY <1>1, <1>2, <1>3, <1>4, <1>5, <2>1 DEF One, Fresh
  <2> QED
    BY <1>1, <1>2, <1>3, <1>4, <1>5, <2>1, <2>2, <2>3, <2>4, <2>5, <2>6 DEF Typed
<1>8. ASSUME req.has, NEW keep, NEW len, Twice(keep, len)
      PROVE  Typed'
  <2>1. /\ answered' = answered + 2 /\ closing' = ~ keep /\ req' = NoReq
        /\ keep \in BOOLEAN /\ len \in {0, 1, FileSize}
        /\ met' = met \cup {"misconfigured"}
        /\ xfer' = xfer \/ \E kind \in Kinds : xfer' = Started(kind)
        /\ file' \in {file, "open"}
    BY <1>8 DEF Twice, Kinds
  <2>2. resp' \in Seq(Tokens)
    <3>1. <<HeadOf(keep, len)>> \o Second(keep) \in Seq(Tokens)
      BY <1>4, <1>8, <2>1, SecondMade
    <3> QED
      BY <1>8, <3>1, Joined DEF Twice, Typed
  <2>3. xfer' \in Transfers
    BY <1>4, <2>1, TokensMade DEF Typed
  <2>4. met' \subseteq Mishaps
    BY <2>1 DEF Typed, Mishaps
  <2>5. answered' + Len(inq') + One(req'.has) <= items' /\ Fresh'
    BY <1>1, <1>2, <1>3, <1>4, <1>5, <1>8, <2>1 DEF One, Fresh
  <2> QED
    BY <1>1, <1>2, <1>3, <1>4, <1>5, <1>8, <2>1, <2>2, <2>3, <2>4, <2>5 DEF Typed
<1>9. Fresh
  BY DEF Typed
<1> QED
  BY <1>1, <1>6, <1>7, <1>8, <1>9, Interpreted

-----------------------------------------------------------------------------
(* Transfers. The one there is belongs to the last response; what is        *)
(* buffered of it waits for nothing that is queued; and its file is open,  *)
(* if there has been no mishap.                                            *)

Mishap ==
  ~ Without({"timeout", "limit", "broken", "full", "misconfigured"})

Xferring ==
  /\ xfer.kind # "none" =>
       answered >= 1 /\ ("misconfigured" \in met \/ xfer.id = answered)
  /\ xfer.buf # "none" => resp = <<>> /\ xfer.kind = "get"
  /\ file = "doomed" => Mishap
  /\ xfer.kind = "get" /\ file = "none" => Mishap
  /\ why = "none" \/ phase = "gone"

Pending == IF xfer.kind = "get" THEN Left(xfer.buf, xfer.rest)
           ELSE IF xfer.kind = "list" THEN xfer.rest ELSE 0

\* What may befall a transfer.
Befalls ==
  met' \in {met, met \cup {"limit"}, met \cup {"timeout"}, met \cup {"broken"},
           met \cup {"full"}}

LEMMA BefallsGives ==
  ASSUME Befalls
  PROVE  /\ Mishap => Mishap'
         /\ "misconfigured" \in met <=> "misconfigured" \in met'
         /\ "error" \in met <=> "error" \in met'
         /\ "overfull" \in met <=> "overfull" \in met'
         /\ "nameless" \in met <=> "nameless" \in met'
         /\ "full" \in met => "full" \in met'
         /\ Typed => met' \subseteq Mishaps
<1>1. met \subseteq met'
  BY DEF Befalls
<1>2. Mishap => Mishap'
  BY <1>1 DEF Mishap, Without
<1>3. met \subseteq Mishaps => met' \subseteq Mishaps
  BY DEF Befalls, Mishaps
<1> QED
  BY <1>2, <1>3 DEF Befalls, Typed

\* The transfer is further on.
MovesOn ==
  /\ xfer' \in Transfers /\ xfer'.kind = xfer.kind /\ xfer'.id = xfer.id
  /\ xfer'.buf # "none" => xfer.kind = "get"
  /\ file' = file \/ (file' = "doomed" /\ Mishap')

IsHead(t) == t.part = "head"

\* The tokens b of the transfer are written.
PieceOf(t) == t \in Tokens /\ ~ IsHead(t) /\ t.id = xfer.id

Sends(b) ==
  /\ phase # "gone" /\ resp = <<>> /\ xfer.kind \in {"get", "list"}
  /\ UNCHANGED <<client, req, answered, resp, begun, closing>>
  /\ b \in Seq(Tokens) /\ \A i \in 1..Len(b) : PieceOf(b[i])
  /\ "full" \in met' \/ \A i \in 1..Len(b) : b[i].part # "stray"
  /\ got' = got \o b
  /\ (xfer' = NoXfer /\ file' \in {file, "none"}) \/ MovesOn
  /\ Befalls
  /\ \/ why' = why /\ phase' = "wait"
     \/ why' = "lost" /\ phase' = "gone"
  /\ Mishap' \/ why' = "lost" \/ Pending = Len(b) + Pending'

LEMMA XferFields ==
  ASSUME Typed
  PROVE  /\ xfer = [kind |-> xfer.kind, id |-> xfer.id, rest |-> xfer.rest,
                    buf |-> xfer.buf]
         /\ xfer.kind \in Kinds /\ xfer.id \in 0..MaxItems
         /\ xfer.rest \in 0..FileSize /\ xfer.buf \in Buffers
BY DEF Typed, Transfers

LEMMA XferMoves ==
  ASSUME Typed, NEW buf \in Buffers, NEW rest \in 0..FileSize,
         xfer' = [xfer EXCEPT !.buf = buf, !.rest = rest]
  PROVE  /\ xfer' \in Transfers /\ xfer'.kind = xfer.kind /\ xfer'.id = xfer.id
         /\ xfer'.buf = buf /\ xfer'.rest = rest
BY DEF Typed, Transfers

LEMMA PiecesOf ==
  ASSUME Typed, NEW k \in Nat
  PROVE  /\ Bodies(k) \in Seq(Tokens) /\ Len(Bodies(k)) = k
         /\ \A i \in 1..Len(Bodies(k)) :
              PieceOf(Bodies(k)[i]) /\ Bodies(k)[i].part # "stray"
<1>1. Bodies(k) \in Seq(Tokens) /\ Len(Bodies(k)) = k
  BY PiecesMade
<1>2. \A i \in 1..k : Bodies(k)[i] = Body(xfer.id)
  BY PiecesMade
<1>3. Body(xfer.id) \in Tokens
  BY DEF Typed, Body, Tokens, Transfers
<1>4. PieceOf(Body(xfer.id)) /\ Body(xfer.id).part # "stray"
  BY <1>3 DEF PieceOf, Body, IsHead
<1> QED
  BY <1>1, <1>2, <1>4

LEMMA PumpSends ==
  ASSUME Typed, Xferring, xfer.kind = "get", resp = <<>>, phase # "gone",
         UNCHANGED <<client, req, answered, resp, begun, closing>>,
         NEW m \in Pump(xfer), got' = got \o Bodies(m.sent),
         \/ /\ m.end \in {"more", "limit"}
            /\ xfer' = [xfer EXCEPT !.buf = m.buf, !.rest = m.rest]
            /\ file' = file \/ (file' = "doomed" /\ Mishap')
         \/ m.end \in {"done", "limit"} /\ xfer' = NoXfer /\ file' = "none",
         Befalls,
         \/ why' = why /\ phase' = "wait"
         \/ why' = "lost" /\ phase' = "gone",
         why' = "lost" \/ xfer' # NoXfer \/ m.end = "done"
  PROVE  Sends(Bodies(m.sent))
<1>1. /\ xfer.rest \in 0..FileSize /\ xfer.buf \in Buffers
      /\ xfer = [kind |-> xfer.kind, id |-> xfer.id, rest |-> xfer.rest,
                 buf |-> xfer.buf]
  BY XferFields
<1>2. /\ m.buf \in Buffers /\ m.rest \in 0..FileSize /\ m.sent \in Nat
      /\ file # "none" =>
           /\ m.sent + Left(m.buf, m.rest) = Left(xfer.buf, xfer.rest)
           /\ m.end = "done" => Left(m.buf, m.rest) = 0
  <2>1. CASE file = "none"
    BY <1>1, <2>1, FlushIs DEF Pump
  <2>2. CASE file # "none"
    BY <1>1, <2>2, PumpCounts DEF Pump
  <2> QED
    BY <2>1, <2>2
<1>3. (xfer' = NoXfer /\ file' \in {file, "none"}) \/ MovesOn
  <2>1. CASE xfer' = NoXfer /\ file' = "none"
    BY <2>1
  <2>2. CASE /\ xfer' = [xfer EXCEPT !.buf = m.buf, !.rest = m.rest]
             /\ file' = file \/ (file' = "doomed" /\ Mishap')
    <3>1. /\ xfer' \in Transfers /\ xfer'.kind = xfer.kind
          /\ xfer'.id = xfer.id
      BY <1>2, <2>2, XferMoves
    <3> QED
      BY <2>2, <3>1 DEF MovesOn
  <2> QED
    BY <2>1, <2>2
<1>4. Mishap' \/ why' = "lost" \/ Pending = m.sent + Pending'
  <2>1. CASE file = "none"
    BY <2>1, BefallsGives DEF Xferring
  <2>2. CASE file # "none" /\ xfer' = NoXfer /\ m.end = "done"
    <3>1. Pending' = 0
      BY <2>2 DEF Pending, NoXfer
    <3>2. Pending = m.sent + 0 /\ Pending = Left(xfer.buf, xfer.rest)
      BY <1>2, <2>2 DEF Pending
    <3> QED
      BY <3>1, <3>2
  <2>3. CASE file # "none" /\ xfer' = [xfer EXCEPT !.buf = m.buf, !.rest = m.rest]
    <3>1. xfer'.kind = "get" /\ xfer'.buf = m.buf /\ xfer'.rest = m.rest
      BY <1>1, <2>3
    <3>2. Pending' = Left(m.buf, m.rest) /\ Pending = Left(xfer.buf, xfer.rest)
      BY <3>1 DEF Pending, Left
    <3> QED
      BY <1>2, <2>3, <3>2
  <2> QED
    BY <2>1, <2>2, <2>3
<1>5. /\ Bodies(m.sent) \in Seq(Tokens) /\ Len(Bodies(m.sent)) = m.sent
      /\ \A i \in 1..Len(Bodies(m.sent)) :
           PieceOf(Bodies(m.sent)[i]) /\ Bodies(m.sent)[i].part # "stray"
  BY <1>2, PiecesOf
<1> QED
  BY <1>3, <1>4, <1>5 DEF Sends

LEMMA WriteFileSends ==
  ASSUME Typed, Xferring, WriteFile
  PROVE  \E b : Sends(b)
<1>1. PICK m \in Pump(xfer) :
        /\ got' = got \o Bodies(m.sent)
        /\ \/ /\ m.end = "more"
              /\ xfer' = [xfer EXCEPT !.buf = m.buf, !.rest = m.rest]
              /\ phase' = "wait" /\ UNCHANGED <<file, why>>
           \/ /\ m.end = "done" /\ xfer' = NoXfer /\ file' = "none"
              /\ phase' = "wait" /\ UNCHANGED why
           \/ /\ m.end = "limit" /\ xfer' = NoXfer /\ file' = "none"
              /\ phase' = "gone" /\ why' = "lost"
  BY DEF WriteFile
<1>2. /\ resp = <<>> /\ xfer.kind = "get" /\ met' = met /\ phase # "gone"
      /\ UNCHANGED <<client, req, answered, resp, begun, closing>>
      /\ Befalls
  BY DEF WriteFile, Befalls
<1>3. Sends(Bodies(m.sent))
  <2>1. CASE /\ m.end = "more"
             /\ xfer' = [xfer EXCEPT !.buf = m.buf, !.rest = m.rest]
             /\ phase' = "wait" /\ UNCHANGED <<file, why>>
    <3>1. xfer'.kind = "get" /\ NoXfer.kind = "none"
      BY <1>2, <2>1, XferFields DEF NoXfer
    <3>2. xfer' # NoXfer
      BY <3>1
    <3> QED
      BY <1>1, <1>2, <2>1, <3>2, PumpSends
  <2>2. CASE /\ m.end = "done" /\ xfer' = NoXfer /\ file' = "none"
             /\ phase' = "wait" /\ UNCHANGED why
    BY <1>1, <1>2, <2>2, PumpSends
  <2>3. CASE /\ m.end = "limit" /\ xfer' = NoXfer /\ file' = "none"
             /\ phase' = "gone" /\ why' = "lost"
    BY <1>1, <1>2, <2>3, PumpSends
  <2> QED
    BY <1>1, <2>1, <2>2, <2>3
<1> QED
  BY <1>3

LEMMA MetMishap ==
  ASSUME NEW m \in {"timeout", "limit", "broken", "full"}, Meet(m)
  PROVE  Mishap' /\ Befalls /\ m \in met'
BY DEF Meet, Mishap, Without, Befalls

\* Nothing is written, and the transfer is further on or given up, after a
\* mishap.
LEMMA NothingSent ==
  ASSUME Typed, Xferring, xfer.kind \in {"get", "list"}, resp = <<>>,
         phase # "gone", phase' = "wait", why' = why,
         UNCHANGED <<client, req, answered, resp, begun, closing, got>>,
         Befalls, Mishap',
         (xfer' = NoXfer /\ file' \in {file, "none"}) \/ MovesOn
  PROVE  Sends(<<>>)
<1>1. got \in Seq(Tokens)
  BY DEF Typed
<1>2. got \o <<>> = got
  BY <1>1, ConcatEmptySeq
<1>3. <<>> \in Seq(Tokens) /\ Len(<<>>) = 0
  BY NothingQueued
<1>4. \A i \in 1..Len(<<>>) : FALSE
  BY <1>3
<1> QED
  BY <1>2, <1>3, <1>4 DEF Sends

LEMMA FilePumpsSends ==
  ASSUME Typed, Xferring, FilePumps
  PROVE  \E b : Sends(b)
<1>1. /\ phase = "wait" /\ xfer.kind = "get" /\ file = "open"
      /\ xfer.buf = "empty" /\ UNCHANGED <<why, phase>>
      /\ UNCHANGED <<client, req, answered, resp, begun, closing>>
  BY DEF FilePumps
<1>2. resp = <<>>
  BY <1>1 DEF Xferring
<1>3. CASE \E m \in Io(xfer) :
             /\ got' = got \o Bodies(m.sent)
             /\ xfer' = IF m.end = "done" THEN NoXfer
                        ELSE [xfer EXCEPT !.buf = m.buf, !.rest = m.rest]
             /\ file' = CASE m.end = "done" -> "none"
                          [] m.end = "limit" -> "doomed"
                          [] OTHER -> file
             /\ IF m.end = "limit" THEN Meet("limit") ELSE UNCHANGED met
  <2>1. PICK m \in Io(xfer) :
          /\ got' = got \o Bodies(m.sent)
          /\ xfer' = IF m.end = "done" THEN NoXfer
                     ELSE [xfer EXCEPT !.buf = m.buf, !.rest = m.rest]
          /\ file' = CASE m.end = "done" -> "none"
                       [] m.end = "limit" -> "doomed"
                       [] OTHER -> file
          /\ IF m.end = "limit" THEN Meet("limit") ELSE UNCHANGED met
    BY <1>3
  <2>2. m \in Pump(xfer)
    BY <1>1, <2>1 DEF Pump
  <2>3. m.end \in {"more", "done", "limit"}
    BY <2>1, XferFields, PumpCounts
  <2>4. Befalls
    <3>1. CASE m.end = "limit"
      BY <2>1, <3>1, MetMishap
    <3>2. CASE m.end # "limit"
      BY <2>1, <3>2 DEF Befalls
    <3> QED
      BY <3>1, <3>2
  <2>5. m.end # "done" => xfer' # NoXfer
    <3>1. m.end # "done" => xfer'.kind = "get"
      BY <1>1, <2>1, XferFields
    <3>2. NoXfer.kind = "none"
      BY DEF NoXfer
    <3> QED
      BY <3>1, <3>2
  <2>6. CASE m.end = "done"
    <3>1. xfer' = NoXfer /\ file' = "none" /\ got' = got \o Bodies(m.sent)
      BY <2>1, <2>6
    <3>2. Sends(Bodies(m.sent))
      BY <1>1, <1>2, <2>2, <2>4, <2>6, <3>1, PumpSends
    <3> QED
      BY <3>2
  <2>7. CASE m.end = "limit"
    <3>1. /\ xfer' = [xfer EXCEPT !.buf = m.buf, !.rest = m.rest]
          /\ file' = "doomed" /\ Meet("limit") /\ got' = got \o Bodies(m.sent)
      BY <2>1, <2>7
    <3>2. Mishap'
      BY <3>1, MetMishap
    <3>3. Sends(Bodies(m.sent))
      BY <1>1, <1>2, <2>2, <2>4, <2>5, <2>7, <3>1, <3>2, PumpSends
    <3> QED
      BY <3>3
  <2>8. CASE m.end = "more"
    <3>1. /\ xfer' = [xfer EXCEPT !.buf = m.buf, !.rest = m.rest]
          /\ file' = file /\ got' = got \o Bodies(m.sent)
      BY <2>1, <2>8
    <3>2. Sends(Bodies(m.sent))
      BY <1>1, <1>2, <2>2, <2>4, <2>5, <2>8, <3>1, PumpSends
    <3> QED
      BY <3>2
  <2> QED
    BY <2>3, <2>6, <2>7, <2>8
<1>4. CASE /\ \/ UNCHANGED xfer
              \/ /\ xfer.rest > 0
                 /\ xfer' = [xfer EXCEPT !.buf = "full", !.rest = @ - 1]
           /\ file' = "doomed" /\ Meet("broken") /\ UNCHANGED got
  <2>1. Befalls /\ Mishap'
    BY <1>4, MetMishap
  <2>2. MovesOn
    <3>1. CASE UNCHANGED xfer
      <4>1. xfer' \in Transfers
        BY <3>1 DEF Typed
      <4> QED
        BY <1>1, <1>4, <2>1, <3>1, <4>1 DEF MovesOn
    <3>2. CASE xfer.rest > 0 /\ xfer' = [xfer EXCEPT !.buf = "full", !.rest = @ - 1]
      <4>1. xfer.rest - 1 \in 0..FileSize /\ "full" \in Buffers
        BY <3>2, XferFields, BoundsAreNat DEF Buffers
      <4>2. xfer' = [xfer EXCEPT !.buf = "full", !.rest = xfer.rest - 1]
        BY <3>2, XferFields
      <4>3. xfer' \in Transfers /\ xfer'.kind = xfer.kind /\ xfer'.id = xfer.id
        BY <4>1, <4>2, XferMoves
      <4> QED
        BY <1>1, <1>4, <2>1, <4>3 DEF MovesOn
    <3> QED
      BY <1>4, <3>1, <3>2
  <2>3. Sends(<<>>)
    BY <1>1, <1>2, <1>4, <2>1, <2>2, NothingSent
  <2> QED
    BY <2>3
<1> QED
  BY <1>3, <1>4 DEF FilePumps

LEMMA WriteListSends ==
  ASSUME Typed, Xferring, WriteList
  PROVE  \E b : Sends(b)
<1>1. /\ resp = <<>> /\ xfer.kind = "list" /\ phase' = "wait" /\ phase # "gone"
      /\ UNCHANGED <<client, req, answered, resp, begun, closing, file, why>>
  BY DEF WriteList
<1>2. /\ xfer.rest \in Nat /\ xfer.rest <= FileSize /\ xfer.buf \in Buffers
      /\ xfer = [kind |-> xfer.kind, id |-> xfer.id, rest |-> xfer.rest,
                 buf |-> xfer.buf]
  <2>1. xfer.rest \in 0..FileSize /\ FileSize \in Nat
    BY XferFields, BoundsAreNat
  <2>2. xfer.rest \in Nat /\ xfer.rest <= FileSize
    BY <2>1
  <2> QED
    BY <2>2, XferFields
<1>3. xfer.buf = "none"
  BY <1>1 DEF Xferring
<1>4. got \in Seq(Tokens) /\ Body(xfer.id) \in Tokens /\ Torn(Body(xfer.id)) \in Tokens
  BY DEF Typed, Body, Torn, Tokens, Transfers
<1>5. ASSUME NEW t \in Tokens
      PROVE  /\ <<t>> \in Seq(Tokens) /\ Len(<<t>>) = 1 /\ <<t>>[1] = t
             /\ got \o <<t>> = Append(got, t)
  <2>1. got \o <<t>> = Append(got, t)
    BY <1>4, AppendIsConcat
  <2> QED
    BY <2>1
<1>6. ASSUME xfer.rest > 0, xfer' = [xfer EXCEPT !.rest = @ - 1]
      PROVE  MovesOn /\ Pending = 1 + Pending'
  <2>1. xfer.rest - 1 \in 0..FileSize
    BY <1>2, <1>6, BoundsAreNat
  <2>2. /\ xfer' \in Transfers /\ xfer'.kind = xfer.kind /\ xfer'.id = xfer.id
        /\ xfer'.buf = "none" /\ xfer'.rest = xfer.rest - 1
    BY <1>3, <1>6, <2>1 DEF Typed, Transfers
  <2>3. Pending = 1 + Pending'
    BY <1>1, <1>2, <2>2 DEF Pending
  <2> QED
    BY <1>1, <2>2, <2>3 DEF MovesOn
<1>7. CASE /\ xfer.rest > 0 /\ got' = Append(got, Body(xfer.id))
           /\ xfer' = [xfer EXCEPT !.rest = @ - 1] /\ met' = met
  <2>1. PieceOf(Body(xfer.id)) /\ Body(xfer.id).part # "stray"
    BY <1>4 DEF PieceOf, IsHead, Body
  <2>2. \A i \in 1..Len(<<Body(xfer.id)>>) :
          /\ PieceOf(<<Body(xfer.id)>>[i])
          /\ <<Body(xfer.id)>>[i].part # "stray"
    BY <1>4, <1>5, <2>1
  <2>3. got' = got \o <<Body(xfer.id)>> /\ <<Body(xfer.id)>> \in Seq(Tokens)
          /\ Len(<<Body(xfer.id)>>) = 1
    BY <1>4, <1>5, <1>7
  <2>4. Befalls
    BY <1>7 DEF Befalls
  <2>5. MovesOn /\ Pending = 1 + Pending'
    BY <1>6, <1>7
  <2>6. Sends(<<Body(xfer.id)>>)
    BY <1>1, <2>2, <2>3, <2>4, <2>5 DEF Sends
  <2> QED
    BY <2>6
<1>8. CASE xfer.rest = 0 /\ xfer' = NoXfer /\ UNCHANGED <<got, met>>
  <2>1. Pending = 0 + Pending'
    BY <1>1, <1>8 DEF Pending, NoXfer
  <2>2. got' = got \o <<>> /\ <<>> \in Seq(Tokens) /\ Len(<<>>) = 0
    BY <1>4, <1>8, ConcatEmptySeq, NothingQueued
  <2>3. \A i \in 1..Len(<<>>) : FALSE
    BY <2>2
  <2>4. Befalls
    BY <1>8 DEF Befalls
  <2>5. Sends(<<>>)
    BY <1>1, <1>8, <2>1, <2>2, <2>3, <2>4 DEF Sends
  <2> QED
    BY <2>5
<1>9. CASE /\ xfer.rest > 0 /\ Meet("full") /\ UNCHANGED got
           /\ xfer' = [xfer EXCEPT !.rest = @ - 1]
  <2>1. Befalls /\ Mishap'
    BY <1>9, MetMishap
  <2>2. MovesOn
    BY <1>6, <1>9
  <2>3. Sends(<<>>)
    BY <1>1, <1>9, <2>1, <2>2, NothingSent
  <2> QED
    BY <2>3
<1>10. CASE /\ Meet("full") /\ got' = Append(got, Torn(Body(xfer.id)))
            /\ UNCHANGED xfer
  <2>1. Befalls /\ Mishap' /\ "full" \in met'
    BY <1>10, MetMishap
  <2>2. PieceOf(Torn(Body(xfer.id)))
    BY <1>4 DEF PieceOf, IsHead, Torn, Body
  <2>3. \A i \in 1..Len(<<Torn(Body(xfer.id))>>) : PieceOf(<<Torn(Body(xfer.id))>>[i])
    BY <1>4, <1>5, <2>2
  <2>4. got' = got \o <<Torn(Body(xfer.id))>> /\ <<Torn(Body(xfer.id))>> \in Seq(Tokens)
    BY <1>4, <1>5, <1>10
  <2>5. MovesOn
    <3>1. xfer' \in Transfers
      BY <1>10 DEF Typed
    <3> QED
      BY <1>1, <1>3, <1>10, <3>1 DEF MovesOn
  <2>6. Sends(<<Torn(Body(xfer.id))>>)
    BY <1>1, <2>1, <2>3, <2>4, <2>5 DEF Sends
  <2> QED
    BY <2>6
<1>11. CASE xfer' = NoXfer /\ Meet("timeout") /\ UNCHANGED got
  <2>1. Befalls /\ Mishap'
    BY <1>11, MetMishap
  <2>2. Sends(<<>>)
    BY <1>1, <1>11, <2>1, NothingSent
  <2> QED
    BY <2>2
<1> QED
  BY <1>7, <1>8, <1>9, <1>10, <1>11 DEF WriteList

LEMMA SendsTyped ==
  ASSUME Typed, Xferring, NEW b, Sends(b)
  PROVE  Typed' /\ Xferring'
<1>1. /\ resp = <<>> /\ xfer.kind \in {"get", "list"}
      /\ UNCHANGED <<client, req, answered, resp, begun, closing>>
      /\ b \in Seq(Tokens) /\ got' = got \o b
      /\ \/ why' = why /\ phase' = "wait" /\ phase # "gone"
         \/ why' = "lost" /\ phase' = "gone"
  BY DEF Sends
<1>2. got' \in Seq(Tokens)
  BY <1>1, Joined DEF Typed
<1>3. met' \subseteq Mishaps /\ (Mishap => Mishap')
        /\ ("misconfigured" \in met => "misconfigured" \in met')
        /\ ("nameless" \in met => "nameless" \in met')
  BY BefallsGives DEF Sends
<1>4. Fresh'
  BY <1>1, <1>3 DEF Typed, Fresh
<1>5. CASE xfer' = NoXfer /\ file' \in {file, "none"}
  <2>1. NoXfer \in Transfers
    BY BoundsAreNat DEF NoXfer, Transfers, Kinds, Buffers
  <2>2. Typed'
    BY <1>1, <1>2, <1>3, <1>4, <1>5, <2>1 DEF Typed, client
  <2>3. Xferring'
    BY <1>1, <1>3, <1>5 DEF Xferring, NoXfer
  <2> QED
    BY <2>2, <2>3
<1>6. CASE MovesOn
  <2>1. /\ xfer'.kind = xfer.kind /\ xfer'.id = xfer.id
        /\ xfer'.buf # "none" => xfer.kind = "get"
        /\ xfer' \in Transfers
        /\ file' = file \/ (file' = "doomed" /\ Mishap')
    BY <1>6 DEF MovesOn
  <2>2. Typed'
    BY <1>1, <1>2, <1>3, <1>4, <2>1 DEF Typed, client
  <2>3. Xferring'
    BY <1>1, <1>3, <2>1 DEF Xferring
  <2> QED
    BY <2>2, <2>3
<1> QED
  BY <1>5, <1>6 DEF Sends

-----------------------------------------------------------------------------
(* The other steps. Those that write nothing leave what was promised and   *)
(* sent alone; they may give up a transfer, with the connection, after a   *)
(* mishap or for an upload.                                                *)

Quiet ==
  /\ phase # "gone" /\ phase' \in {"wait", "body", "write", "gone"}
  /\ UNCHANGED <<asked, items, typing, answered, resp, begun, closing, got>>
  /\ eof' \in BOOLEAN
  /\ req' \in {req, NoReq}
  /\ inq' = inq \/ inq' = <<>>
  /\ \/ xfer' = xfer
     \/ xfer' = NoXfer /\ (xfer.kind \in {"none", "put"} \/ Mishap' \/ why' = "lost")
  /\ \/ file' = file
     \/ file' = "none" /\ (xfer' = NoXfer \/ Mishap')
     \/ file' = "doomed" /\ Mishap'
  /\ Befalls
  /\ why' = why \/ (why' \in {"done", "lost"} /\ phase' = "gone")
  /\ why' = "done" => closing /\ resp = <<>> /\ xfer.kind = "none" /\ xfer' = NoXfer

LEMMA GoneQuiet ==
  ASSUME phase # "gone", Typed, NEW reason \in {"done", "lost"}, Gone(reason),
         reason = "done" => closing /\ resp = <<>> /\ xfer.kind = "none"
  PROVE  Quiet
<1>1. eof \in BOOLEAN
  BY DEF Typed
<1>2. Befalls
  BY DEF Gone, Befalls
<1>3. why' = reason /\ (reason # "done" => reason = "lost")
  BY DEF Gone
<1> QED
  BY <1>1, <1>2, <1>3 DEF Gone, Quiet

LEMMA PlainQuiet ==
  ASSUME Typed, Xferring,
         Close \/ ReadNothing \/ WriteNothing \/ Part \/ ReadEof \/ BodyLimited
           \/ Lose
  PROVE  Quiet
<1>1. eof \in BOOLEAN /\ phase \in {"wait", "body", "write", "gone"}
  BY DEF Typed
<1>2. phase # "gone" => why # "done"
  BY DEF Xferring
<1>3. CASE Close
  <2>1. Befalls
    BY <1>3 DEF Close, Befalls
  <2> QED
    BY <1>1, <1>2, <1>3, <2>1 DEF Close, Quiet, server
<1>4. CASE ReadNothing \/ WriteNothing
  <2>1. Befalls
    BY <1>4 DEF ReadNothing, WriteNothing, Befalls
  <2> QED
    BY <1>1, <1>2, <1>4, <2>1 DEF ReadNothing, WriteNothing, Quiet, client, server
<1>5. CASE Part
  BY <1>5, GoneQuiet DEF Part, Reading
<1>6. CASE ReadEof \/ BodyLimited \/ Lose
  <2>1. Gone("lost") /\ phase # "gone"
    BY <1>6 DEF ReadEof, BodyLimited, Lose, Reading
  <2> QED
    BY <2>1, GoneQuiet
<1> QED
  BY <1>3, <1>4, <1>5, <1>6

LEMMA ReadBodyQuiet ==
  ASSUME Typed, Xferring, ReadBody
  PROVE  Quiet
<1>1. /\ phase \in {"wait", "body"} /\ xfer.kind = "put" /\ inq' = <<>>
      /\ UNCHANGED <<asked, items, typing, eof, req, answered, resp, begun,
                     closing, got, why, met>>
      /\ \/ xfer' = NoXfer /\ file' = "none" /\ phase' \in {"wait", "write"}
         \/ phase' = "write" /\ UNCHANGED <<xfer, file>>
  BY DEF ReadBody
<1>2. eof \in BOOLEAN /\ why # "done"
  BY <1>1 DEF Typed, Xferring
<1>3. Befalls
  BY <1>1 DEF Befalls
<1> QED
  BY <1>1, <1>2, <1>3 DEF Quiet

LEMMA FileTakesBodyQuiet ==
  ASSUME Typed, Xferring, FileTakesBody
  PROVE  Quiet
<1>1. /\ phase = "wait" /\ xfer.kind = "put" /\ inq' \in {inq, <<>>}
      /\ UNCHANGED <<asked, items, typing, eof, req, answered, resp, begun,
                     closing, phase, got, why>>
      /\ \/ xfer' = NoXfer /\ file' = "none" /\ UNCHANGED met
         \/ UNCHANGED <<xfer, file, met>>
         \/ file' = "doomed" /\ Meet("limit") /\ UNCHANGED xfer
         \/ file' = "doomed" /\ Meet("broken") /\ UNCHANGED xfer
  BY DEF FileTakesBody
<1>2. eof \in BOOLEAN /\ why # "done"
  BY <1>1 DEF Typed, Xferring
<1>3. Befalls /\ (file' # "doomed" \/ Mishap' \/ UNCHANGED <<xfer, file>>)
  BY <1>1, MetMishap DEF Befalls
<1> QED
  BY <1>1, <1>2, <1>3 DEF Quiet

LEMMA TimeoutQuiet ==
  ASSUME Typed, Xferring, XferTimesOut \/ ReapFile
  PROVE  Quiet
<1>1. /\ phase = "wait" /\ why # "done" /\ eof \in BOOLEAN
      /\ UNCHANGED <<client, req, answered, resp, begun, closing, phase, got, why>>
  BY DEF Typed, Xferring, XferTimesOut, ReapFile
<1>2. CASE XferTimesOut
  <2>1. file' = "doomed" /\ Meet("timeout") /\ UNCHANGED xfer
    BY <1>2 DEF XferTimesOut
  <2>2. Mishap' /\ Befalls
    BY <2>1, MetMishap
  <2> QED
    BY <1>1, <2>1, <2>2 DEF Quiet, client
<1>3. CASE ReapFile
  <2>1. file = "doomed" /\ file' = "none" /\ UNCHANGED met
          /\ (xfer' = xfer \/ xfer' = NoXfer)
    BY <1>3 DEF ReapFile
  <2>2. Befalls
    BY <2>1 DEF Befalls
  <2>3. Mishap'
    BY <2>1, <2>2, BefallsGives DEF Xferring
  <2> QED
    BY <1>1, <2>1, <2>2, <2>3 DEF Quiet, client
<1> QED
  BY <1>2, <1>3

LEMMA NoXferTyped == NoXfer \in Transfers
BY BoundsAreNat DEF NoXfer, Transfers, Kinds, Buffers

LEMMA QuietTyped ==
  ASSUME Typed, Xferring, Quiet
  PROVE  Typed' /\ Xferring'
<1>1. /\ inq' \in Seq(Items) /\ Len(inq') \in Nat /\ Len(inq) \in Nat
      /\ Len(inq') <= Len(inq)
  <2>1. <<>> \in Seq(Items) /\ Len(<<>>) = 0
    BY NothingQueued, Zenon
  <2>2. inq \in Seq(Items) /\ Len(inq) \in Nat
    BY DEF Typed
  <2>3. CASE inq' = inq
    BY <2>2, <2>3
  <2>4. CASE inq' = <<>>
    <3>1. inq' \in Seq(Items) /\ Len(inq') = 0
      BY <2>1, <2>4, Zenon
    <3> QED
      BY <2>2, <3>1
  <2> QED
    BY <2>3, <2>4 DEF Quiet
<1>2. req' \in Requests /\ Fresh' /\ One(req'.has) <= One(req.has)
        /\ One(req'.has) \in Nat /\ One(req.has) \in Nat
  <2>1. req \in Requests /\ Fresh
    BY DEF Typed
  <2>2. "nameless" \in met <=> "nameless" \in met'
    BY BefallsGives DEF Quiet
  <2>3. /\ NoReq \in Requests /\ NoReq.has = FALSE /\ NoReq.conn = "none"
        /\ NoReq.ver = 0
    BY DEF NoReq, Requests, Connections
  <2>4. req' = req \/ req' = NoReq
    BY DEF Quiet
  <2> QED
    BY <2>1, <2>2, <2>3, <2>4 DEF Fresh, One
<1>3. answered' + Len(inq') + One(req'.has) <= items'
  <2>1. answered \in Nat /\ items \in Nat /\ answered + Len(inq) + One(req.has) <= items
    BY BoundsAreNat DEF Typed
  <2>2. answered' = answered /\ items' = items
    BY DEF Quiet
  <2> QED
    BY <1>1, <1>2, <2>1, <2>2
<1>4. xfer' \in Transfers
  BY NoXferTyped DEF Quiet, Typed
<1>5. /\ met' \subseteq Mishaps /\ (Mishap => Mishap')
      /\ "misconfigured" \in met => "misconfigured" \in met'
  BY BefallsGives DEF Quiet
<1>6. Typed'
  BY <1>1, <1>2, <1>3, <1>4, <1>5 DEF Quiet, Typed
<1>7. why = "none"
  BY DEF Quiet, Xferring
<1>8. (why' = "none" \/ phase' = "gone")
  BY <1>7 DEF Quiet
<1>9. CASE xfer' = NoXfer
  <2>1. xfer'.kind = "none" /\ xfer'.buf = "none"
    BY <1>9 DEF NoXfer
  <2>2. file' = "doomed" => Mishap'
    BY <1>5 DEF Quiet, Xferring
  <2> QED
    BY <1>6, <1>8, <2>1, <2>2 DEF Xferring
<1>10. CASE xfer' = xfer /\ xfer' # NoXfer
  <2>1. file' = "doomed" => Mishap'
    BY <1>5 DEF Quiet, Xferring
  <2>2. xfer.kind = "get" /\ file' = "none" => Mishap'
    BY <1>5, <1>10 DEF Quiet, Xferring
  <2>3. answered' = answered /\ resp' = resp
    BY DEF Quiet
  <2> QED
    BY <1>5, <1>6, <1>8, <1>10, <2>1, <2>2, <2>3 DEF Xferring
<1> QED
  BY <1>6, <1>9, <1>10 DEF Quiet

LEMMA AskXferring ==
  ASSUME Typed, Xferring, NEW item, Ask(item)
  PROVE  Xferring'
<1>1. UNCHANGED <<resp, answered, xfer, file, phase, why, met>>
  BY DEF Ask, server
<1> QED
  BY <1>1 DEF Xferring, Mishap, Without

LEMMA ReadLineXferring ==
  ASSUME Typed, Xferring, ReadLine
  PROVE  Xferring'
<1>1. /\ ~ closing /\ phase = "wait" /\ xfer.kind = "none" /\ resp = <<>>
      /\ Interpret(inq[1]) /\ phase' \in {"body", "write"} /\ why' = why
  BY DEF ReadLine, Reading
<1>2. why' = "none" /\ xfer.buf = "none" /\ answered \in Nat
  BY <1>1, BoundsAreNat DEF Xferring, Typed, Transfers, Buffers
<1>3. CASE Remembers(inq[1])
  <2>1. UNCHANGED <<answered, resp, xfer, file>> /\ (Mishap => Mishap')
    BY <1>3 DEF Remembers, Mishap, Without
  <2> QED
    BY <1>1, <1>2, <2>1 DEF Xferring
<1>4. ASSUME Mishap => Mishap',
             \/ UNCHANGED <<xfer, file>>
             \/ \E kind \in {"get", "list", "put"} :
                  /\ xfer' = Started(kind)
                  /\ file' = "open" \/ (file' = file /\ kind # "get"),
             \/ answered' = answered + 1
             \/ answered' = answered + 2 /\ "misconfigured" \in met'
      PROVE  Xferring'
  <2>1. /\ answered' >= 1
        /\ answered + 1 = answered' \/ "misconfigured" \in met'
    BY <1>2, <1>4
  <2>2. CASE UNCHANGED <<xfer, file>>
    BY <1>1, <1>2, <1>4, <2>1, <2>2 DEF Xferring
  <2>3. ASSUME NEW kind \in {"get", "list", "put"}, xfer' = Started(kind),
               file' = "open" \/ (file' = file /\ kind # "get")
        PROVE  Xferring'
    <3>1. xfer'.kind = kind /\ xfer'.id = answered + 1 /\ xfer'.buf = "none"
      BY <2>3 DEF Started
    <3> QED
      BY <1>2, <1>4, <2>1, <2>3, <3>1 DEF Xferring
  <2> QED
    BY <1>4, <2>2, <2>3
<1>5. ASSUME NEW keep, NEW len, NEW body, NEW close,
             Answers(keep, len, body, close)
      PROVE  Xferring'
  <2>1. Mishap => Mishap'
    BY <1>5 DEF Answers, Mishap, Without
  <2>2. \/ UNCHANGED <<xfer, file>>
        \/ \E kind \in {"get", "list", "put"} :
             /\ xfer' = Started(kind)
             /\ file' = "open" \/ (file' = file /\ kind # "get")
    BY <1>5 DEF Answers
  <2>3. answered' = answered + 1
    BY <1>5 DEF Answers
  <2> QED
    BY <1>4, <2>1, <2>2, <2>3
<1>6. ASSUME NEW keep, NEW len, Twice(keep, len)
      PROVE  Xferring'
  <2>1. Mishap => Mishap'
    BY <1>6 DEF Twice, Mishap, Without
  <2>2. \/ UNCHANGED <<xfer, file>>
        \/ \E kind \in {"get", "list", "put"} :
             /\ xfer' = Started(kind)
             /\ file' = "open" \/ (file' = file /\ kind # "get")
    BY <1>6 DEF Twice
  <2>3. answered' = answered + 2 /\ "misconfigured" \in met'
    BY <1>6 DEF Twice
  <2> QED
    BY <1>4, <2>1, <2>2, <2>3
<1>7. Fresh
  BY DEF Typed
<1> QED
  BY <1>1, <1>3, <1>5, <1>6, <1>7, Interpreted

\* A part of the response has been written.
Split(s, k) == SubSeq(s, 1, k) \o SubSeq(s, k + 1, Len(s))

LEMMA SplitIsWhole ==
  ASSUME NEW S, NEW s \in Seq(S), NEW k \in 0..Len(s)
  PROVE  /\ SubSeq(s, 1, k) \in Seq(S) /\ SubSeq(s, k + 1, Len(s)) \in Seq(S)
         /\ Split(s, k) = s
<1>1. SubSeq(s, 1, k) \in Seq(S) /\ SubSeq(s, k + 1, Len(s)) \in Seq(S)
  OBVIOUS
<1>2. Len(s) \in Nat
  OBVIOUS
<1>3. 1 \in 1..Len(s) + 1 /\ k \in 1 - 1..Len(s) /\ Len(s) \in k..Len(s)
  BY <1>2
<1>4. Split(s, k) = SubSeq(s, 1, Len(s))
  BY <1>3, ConcatAdjacentSubSeq DEF Split
<1> QED
  BY <1>1, <1>4, SubSeqFull

LEMMA WriteResponseTyped ==
  ASSUME Typed, Xferring, NEW k \in 0..Len(resp), WriteResponse(k)
  PROVE  Typed' /\ Xferring'
<1>1. /\ phase = "write" /\ resp # <<>> /\ got' = got \o SubSeq(resp, 1, k)
      /\ resp' = SubSeq(resp, k + 1, Len(resp)) /\ phase' \in {"wait", "write"}
      /\ begun' \in BOOLEAN
      /\ UNCHANGED <<client, req, answered, closing, xfer, file, why, met>>
  BY DEF WriteResponse
<1>2. SubSeq(resp, 1, k) \in Seq(Tokens) /\ resp' \in Seq(Tokens)
  BY <1>1, SplitIsWhole DEF Typed
<1>3. got' \in Seq(Tokens)
  BY <1>1, <1>2, Joined DEF Typed
<1>4. Typed'
  BY <1>1, <1>2, <1>3 DEF Typed, client, Fresh
<1>5. why' = "none" /\ xfer.buf = "none"
  BY <1>1 DEF Xferring
<1>6. Xferring'
  BY <1>1, <1>5 DEF Xferring, Mishap, Without
<1> QED
  BY <1>4, <1>6

LEMMA FullSocketTyped ==
  ASSUME Typed, Xferring, FullSocket
  PROVE  Typed' /\ Xferring'
<1>1. /\ phase = "write" /\ resp # <<>> /\ Meet("full")
      /\ resp' = <<Torn(resp[1])>> \o resp \/ resp' = <<>>
      /\ phase' \in {"wait", "write"}
      /\ UNCHANGED <<client, req, answered, begun, closing, xfer, file, got, why>>
  BY DEF FullSocket
<1>2. Mishap' /\ Befalls
  BY <1>1, MetMishap
<1>3. resp' \in Seq(Tokens)
  <2>1. resp \in Seq(Tokens) /\ resp[1] \in Tokens
    BY <1>1, Dequeued DEF Typed
  <2>2. Torn(resp[1]) \in Tokens
    BY <2>1 DEF Torn, Tokens
  <2>3. <<Torn(resp[1])>> \in Seq(Tokens) /\ <<>> \in Seq(Tokens)
    BY <2>2
  <2>4. <<Torn(resp[1])>> \o resp \in Seq(Tokens)
    BY <2>1, <2>3, Joined
  <2> QED
    BY <1>1, <2>3, <2>4
<1>4. met' \subseteq Mishaps /\ ("misconfigured" \in met => "misconfigured" \in met')
        /\ ("nameless" \in met => "nameless" \in met')
  BY <1>2, BefallsGives
<1>5. Typed'
  BY <1>1, <1>3, <1>4 DEF Typed, client, Fresh
<1>6. why' = "none" /\ xfer.buf = "none"
  BY <1>1 DEF Xferring
<1>7. Xferring'
  BY <1>1, <1>2, <1>4, <1>6 DEF Xferring
<1> QED
  BY <1>5, <1>7

-----------------------------------------------------------------------------
(* Every step is one of six.                                               *)

Steps ==
  \/ \E item \in Items : Ask(item)
  \/ ReadLine \/ Quiet \/ FullSocket
  \/ \E k \in 0..Len(resp) : WriteResponse(k)
  \/ \E b : Sends(b)

LEMMA ItemsAsked ==
  ASSUME \/ \E kind \in {"line", "nameless"}, ver \in Versions :
              Ask(Item(kind, ver, "none"))
         \/ Ask(Item("bad", 10, "none")) \/ Ask(Item("end", 10, "none"))
         \/ \E conn \in Connections \ {"other"} : Ask(Item("header", 10, conn))
  PROVE  \E item \in Items : Ask(item)
<1>1. /\ \A kind \in {"line", "nameless"}, ver \in Versions :
           Item(kind, ver, "none") \in Items
      /\ Item("bad", 10, "none") \in Items /\ Item("end", 10, "none") \in Items
      /\ \A conn \in Connections : Item("header", 10, conn) \in Items
  BY DEF Item, Items, Versions, Connections
<1> HIDE DEF Items, Item
<1> QED
  BY <1>1

LEMMA NextSteps ==
  ASSUME Typed, Xferring, Next
  PROVE  Steps
<1>1. CASE \/ \E kind \in {"line", "nameless"}, ver \in Versions :
                Ask(Item(kind, ver, "none"))
           \/ Ask(Item("bad", 10, "none")) \/ Ask(Item("end", 10, "none"))
           \/ \E conn \in Connections \ {"other"} : Ask(Item("header", 10, conn))
  BY <1>1, ItemsAsked DEF Steps
<1>2. CASE Close \/ ReadNothing \/ WriteNothing \/ Part \/ ReadEof \/ BodyLimited
             \/ Lose \/ ReadBody \/ FileTakesBody \/ XferTimesOut \/ ReapFile
  <2>1. Quiet
    BY <1>2, PlainQuiet, ReadBodyQuiet, FileTakesBodyQuiet, TimeoutQuiet
  <2> QED
    BY <2>1 DEF Steps
<1>3. CASE WriteFile \/ WriteList \/ FilePumps
  <2>1. \E b : Sends(b)
    BY <1>3, WriteFileSends, WriteListSends, FilePumpsSends
  <2> QED
    BY <2>1 DEF Steps
<1>4. CASE ReadLine \/ FullSocket \/ \E k \in 0..Len(resp) : WriteResponse(k)
  BY <1>4 DEF Steps
<1> QED
  BY <1>1, <1>2, <1>3, <1>4 DEF Next

LEMMA StepTyped ==
  ASSUME Typed, Xferring, [Next]_vars
  PROVE  Typed' /\ Xferring'
<1>1. CASE UNCHANGED vars
  <2>1. /\ UNCHANGED <<asked, items, typing, inq, eof, req, answered, resp, begun,
                       closing, xfer, file, phase, got, why, met>>
    BY <1>1 DEF vars, client, server
  <2> QED
    BY <2>1 DEF Typed, Xferring, Mishap, Without, Fresh
<1>2. CASE Next
  <2>1. Steps
    BY <1>2, NextSteps
  <2>2. CASE \E item \in Items : Ask(item)
    BY <2>2, AskTyped, AskXferring
  <2>3. CASE ReadLine
    BY <2>3, ReadLineTyped, ReadLineXferring
  <2>4. CASE Quiet
    BY <2>4, QuietTyped
  <2>5. CASE \E k \in 0..Len(resp) : WriteResponse(k)
    BY <2>5, WriteResponseTyped
  <2>6. CASE \E b : Sends(b)
    BY <2>6, SendsTyped
  <2>7. CASE FullSocket
    BY <2>7, FullSocketTyped
  <2> QED
    BY <2>1, <2>2, <2>3, <2>4, <2>5, <2>6, <2>7 DEF Steps
<1> QED
  BY <1>1, <1>2

LEMMA InitXferring == Init => Xferring
BY DEF Init, NoXfer, Xferring, Mishap

\* The connection keeps its type: no response is begun without an item for it,
\* and no more is sent of a file than it has.
THEOREM TypeCorrect == Spec => []TypeOK
<1>1. Init => Typed /\ Xferring
  BY InitTyped, InitXferring
<1>2. Typed /\ Xferring /\ [Next]_vars => (Typed /\ Xferring)'
  BY StepTyped
<1>3. Typed /\ Xferring => TypeOK
  BY TypedGives
<1> QED
  BY <1>1, <1>2, <1>3, PTL DEF Spec

-----------------------------------------------------------------------------
(* What has been sent, and what is to be: the stream of the responses.     *)

Stream == got \o resp

\* The stream s of a responses: a header for each, and what follows it.
Chain(s, a) ==
  /\ \A i \in 1..Len(s) : s[i].id \in 1..a
  /\ \A i, j \in 1..Len(s) :
       i < j => s[i].id <= s[j].id /\ (IsHead(s[j]) => s[i].id < s[j].id)
  /\ \A i \in 1..Len(s) :
       i > 1 => s[i].id = s[i-1].id + (IF IsHead(s[i]) THEN 1 ELSE 0)
  /\ s # <<>> => IsHead(s[1]) /\ s[1].id = 1 /\ s[Len(s)].id = a
  /\ s = <<>> => a = 0
  /\ \A i \in 1..Len(s) : s[i].part # "stray"

LEMMA Appended ==
  ASSUME NEW S, NEW s \in Seq(S), NEW t \in S
  PROVE  /\ Append(s, t) \in Seq(S) /\ Len(s) \in Nat
         /\ Len(Append(s, t)) = Len(s) + 1 /\ Append(s, t) # <<>>
         /\ \A i \in 1..Len(s) : Append(s, t)[i] = s[i]
         /\ Append(s, t)[Len(s) + 1] = t
         /\ s = <<>> <=> Len(s) = 0
OBVIOUS

LEMMA ChainHead ==
  ASSUME NEW s \in Seq(Tokens), NEW a \in Nat, Chain(s, a),
         NEW t \in Tokens, IsHead(t), t.id = a + 1
  PROVE  Chain(Append(s, t), a + 1)
<1> DEFINE u == Append(s, t)
           n == Len(s)
<1>1. /\ n \in Nat /\ Len(u) = n + 1 /\ u # <<>>
      /\ \A i \in 1..n : u[i] = s[i]
      /\ u[n + 1] = t
      /\ s = <<>> <=> n = 0
  BY Appended
<1>2. /\ \A i \in 1..n : s[i].id \in 1..a
      /\ \A i, j \in 1..n :
           i < j => s[i].id <= s[j].id /\ (IsHead(s[j]) => s[i].id < s[j].id)
      /\ \A i \in 1..n :
           i > 1 => s[i].id = s[i-1].id + (IF IsHead(s[i]) THEN 1 ELSE 0)
      /\ s # <<>> => IsHead(s[1]) /\ s[1].id = 1 /\ s[n].id = a
      /\ s = <<>> => a = 0
  BY DEF Chain
<1>9. \A i \in 1..n : s[i].part # "stray"
  BY DEF Chain
<1> HIDE DEF u, n
<1>3. ASSUME NEW i \in 1..n + 1
      PROVE  u[i].id \in 1..a + 1
  <2>1. CASE i \in 1..n
    <3>1. u[i] = s[i] /\ s[i].id \in 1..a
      BY <1>1, <1>2, <2>1
    <3>2. \A x \in 1..a : x \in 1..a + 1
      OBVIOUS
    <3> QED
      BY <3>1, <3>2, Zenon
  <2>2. CASE i = n + 1
    BY <1>1, <2>2
  <2> QED
    BY <1>1, <2>1, <2>2
<1>4. ASSUME NEW i \in 1..n + 1, NEW j \in 1..n + 1, i < j
      PROVE  u[i].id <= u[j].id /\ (IsHead(u[j]) => u[i].id < u[j].id)
  <2>1. i \in 1..n /\ u[i] = s[i] /\ s[i].id \in 1..a
    BY <1>1, <1>2, <1>4
  <2>2. CASE j = n + 1
    BY <1>1, <2>1, <2>2
  <2>3. CASE j \in 1..n
    BY <1>1, <1>2, <1>4, <2>1, <2>3
  <2> QED
    BY <1>1, <2>2, <2>3
<1>5. ASSUME NEW i \in 1..n + 1, i > 1
      PROVE  u[i].id = u[i-1].id + (IF IsHead(u[i]) THEN 1 ELSE 0)
  <2>1. i - 1 \in 1..n /\ u[i-1] = s[i-1]
    BY <1>1, <1>5
  <2>2. CASE i = n + 1
    <3>1. u[i] = t /\ s[i-1].id = a
      BY <1>1, <1>2, <2>1, <2>2
    <3> QED
      BY <2>1, <3>1
  <2>3. CASE i \in 1..n
    <3>1. u[i] = s[i] /\ i - 1 \in 1..n
      BY <1>1, <2>1, <2>3
    <3>2. s[i].id = s[i-1].id + (IF IsHead(s[i]) THEN 1 ELSE 0)
      BY <1>2, <1>5, <2>3
    <3> QED
      BY <2>1, <3>1, <3>2
  <2> QED
    BY <1>1, <2>2, <2>3
<1>6. IsHead(u[1]) /\ u[1].id = 1 /\ u[n + 1].id = a + 1
  BY <1>1, <1>2
<1>7. \A i \in 1..n + 1 : u[i].part # "stray"
  BY <1>1, <1>9 DEF IsHead
<1>8. Chain(u, a + 1)
  BY <1>1, <1>3, <1>4, <1>5, <1>6, <1>7 DEF Chain
<1> QED
  BY <1>8 DEF u

LEMMA ChainBodies ==
  ASSUME NEW s \in Seq(Tokens), NEW a \in Nat \ {0}, Chain(s, a),
         NEW b \in Seq(Tokens),
         \A i \in 1..Len(b) : ~ IsHead(b[i]) /\ b[i].id = a,
         \A i \in 1..Len(b) : b[i].part # "stray"
  PROVE  Chain(s \o b, a)
<1> DEFINE u == s \o b
           n == Len(s)
           m == Len(b)
<1>1. /\ n \in Nat /\ m \in Nat /\ Len(u) = n + m
      /\ \A i \in 1..n : u[i] = s[i]
      /\ \A i \in 1..m : u[n + i] = b[i]
      /\ s = <<>> <=> n = 0
      /\ u = <<>> <=> n + m = 0
  BY Joined
<1>2. /\ \A i \in 1..n : s[i].id \in 1..a
      /\ \A i, j \in 1..n :
           i < j => s[i].id <= s[j].id /\ (IsHead(s[j]) => s[i].id < s[j].id)
      /\ \A i \in 1..n :
           i > 1 => s[i].id = s[i-1].id + (IF IsHead(s[i]) THEN 1 ELSE 0)
      /\ n # 0 /\ IsHead(s[1]) /\ s[1].id = 1 /\ s[n].id = a
      /\ \A i \in 1..n : s[i].part # "stray"
  BY <1>1 DEF Chain
<1>3. \A i \in 1..m : ~ IsHead(b[i]) /\ b[i].id = a /\ b[i].part # "stray"
  OBVIOUS
<1> HIDE DEF u, n, m
<1>4. \A i \in n + 1..n + m :
        ~ IsHead(u[i]) /\ u[i].id = a /\ u[i].part # "stray"
  <2> SUFFICES ASSUME NEW i \in n + 1..n + m
               PROVE  ~ IsHead(u[i]) /\ u[i].id = a /\ u[i].part # "stray"
    OBVIOUS
  <2>1. i - n \in 1..m /\ n + (i - n) = i
    BY <1>1
  <2>2. u[n + (i - n)] = b[i - n]
    BY <1>1, <2>1
  <2> QED
    BY <1>3, <2>1, <2>2
<1>5. \A i \in 1..n + m : u[i].id \in 1..a
  BY <1>1, <1>2, <1>4
<1>6. ASSUME NEW i \in 1..n + m, NEW j \in 1..n + m, i < j
      PROVE  u[i].id <= u[j].id /\ (IsHead(u[j]) => u[i].id < u[j].id)
  <2>1. CASE j \in n + 1..n + m
    BY <1>4, <1>5, <2>1
  <2>2. CASE j \in 1..n
    <3>1. i \in 1..n /\ u[i] = s[i] /\ u[j] = s[j]
      BY <1>1, <1>6, <2>2
    <3> QED
      BY <1>2, <1>6, <2>2, <3>1
  <2> QED
    BY <1>1, <2>1, <2>2
<1>7. ASSUME NEW i \in 1..n + m, i > 1
      PROVE  u[i].id = u[i-1].id + (IF IsHead(u[i]) THEN 1 ELSE 0)
  <2>1. CASE i \in n + 1..n + m
    <3>1. u[i-1].id = a
      <4>1. CASE i = n + 1
        BY <1>1, <1>2, <4>1
      <4>2. CASE i > n + 1
        <5>1. i - 1 \in n + 1..n + m
          BY <1>1, <2>1, <4>2
        <5> QED
          BY <1>4, <5>1
      <4> QED
        BY <1>1, <2>1, <4>1, <4>2
    <3>2. ~ IsHead(u[i]) /\ u[i].id = a
      BY <1>4, <2>1
    <3> QED
      BY <3>1, <3>2
  <2>2. CASE i \in 1..n
    <3>1. i - 1 \in 1..n /\ u[i] = s[i] /\ u[i-1] = s[i-1]
      BY <1>1, <1>7, <2>2
    <3> QED
      BY <1>2, <1>7, <2>2, <3>1
  <2> QED
    BY <1>1, <2>1, <2>2
<1>8. u # <<>> /\ IsHead(u[1]) /\ u[1].id = 1
  BY <1>1, <1>2
<1>9. u[n + m].id = a
  <2>1. CASE m = 0
    BY <1>1, <1>2, <2>1
  <2>2. CASE m # 0
    <3>1. n + m \in n + 1..n + m
      BY <1>1, <2>2
    <3> QED
      BY <1>4, <3>1
  <2> QED
    BY <2>1, <2>2
<1>10. \A i \in 1..n + m : u[i].part # "stray"
  BY <1>1, <1>2, <1>4
<1>11. Chain(u, a)
  BY <1>1, <1>5, <1>6, <1>7, <1>8, <1>9, <1>10 DEF Chain
<1> QED
  BY <1>11 DEF u

\* The header at i is followed by the body it promised and by nothing more.
Whole(s, i) ==
  /\ i + s[i].len <= Len(s)
  /\ \A j \in 1..Len(s) :
       (~ IsHead(s[j]) /\ s[j].id = s[i].id) <=> j \in i + 1..i + s[i].len

\* The responses before the last are whole; of the last p pieces are missing.
Finished(s, a) ==
  \A i \in 1..Len(s) : IsHead(s[i]) /\ s[i].id < a => Whole(s, i)

Current(s, a, p) ==
  \A i \in 1..Len(s) : IsHead(s[i]) /\ s[i].id = a => Len(s) - i + p = s[i].len

LEMMA LenOfToken == \A s \in Seq(Tokens) : \A i \in 1..Len(s) : s[i].len \in Nat
<1> SUFFICES ASSUME NEW s \in Seq(Tokens), NEW i \in 1..Len(s)
             PROVE  s[i].len \in Nat
  OBVIOUS
<1>1. s[i] \in Tokens
  OBVIOUS
<1> QED
  BY <1>1 DEF Tokens

LEMMA CurrentWhole ==
  ASSUME NEW s \in Seq(Tokens), NEW a \in Nat, Chain(s, a), Finished(s, a),
         Current(s, a, 0), NEW i \in 1..Len(s), IsHead(s[i])
  PROVE  Whole(s, i)
<1> DEFINE n == Len(s)
           l == s[i].len
<1>1. n \in Nat /\ l \in Nat
  BY LenOfToken
<1>2. /\ \A j \in 1..n : s[j].id \in 1..a
      /\ \A j, k \in 1..n :
           j < k => s[j].id <= s[k].id /\ (IsHead(s[k]) => s[j].id < s[k].id)
  BY DEF Chain
<1>3. CASE s[i].id < a
  BY <1>3 DEF Finished
<1>4. CASE s[i].id = a
  <2>1. n - i + 0 = l
    BY <1>4 DEF Current
  <2> HIDE DEF n, l
  <2>2. i \in 1..n /\ i + l = n
    BY <1>1, <2>1 DEF n
  <2>3. ASSUME NEW j \in 1..n
        PROVE  (~ IsHead(s[j]) /\ s[j].id = s[i].id) <=> j \in i + 1..i + l
    <3>1. CASE j < i
      <4>1. s[j].id < s[i].id
        BY <1>2, <2>2, <2>3, <3>1
      <4>2. s[j].id # s[i].id
        BY <1>2, <2>2, <2>3, <4>1
      <4>3. j \notin i + 1..i + l
        BY <1>1, <2>2, <2>3, <3>1
      <4> QED
        BY <4>2, <4>3
    <3>2. CASE j = i
      BY <1>1, <2>2, <3>2
    <3>3. CASE j > i
      <4>1. s[i].id <= s[j].id /\ (IsHead(s[j]) => s[i].id < s[j].id)
        BY <1>2, <2>2, <2>3, <3>3
      <4>2. s[j].id \in 1..a
        BY <1>2, <2>3
      <4>3. s[j].id = s[i].id /\ ~ IsHead(s[j])
        BY <1>4, <4>1, <4>2
      <4>4. j \in i + 1..i + l
        BY <1>1, <2>2, <2>3, <3>3
      <4> QED
        BY <4>3, <4>4
    <3> QED
      BY <2>2, <3>1, <3>2, <3>3
  <2>4. i + l <= n
    BY <1>1, <2>2
  <2> QED
    BY <2>3, <2>4 DEF Whole, n, l
<1>5. s[i].id \in 1..a
  BY <1>2
<1> QED
  BY <1>3, <1>4, <1>5

LEMMA HeadFinished ==
  ASSUME NEW s \in Seq(Tokens), NEW a \in Nat, Chain(s, a), Finished(s, a),
         Current(s, a, 0), NEW t \in Tokens, IsHead(t), t.id = a + 1
  PROVE  /\ Finished(Append(s, t), a + 1)
         /\ Current(Append(s, t), a + 1, t.len)
<1> DEFINE u == Append(s, t)
           n == Len(s)
<1>1. /\ n \in Nat /\ Len(u) = n + 1
      /\ \A i \in 1..n : u[i] = s[i]
      /\ u[n + 1] = t
  BY Appended
<1>2. /\ \A j \in 1..n : s[j].id \in 1..a /\ s[j].len \in Nat
      /\ \A i \in 1..n : IsHead(s[i]) => Whole(s, i)
  BY CurrentWhole, LenOfToken DEF Chain
<1>3. \A i \in 1..n : IsHead(s[i]) =>
        /\ i + s[i].len <= n
        /\ \A j \in 1..n :
             (~ IsHead(s[j]) /\ s[j].id = s[i].id) <=> j \in i + 1..i + s[i].len
  BY <1>2 DEF Whole
<1>4. t.len \in Nat
  BY DEF Tokens
<1> HIDE DEF u, n
<1>5. ASSUME NEW i \in 1..n + 1, IsHead(u[i]), u[i].id < a + 1
      PROVE  Whole(u, i)
  <2>1. i \in 1..n /\ u[i] = s[i]
    BY <1>1, <1>5
  <2>2. /\ i + u[i].len <= n /\ u[i].len \in Nat
        /\ \A j \in 1..n :
             (~ IsHead(s[j]) /\ s[j].id = s[i].id) <=> j \in i + 1..i + u[i].len
    BY <1>2, <1>3, <1>5, <2>1
  <2>3. ASSUME NEW j \in 1..n + 1
        PROVE  (~ IsHead(u[j]) /\ u[j].id = u[i].id) <=> j \in i + 1..i + u[i].len
    <3>1. CASE j \in 1..n
      BY <1>1, <2>1, <2>2, <3>1
    <3>2. CASE j = n + 1
      BY <1>1, <2>1, <2>2, <3>2
    <3> QED
      BY <1>1, <3>1, <3>2
  <2>4. i + u[i].len <= n + 1
    BY <1>1, <2>1, <2>2
  <2> QED
    BY <1>1, <2>3, <2>4 DEF Whole
<1>6. ASSUME NEW i \in 1..n + 1, IsHead(u[i]), u[i].id = a + 1
      PROVE  (n + 1) - i + t.len = u[i].len
  <2>1. i = n + 1
    BY <1>1, <1>2, <1>6
  <2> QED
    BY <1>1, <1>4, <2>1
<1>7. Finished(u, a + 1) /\ Current(u, a + 1, t.len)
  BY <1>1, <1>5, <1>6 DEF Finished, Current
<1> QED
  BY <1>7 DEF u

LEMMA BodiesFinished ==
  ASSUME NEW s \in Seq(Tokens), NEW a \in Nat \ {0}, Chain(s, a), Finished(s, a),
         NEW b \in Seq(Tokens),
         \A i \in 1..Len(b) : ~ IsHead(b[i]) /\ b[i].id = a
  PROVE  Finished(s \o b, a)
<1> DEFINE u == s \o b
           n == Len(s)
           m == Len(b)
<1>1. /\ n \in Nat /\ m \in Nat /\ Len(u) = n + m
      /\ \A i \in 1..n : u[i] = s[i]
      /\ \A i \in 1..m : u[n + i] = b[i]
  BY Joined
<1>2. /\ \A i \in 1..m : ~ IsHead(b[i]) /\ b[i].id = a
      /\ \A i \in 1..n : s[i].len \in Nat
  BY LenOfToken
<1>3. \A i \in 1..n : IsHead(s[i]) /\ s[i].id < a =>
        /\ i + s[i].len <= n
        /\ \A j \in 1..n :
             (~ IsHead(s[j]) /\ s[j].id = s[i].id) <=> j \in i + 1..i + s[i].len
  BY DEF Whole, Finished
<1> HIDE DEF u, n, m
<1>4. \A i \in n + 1..n + m : ~ IsHead(u[i]) /\ u[i].id = a
  <2> SUFFICES ASSUME NEW i \in n + 1..n + m PROVE ~ IsHead(u[i]) /\ u[i].id = a
    OBVIOUS
  <2>1. i - n \in 1..m /\ n + (i - n) = i
    BY <1>1
  <2>2. u[n + (i - n)] = b[i - n]
    BY <1>1, <2>1
  <2> QED
    BY <1>2, <2>1, <2>2
<1>5. ASSUME NEW i \in 1..n + m, IsHead(u[i]), u[i].id < a
      PROVE  Whole(u, i)
  <2>1. i \in 1..n /\ u[i] = s[i]
    <3>1. i \notin n + 1..n + m
      BY <1>4, <1>5
    <3>2. i \in 1..n
      BY <1>1, <3>1
    <3> QED
      BY <1>1, <3>2
  <2>2. /\ i + u[i].len <= n /\ u[i].len \in Nat
        /\ \A j \in 1..n :
             (~ IsHead(s[j]) /\ s[j].id = s[i].id) <=> j \in i + 1..i + u[i].len
    BY <1>2, <1>3, <1>5, <2>1
  <2>3. ASSUME NEW j \in 1..n + m
        PROVE  (~ IsHead(u[j]) /\ u[j].id = u[i].id) <=> j \in i + 1..i + u[i].len
    <3>1. CASE j \in 1..n
      BY <1>1, <2>1, <2>2, <3>1
    <3>2. CASE j \in n + 1..n + m
      <4>1. u[j].id # u[i].id
        BY <1>4, <1>5, <3>2
      <4>2. j \notin i + 1..i + u[i].len
        BY <1>1, <2>1, <2>2, <3>2
      <4> QED
        BY <4>1, <4>2
    <3> QED
      BY <1>1, <3>1, <3>2
  <2>4. i + u[i].len <= n + m
    BY <1>1, <2>1, <2>2
  <2> QED
    BY <1>1, <2>3, <2>4 DEF Whole
<1>6. Finished(u, a)
  BY <1>1, <1>5 DEF Finished
<1> QED
  BY <1>6 DEF u

LEMMA BodiesCurrent ==
  ASSUME NEW s \in Seq(Tokens), NEW a \in Nat, NEW p \in Nat,
         NEW b \in Seq(Tokens), Current(s, a, Len(b) + p),
         \A i \in 1..Len(b) : ~ IsHead(b[i])
  PROVE  Current(s \o b, a, p)
<1> DEFINE u == s \o b
           n == Len(s)
           k == Len(b)
<1>1. /\ n \in Nat /\ k \in Nat /\ Len(u) = n + k
      /\ \A i \in 1..n : u[i] = s[i]
      /\ \A i \in 1..k : u[n + i] = b[i]
  BY Joined
<1>2. /\ \A i \in 1..k : ~ IsHead(b[i])
      /\ \A i \in 1..n : IsHead(s[i]) /\ s[i].id = a => n - i + (k + p) = s[i].len
  BY DEF Current
<1> HIDE DEF u, n, k
<1>3. ASSUME NEW i \in 1..n + k, IsHead(u[i]), u[i].id = a
      PROVE  (n + k) - i + p = u[i].len
  <2>1. CASE i \in n + 1..n + k
    <3>1. i - n \in 1..k /\ n + (i - n) = i
      BY <1>1, <2>1
    <3>2. u[n + (i - n)] = b[i - n]
      BY <1>1, <3>1
    <3> QED
      BY <1>2, <1>3, <3>1, <3>2
  <2>2. CASE i \in 1..n
    <3>1. n - i + (k + p) = u[i].len
      BY <1>1, <1>2, <1>3, <2>2
    <3> QED
      BY <1>1, <2>2, <3>1
  <2> QED
    BY <1>1, <2>1, <2>2
<1>4. Current(u, a, p)
  BY <1>1, <1>3 DEF Current
<1> QED
  BY <1>4 DEF u

-----------------------------------------------------------------------------
(* The stream is a chain of responses, unless a full socket or an          *)
(* exception disturbed it; and they are whole but for the last, of which   *)
(* what is pending is missing, unless a transfer was cut.                  *)

Astray == ~ Without({"full", "misconfigured"})

Streamed ==
  /\ ~ Astray => Chain(Stream, answered)
  /\ ~ Mishap => Finished(Stream, answered)
  /\ ~ Mishap /\ why # "lost" => Current(Stream, answered, Pending)

LEMMA AstrayIsMishap == Astray => Mishap
BY DEF Astray, Mishap, Without

LEMMA StreamTyped == Typed => Stream \in Seq(Tokens) /\ answered \in Nat
BY Joined, BoundsAreNat DEF Typed, Stream

LEMMA StreamKept ==
  ASSUME Streamed, Stream' = Stream, answered' = answered,
         Mishap => Mishap', Astray => Astray', why = "none",
         Mishap' \/ why' = "lost" \/ Pending' = Pending
  PROVE  Streamed'
<1>1. ~ Astray' => Chain(Stream', answered')
  BY Zenon DEF Streamed
<1>2. ASSUME ~ Mishap'
      PROVE  Finished(Stream', answered')
  <2>1. Finished(Stream, answered)
    BY <1>2 DEF Streamed
  <2> QED
    BY <2>1, Zenon
<1>3. ASSUME ~ Mishap', why' # "lost"
      PROVE  Current(Stream', answered', Pending')
  <2>1. ~ Mishap /\ Pending' = Pending
    BY <1>3
  <2>2. Current(Stream, answered, Pending)
    BY <2>1 DEF Streamed
  <2> QED
    BY <2>1, <2>2, Zenon
<1> QED
  BY <1>1, <1>2, <1>3 DEF Streamed

\* A step that leads astray leaves nothing to say.
LEMMA AstrayStreamed == Astray' => Streamed'
BY DEF Astray, Streamed, Mishap, Without

LEMMA OneHeadOneBody ==
  ASSUME NEW S, NEW g \in Seq(S), NEW h \in S, NEW b \in Seq(S)
  PROVE  g \o ((<<>> \o <<h>>) \o b) = Append(g \o <<>>, h) \o b
<1>1. g \o <<>> = g /\ <<>> \o <<h>> = <<h>>
  OBVIOUS
<1>2. Append(g, h) = g \o <<h>> /\ <<h>> \in Seq(S)
  BY AppendIsConcat
<1>3. g \o (<<h>> \o b) = (g \o <<h>>) \o b
  BY <1>2, ConcatAssociative
<1> QED
  BY <1>1, <1>2, <1>3, Zenon

LEMMA GotHead ==
  ASSUME Typed, NEW h \in Tokens, NEW b \in Seq(Tokens)
  PROVE  got \o ((<<>> \o <<h>>) \o b) = Append(got \o <<>>, h) \o b
<1>1. got \in Seq(Tokens)
  BY DEF Typed
<1>2. \A g \in Seq(Tokens) :
        g \o ((<<>> \o <<h>>) \o b) = Append(g \o <<>>, h) \o b
  BY OneHeadOneBody
<1> QED
  BY <1>1, <1>2, Zenon

LEMMA GotJoins ==
  ASSUME Typed, NEW b \in Seq(Tokens), NEW c \in Seq(Tokens)
  PROVE  (got \o b) \o c = got \o (b \o c)
<1>1. got \in Seq(Tokens)
  BY DEF Typed
<1>2. \A g \in Seq(Tokens) : (g \o b) \o c = g \o (b \o c)
  BY ConcatAssociative
<1> QED
  BY <1>1, <1>2, Zenon

LEMMA AnswersGrow ==
  ASSUME Typed, answered + 1 <= MaxItems, resp = <<>>, UNCHANGED got,
         NEW keep, NEW len, NEW body, NEW close, Answers(keep, len, body, close)
  PROVE  /\ HeadOf(keep, len) \in Tokens /\ body \in Seq(Tokens)
         /\ IsHead(HeadOf(keep, len)) /\ HeadOf(keep, len).id = answered + 1
         /\ HeadOf(keep, len).len = len /\ HeadOf(keep, len).keep = keep
         /\ \A i \in 1..Len(body) : ~ IsHead(body[i]) /\ body[i].id = answered + 1
         /\ \A i \in 1..Len(body) : body[i].part # "stray"
         /\ Stream' = Append(Stream, HeadOf(keep, len)) \o body
<1> DEFINE h == HeadOf(keep, len)
           s == Append(Stream, h)
           a == answered + 1
<1>1. /\ keep \in BOOLEAN /\ len \in {0, 1, FileSize}
      /\ answered' = a /\ resp' = resp \o <<h>> \o body
      /\ body = <<>> \/ body = <<Body(a)>>
  BY DEF Answers
<1>2. /\ h \in Tokens /\ IsHead(h) /\ h.id = a /\ h.len = len /\ h.keep = keep
      /\ Body(a) \in Tokens /\ ~ IsHead(Body(a)) /\ Body(a).id = a
      /\ Body(a).part # "stray"
  BY <1>1, TokensMade DEF HeadOf, Body, IsHead
<1>3. Stream \in Seq(Tokens) /\ answered \in Nat /\ got \in Seq(Tokens)
  BY StreamTyped DEF Typed
<1> HIDE DEF h, a
<1>4. /\ body \in Seq(Tokens)
      /\ \A i \in 1..Len(body) : ~ IsHead(body[i]) /\ body[i].id = a
                                 /\ body[i].part # "stray"
  <2>1. CASE body = <<>>
    BY <2>1
  <2>2. CASE body = <<Body(a)>>
    <3>1. body \in Seq(Tokens) /\ Len(body) = 1 /\ body[1] = Body(a)
      BY <1>2, <2>2
    <3> QED
      BY <1>2, <3>1
  <2> QED
    BY <1>1, <2>1, <2>2
<1>5. Stream' = s \o body
  <2>1. Stream' = got \o ((<<>> \o <<h>>) \o body)
    BY <1>1 DEF Stream
  <2>2. s \o body = Append(got \o <<>>, h) \o body
    BY DEF Stream
  <2>3. h \in Tokens /\ body \in Seq(Tokens)
    BY <1>2, <1>4
  <2>4. got \o ((<<>> \o <<h>>) \o body) = Append(got \o <<>>, h) \o body
    BY <2>3, GotHead, Zenon
  <2> HIDE DEF s
  <2> QED
    BY <2>1, <2>2, <2>4, Zenon
<1> QED
  BY <1>2, <1>4, <1>5 DEF h, a

LEMMA AnswersStreamed ==
  ASSUME Typed, Xferring, Streamed, answered + 1 <= MaxItems,
         resp = <<>>, UNCHANGED <<got, why>>, xfer.kind = "none", why = "none",
         NEW keep, NEW len, NEW body, NEW close, Answers(keep, len, body, close)
  PROVE  Streamed'
<1> DEFINE h == HeadOf(keep, len)
           s == Append(Stream, h)
           a == answered + 1
<1>1. /\ answered' = a
      /\ \/ UNCHANGED <<xfer, file>> /\ body = <<>> /\ len = 0
         \/ UNCHANGED <<xfer, file>> /\ body = <<Body(a)>> /\ len = 1
         \/ xfer' = Started("get") /\ file' = "open" /\ body = <<>> /\ len = FileSize
         \/ xfer' = Started("list") /\ file' = file /\ body = <<>> /\ len = FileSize
         \/ xfer' = Started("put") /\ file' = "open" /\ body = <<>> /\ len = 0
         \/ /\ xfer' = Started("put") /\ file' = "open"
            /\ body = <<Body(a)>> /\ len = 1
  BY DEF Answers
<1>2. h \in Tokens /\ IsHead(h) /\ h.id = a /\ h.len = len
  BY AnswersGrow
<1>3. Stream \in Seq(Tokens) /\ answered \in Nat
  BY StreamTyped
<1>4. a \in Nat \ {0}
  BY <1>3
<1>6. /\ body \in Seq(Tokens)
      /\ \A i \in 1..Len(body) : ~ IsHead(body[i]) /\ body[i].id = a
      /\ \A i \in 1..Len(body) : body[i].part # "stray"
  BY AnswersGrow
<1>7. Stream' = s \o body
  BY AnswersGrow
<1> HIDE DEF h, a
<1>8. s \in Seq(Tokens)
  BY <1>2, <1>3, Appended
<1>5. /\ ~ Astray' => ~ Astray
      /\ ~ Mishap' => ~ Mishap /\ ~ Astray'
  BY AstrayIsMishap DEF Answers, Mishap, Astray, Without
<1>9. ~ Astray' => Chain(s, a)
  BY <1>2, <1>3, <1>5, ChainHead DEF Streamed, a
<1>10. ~ Astray' => Chain(s \o body, a)
  BY <1>4, <1>6, <1>8, <1>9, ChainBodies
<1>11. ASSUME ~ Mishap'
       PROVE  Finished(s \o body, a) /\ Current(s \o body, a, Pending')
  <2>1. ~ Mishap /\ ~ Astray /\ ~ Astray'
    BY <1>5, <1>11
  <2>2. Finished(Stream, answered) /\ Current(Stream, answered, 0)
    BY <2>1 DEF Streamed, Pending
  <2>3. Finished(s, a) /\ Current(s, a, h.len)
    BY <1>2, <1>3, <2>1, <2>2, HeadFinished DEF Streamed, a
  <2>4. Finished(s \o body, a)
    BY <1>4, <1>6, <1>8, <1>9, <2>1, <2>3, BodiesFinished
  <2>5. Pending' \in Nat /\ Len(body) + Pending' = len
    <3>1. CASE UNCHANGED <<xfer, file>> /\ body = <<>> /\ len = 0
      <4>1. Pending' = 0
        BY <3>1 DEF Pending
      <4> QED
        BY <3>1, <4>1
    <3>2. CASE UNCHANGED <<xfer, file>> /\ body = <<Body(a)>> /\ len = 1
      <4>1. Pending' = 0
        BY <3>2 DEF Pending
      <4> QED
        BY <3>2, <4>1
    <3>3. CASE xfer' \in {Started("get"), Started("list")} /\ body = <<>>
                 /\ len = FileSize
      <4>1. Pending' = FileSize + 0 \/ Pending' = FileSize
        BY <3>3 DEF Pending, Started, Left
      <4> QED
        BY <3>3, <4>1, BoundsAreNat
    <3>4. CASE xfer' = Started("put") /\ body = <<>> /\ len = 0
      <4>1. Pending' = 0
        BY <3>4 DEF Pending, Started
      <4> QED
        BY <3>4, <4>1
    <3>5. CASE xfer' = Started("put") /\ body = <<Body(a)>> /\ len = 1
      <4>1. Pending' = 0
        BY <3>5 DEF Pending, Started
      <4> QED
        BY <3>5, <4>1
    <3> QED
      BY <1>1, <3>1, <3>2, <3>3, <3>4, <3>5
  <2>6. Current(s, a, Len(body) + Pending')
    BY <1>2, <2>3, <2>5
  <2>7. \A i \in 1..Len(body) : ~ IsHead(body[i])
    BY <1>6
  <2> HIDE DEF s
  <2>8. Current(s \o body, a, Pending')
    BY <1>4, <1>6, <1>8, <2>5, <2>6, <2>7, BodiesCurrent
  <2> QED
    BY <2>4, <2>8
<1> HIDE DEF s
<1>12. ~ Astray' => Chain(Stream', answered')
  BY <1>1, <1>7, <1>10, Zenon
<1>13. ASSUME ~ Mishap'
       PROVE  Finished(Stream', answered') /\ Current(Stream', answered', Pending')
  <2>1. Finished(s \o body, a) /\ Current(s \o body, a, Pending')
    BY <1>11, <1>13
  <2> QED
    BY <1>1, <1>7, <2>1, Zenon
<1> QED
  BY <1>12, <1>13 DEF Streamed

LEMMA SendsGrow ==
  ASSUME Typed, Xferring, NEW b, Sends(b)
  PROVE  /\ b \in Seq(Tokens)
         /\ \A i \in 1..Len(b) : ~ IsHead(b[i])
         /\ \A i \in 1..Len(b) :
              "misconfigured" \in met \/ b[i].id = answered
         /\ \A i \in 1..Len(b) : Astray' \/ b[i].part # "stray"
         /\ Stream' = Stream \o b
<1>1. /\ b \in Seq(Tokens) /\ \A i \in 1..Len(b) : PieceOf(b[i])
      /\ resp = <<>> /\ resp' = <<>> /\ got' = got \o b
      /\ xfer.kind # "none"
      /\ "full" \in met' \/ \A i \in 1..Len(b) : b[i].part # "stray"
  BY DEF Sends
<1>2. "misconfigured" \in met \/ xfer.id = answered
  BY <1>1 DEF Xferring
<1>3. /\ \A i \in 1..Len(b) : ~ IsHead(b[i])
      /\ \A i \in 1..Len(b) : "misconfigured" \in met \/ b[i].id = answered
  BY <1>1, <1>2 DEF PieceOf
<1>4. \A i \in 1..Len(b) : Astray' \/ b[i].part # "stray"
  BY <1>1 DEF Astray, Without
<1>5. got \in Seq(Tokens) /\ Stream \in Seq(Tokens)
  BY StreamTyped DEF Typed
<1>6. Stream' = Stream \o b
  <2>1. \A s \in Seq(Tokens) : s \o <<>> = s
    BY ConcatEmptySeq
  <2>2. got \o b \in Seq(Tokens)
    BY <1>1, <1>5, Joined
  <2>3. Stream' = (got \o b) \o <<>> /\ Stream = got \o <<>>
    BY <1>1 DEF Stream
  <2> QED
    BY <1>5, <2>1, <2>2, <2>3, Zenon
<1> QED
  BY <1>1, <1>3, <1>4, <1>6

LEMMA SendsStreamed ==
  ASSUME Typed, Xferring, Streamed, NEW b, Sends(b)
  PROVE  Streamed'
<1>1. /\ answered' = answered
      /\ Mishap' \/ why' = "lost" \/ Pending = Len(b) + Pending'
      /\ xfer.kind # "none" /\ phase # "gone" /\ Befalls
  BY DEF Sends
<1>2. answered \in Nat \ {0} /\ why = "none"
  BY <1>1, StreamTyped DEF Xferring
<1>3. SUFFICES ASSUME ~ Astray'
               PROVE  Streamed'
  BY AstrayStreamed
<1>4. ~ Astray /\ (Mishap => Mishap')
  BY <1>1, <1>3, BefallsGives DEF Astray, Without
<1>5. /\ b \in Seq(Tokens)
      /\ \A i \in 1..Len(b) : ~ IsHead(b[i]) /\ b[i].id = answered
      /\ \A i \in 1..Len(b) : b[i].part # "stray"
      /\ Stream' = Stream \o b
  BY <1>3, <1>4, SendsGrow DEF Astray, Without
<1>6. Stream \in Seq(Tokens) /\ Chain(Stream, answered)
  BY <1>4, StreamTyped DEF Streamed
<1>7. Chain(Stream \o b, answered)
  BY <1>2, <1>5, <1>6, ChainBodies
<1>8. ~ Mishap' => Finished(Stream \o b, answered)
  BY <1>2, <1>4, <1>5, <1>6, BodiesFinished DEF Streamed
<1>9. ASSUME ~ Mishap', why' # "lost"
      PROVE  Current(Stream \o b, answered, Pending')
  <2>1. Current(Stream, answered, Pending) /\ Pending = Len(b) + Pending'
    BY <1>1, <1>2, <1>4, <1>9 DEF Streamed
  <2>2. Pending' \in Nat
    <3>1. xfer' \in Transfers
      BY SendsTyped DEF Typed
    <3>2. xfer'.rest \in Nat
      BY <3>1, BoundsAreNat DEF Transfers
    <3> QED
      BY <3>2 DEF Pending, Left
  <2>3. Current(Stream, answered, Len(b) + Pending')
    BY <2>1, Zenon
  <2>4. \A i \in 1..Len(b) : ~ IsHead(b[i])
    BY <1>5
  <2> QED
    BY <1>2, <1>5, <1>6, <2>2, <2>3, <2>4, BodiesCurrent
<1>10. Chain(Stream', answered')
  BY <1>1, <1>5, <1>7, Zenon
<1>11. ~ Mishap' => Finished(Stream', answered')
  BY <1>1, <1>5, <1>8, Zenon
<1>12. ASSUME ~ Mishap', why' # "lost"
       PROVE  Current(Stream', answered', Pending')
  <2>1. Current(Stream \o b, answered, Pending')
    BY <1>9, <1>12
  <2> QED
    BY <1>1, <1>5, <2>1, Zenon
<1> QED
  BY <1>10, <1>11, <1>12 DEF Streamed

LEMMA ReadLineStreamed ==
  ASSUME Typed, Xferring, Streamed, ReadLine
  PROVE  Streamed'
<1>1. /\ ~ closing /\ inq # <<>> /\ phase = "wait" /\ xfer.kind = "none"
      /\ resp = <<>> /\ Interpret(inq[1]) /\ UNCHANGED <<got, why>>
  BY DEF ReadLine, Reading
<1>2. why = "none" /\ Fresh
  BY <1>1 DEF Xferring, Typed
<1>3. answered + 1 <= MaxItems
  BY <1>1, ReadLineRoom
<1>4. CASE Remembers(inq[1])
  <2>1. /\ Stream' = Stream /\ answered' = answered /\ Pending' = Pending
        /\ Mishap => Mishap'
        /\ Astray => Astray'
    BY <1>1, <1>4 DEF Remembers, Stream, Mishap, Astray, Without, Pending
  <2> QED
    BY <1>2, <2>1, StreamKept
<1>5. ASSUME NEW keep, NEW len, NEW body, NEW close,
             Answers(keep, len, body, close)
      PROVE  Streamed'
  BY <1>1, <1>2, <1>3, <1>5, AnswersStreamed
<1>6. ASSUME NEW keep, NEW len, Twice(keep, len)
      PROVE  Streamed'
  <2>1. Astray'
    BY <1>6 DEF Twice, Astray, Without
  <2> QED
    BY <2>1, AstrayStreamed
<1> QED
  BY <1>1, <1>2, <1>4, <1>5, <1>6, Interpreted

LEMMA WriteKeeps ==
  ASSUME Typed, NEW k \in 0..Len(resp), WriteResponse(k)
  PROVE  Stream' = Stream
<1> DEFINE part == SubSeq(resp, 1, k)
           rest == SubSeq(resp, k + 1, Len(resp))
<1>1. Stream' = (got \o part) \o rest
  BY DEF WriteResponse, Stream
<1>2. part \in Seq(Tokens) /\ rest \in Seq(Tokens) /\ part \o rest = resp
  BY SplitIsWhole DEF Typed, Split
<1> HIDE DEF part, rest
<1>3. (got \o part) \o rest = got \o (part \o rest)
  BY <1>2, GotJoins, Zenon
<1> QED
  BY <1>1, <1>2, <1>3, Zenon DEF Stream

LEMMA OtherStepsKeep ==
  ASSUME Typed, Xferring,
         \/ \E item \in Items : Ask(item)
         \/ Quiet
         \/ \E k \in 0..Len(resp) : WriteResponse(k)
  PROVE  /\ Stream' = Stream /\ UNCHANGED <<answered, closing>>
         /\ (Mishap => Mishap') /\ (Astray => Astray') /\ why = "none"
         /\ Mishap' \/ why' = "lost" \/ Pending' = Pending
         /\ "error" \in met' <=> "error" \in met
         /\ "misconfigured" \in met' <=> "misconfigured" \in met
         /\ "full" \in met => "full" \in met'
         /\ why' = "done" => resp' = <<>> /\ closing /\ xfer'.kind = "none"
<1>1. CASE \E item \in Items : Ask(item)
  <2>1. UNCHANGED <<got, resp, answered, closing, xfer, why, met>> /\ phase # "gone"
    BY <1>1 DEF Ask, server
  <2> QED
    BY <2>1 DEF Stream, Mishap, Astray, Without, Pending, Xferring
<1>2. CASE Quiet
  <2>1. Mishap' \/ why' = "lost" \/ Pending' = Pending
    BY <1>2 DEF Quiet, Pending, NoXfer
  <2>2. Befalls
    BY <1>2 DEF Quiet
  <2>3. Astray => Astray'
    BY <2>2, BefallsGives DEF Astray, Without
  <2>4. /\ Stream' = Stream /\ UNCHANGED <<answered, closing>> /\ why = "none"
        /\ why' = "done" => resp' = <<>> /\ closing /\ xfer'.kind = "none"
    BY <1>2 DEF Quiet, Stream, Xferring, NoXfer
  <2> QED
    BY <2>1, <2>2, <2>3, <2>4, BefallsGives
<1>3. CASE \E k \in 0..Len(resp) : WriteResponse(k)
  <2>1. Stream' = Stream
    BY <1>3, WriteKeeps
  <2>2. UNCHANGED <<answered, closing, xfer, why, met>> /\ phase = "write"
    BY <1>3 DEF WriteResponse
  <2> QED
    BY <2>1, <2>2 DEF Mishap, Astray, Without, Pending, Xferring
<1> QED
  BY <1>1, <1>2, <1>3

LEMMA StepStreamed ==
  ASSUME Typed, Xferring, Streamed, [Next]_vars
  PROVE  Streamed'
<1>1. CASE UNCHANGED vars
  <2>1. UNCHANGED <<Stream, answered, Mishap, Astray, Pending, why>>
    BY <1>1 DEF vars, server, Stream, Mishap, Astray, Without, Pending
  <2> QED
    BY <2>1, Zenon DEF Streamed
<1>2. CASE Next
  <2>1. Steps
    BY <1>2, NextSteps
  <2>2. CASE \/ \E item \in Items : Ask(item)
             \/ Quiet
             \/ \E k \in 0..Len(resp) : WriteResponse(k)
    BY <2>2, OtherStepsKeep, StreamKept
  <2>3. CASE ReadLine
    BY <2>3, ReadLineStreamed
  <2>4. CASE \E b : Sends(b)
    BY <2>4, SendsStreamed
  <2>5. CASE FullSocket
    <3>1. Astray'
      BY <2>5 DEF FullSocket, Meet, Astray, Without
    <3> QED
      BY <3>1, AstrayStreamed
  <2> QED
    BY <2>1, <2>2, <2>3, <2>4, <2>5 DEF Steps
<1> QED
  BY <1>1, <1>2

LEMMA InitStreamed == Init => Streamed
<1> SUFFICES ASSUME Init PROVE Streamed
  OBVIOUS
<1>1. Stream = <<>> \o <<>> /\ answered = 0
  BY DEF Init, Stream
<1>2. Len(Stream) = 0 /\ Stream = <<>>
  BY <1>1
<1> QED
  BY <1>1, <1>2 DEF Streamed, Chain, Finished, Current

-----------------------------------------------------------------------------
(* What the client has been sent is a prefix of the stream.                *)

LEMMA GotIsPrefix ==
  ASSUME Typed
  PROVE  /\ Len(got) \in Nat /\ Len(Stream) \in Nat /\ Len(got) <= Len(Stream)
         /\ \A i \in 1..Len(got) : Stream[i] = got[i] /\ got[i] \in Tokens
         /\ resp = <<>> => Len(got) = Len(Stream)
<1>1. got \in Seq(Tokens) /\ resp \in Seq(Tokens)
  BY DEF Typed
<1>2. /\ Len(got) \in Nat /\ Len(resp) \in Nat
      /\ Len(Stream) = Len(got) + Len(resp)
      /\ \A i \in 1..Len(got) : Stream[i] = got[i]
  BY <1>1, Joined DEF Stream
<1>3. resp = <<>> => Len(resp) = 0
  OBVIOUS
<1>4. \A i \in 1..Len(got) : got[i] \in Tokens
  BY <1>1
<1> QED
  BY <1>2, <1>3, <1>4

LEMMA BodyOfWhole ==
  ASSUME Typed, NEW i \in 1..Len(got), Whole(Stream, i), i + got[i].len <= Len(got),
         \A j \in 1..Len(Stream) : Stream[j].part # "stray"
  PROVE  Cardinality(BodyOf(i)) = got[i].len
<1> DEFINE n == Len(got)
           l == got[i].len
<1>1. /\ n \in Nat /\ Len(Stream) \in Nat /\ n <= Len(Stream)
      /\ \A j \in 1..n : Stream[j] = got[j] /\ got[j] \in Tokens
  BY GotIsPrefix
<1>2. l \in Nat /\ i \in 1..n /\ i + l <= n
  BY <1>1 DEF Tokens
<1>3. \A j \in 1..n : IsHead(got[j]) <=> got[j].part # "body"
  BY <1>1 DEF Tokens, IsHead
<1>4. \A j \in 1..n :
        (~ IsHead(got[j]) /\ got[j].id = got[i].id) <=> j \in i + 1..i + l
  <2>1. \A j \in 1..Len(Stream) :
          (~ IsHead(Stream[j]) /\ Stream[j].id = Stream[i].id)
            <=> j \in i + 1..i + Stream[i].len
    BY DEF Whole
  <2>2. Stream[i] = got[i]
    BY <1>1
  <2> QED
    BY <1>1, <2>1, <2>2
<1>5. BodyOf(i) = {j \in 1..n : j \in i + 1..i + l}
  BY <1>3, <1>4 DEF BodyOf
<1> HIDE DEF n, l
<1>6. {j \in 1..n : j \in i + 1..i + l} = i + 1..i + l
  BY <1>1, <1>2
<1>7. Cardinality(i + 1..i + l) = l
  <2>1. i + 1 \in Int /\ i + l \in Int
    BY <1>1, <1>2
  <2>2. Cardinality(i + 1..i + l) = IF i + 1 > i + l THEN 0 ELSE (i + l) - (i + 1) + 1
    BY <2>1, FS_Interval
  <2> QED
    BY <1>1, <1>2, <2>2
<1> QED
  BY <1>5, <1>6, <1>7 DEF l

LEMMA StreamedGivesBodies ==
  ASSUME Typed, Xferring, Streamed,
         why = "done" => resp = <<>> /\ closing /\ xfer.kind = "none"
  PROVE  BodiesWhole
<1> SUFFICES ASSUME ~ Mishap, NEW i \in Heads,
                    why = "done" \/ \E j \in Heads : j > i
             PROVE  Cardinality(BodyOf(i)) = got[i].len
  BY DEF BodiesWhole, Mishap
<1>1. /\ Len(got) \in Nat /\ Len(Stream) \in Nat /\ Len(got) <= Len(Stream)
      /\ \A j \in 1..Len(got) : Stream[j] = got[j] /\ got[j] \in Tokens
      /\ resp = <<>> => Len(got) = Len(Stream)
  BY GotIsPrefix
<1>2. /\ i \in 1..Len(got) /\ i \in 1..Len(Stream)
      /\ IsHead(Stream[i]) /\ Stream[i] = got[i]
  BY <1>1 DEF Heads, IsHead
<1>3. /\ Chain(Stream, answered) /\ Finished(Stream, answered)
      /\ Stream \in Seq(Tokens) /\ answered \in Nat
  BY StreamTyped, AstrayIsMishap DEF Streamed
<1>6. \A j \in 1..Len(Stream) : Stream[j].part # "stray"
  BY <1>3 DEF Chain
<1>4. CASE why = "done"
  <2>1. Current(Stream, answered, 0)
    BY <1>4 DEF Streamed, Pending
  <2>2. Whole(Stream, i)
    BY <1>2, <1>3, <2>1, CurrentWhole
  <2>3. i + got[i].len <= Len(got)
    BY <1>1, <1>2, <1>4, <2>2 DEF Whole
  <2> QED
    BY <1>2, <2>2, <2>3, <1>6, BodyOfWhole
<1>5. ASSUME NEW j \in Heads, j > i
      PROVE  Cardinality(BodyOf(i)) = got[i].len
  <2>1. j \in 1..Len(got) /\ j \in 1..Len(Stream) /\ IsHead(Stream[j])
    BY <1>1 DEF Heads, IsHead
  <2>2. Stream[i].id < Stream[j].id /\ Stream[j].id \in 1..answered
          /\ Stream[i].id \in 1..answered
    BY <1>2, <1>3, <1>5, <2>1 DEF Chain
  <2>3. Whole(Stream, i)
    <3>1. Stream[i].id < answered
      BY <1>3, <2>2
    <3> QED
      BY <1>2, <1>3, <3>1 DEF Finished
  <2>4. i + got[i].len <= Len(got)
    <3>1. j \notin i + 1..i + Stream[i].len
      BY <2>1, <2>3 DEF Whole
    <3>2. got[i].len \in Nat
      BY <1>1, <1>2 DEF Tokens
    <3> QED
      BY <1>1, <1>2, <1>5, <2>1, <3>1, <3>2
  <2> QED
    BY <1>2, <2>3, <2>4, <1>6, BodyOfWhole
<1> QED
  BY <1>4, <1>5

-----------------------------------------------------------------------------
(* A full socket drops or tears a response, but brings none out of order.  *)

Rising(s, a) ==
  /\ \A i \in 1..Len(s) : s[i].id \in 1..a
  /\ \A i, j \in 1..Len(s) : i < j => s[i].id <= s[j].id
  /\ \A i, j \in 1..Len(s) :
       i < j /\ IsHead(s[i]) /\ IsHead(s[j]) => s[i].id < s[j].id

Raised == "misconfigured" \notin met => Rising(Stream, answered)

LEMMA RisingJoined ==
  ASSUME NEW s \in Seq(Tokens), NEW a \in Nat, Rising(s, a),
         NEW c \in Nat, c >= a, NEW t \in Seq(Tokens), Rising(t, c),
         \A i \in 1..Len(t) : t[i].id >= a /\ (IsHead(t[i]) => t[i].id > a)
  PROVE  Rising(s \o t, c)
<1> DEFINE u == s \o t
           n == Len(s)
           m == Len(t)
<1>1. /\ n \in Nat /\ m \in Nat /\ Len(u) = n + m
      /\ \A i \in 1..n : u[i] = s[i]
      /\ \A i \in 1..m : u[n + i] = t[i]
  BY Joined
<1>2. /\ \A i \in 1..n : s[i].id \in 1..a
      /\ \A i, j \in 1..n : i < j => s[i].id <= s[j].id
      /\ \A i, j \in 1..n :
           i < j /\ IsHead(s[i]) /\ IsHead(s[j]) => s[i].id < s[j].id
  BY DEF Rising
<1>3. /\ \A i \in 1..m : t[i].id \in 1..c
      /\ \A i, j \in 1..m : i < j => t[i].id <= t[j].id
      /\ \A i, j \in 1..m :
           i < j /\ IsHead(t[i]) /\ IsHead(t[j]) => t[i].id < t[j].id
  BY DEF Rising
<1>4. \A i \in 1..m : t[i].id >= a /\ (IsHead(t[i]) => t[i].id > a)
  OBVIOUS
<1> HIDE DEF u, n, m
<1>5. ASSUME NEW i \in 1..n + m
      PROVE  \/ i \in 1..n /\ u[i] = s[i]
             \/ i > n /\ i - n \in 1..m /\ u[i] = t[i - n]
  <2>1. CASE i \in 1..n
    BY <1>1, <2>1
  <2>2. CASE i > n
    <3>1. i - n \in 1..m /\ n + (i - n) = i
      BY <1>1, <2>2
    <3>2. u[n + (i - n)] = t[i - n]
      BY <1>1, <3>1
    <3> QED
      BY <2>2, <3>1, <3>2
  <2> QED
    BY <1>1, <2>1, <2>2
<1>6. ASSUME NEW i \in 1..n + m
      PROVE  u[i].id \in 1..c
  <2>1. CASE i \in 1..n /\ u[i] = s[i]
    <3>1. s[i].id \in 1..a
      BY <1>2, <2>1
    <3>2. \A x \in 1..a : x \in 1..c
      OBVIOUS
    <3> QED
      BY <2>1, <3>1, <3>2, Zenon
  <2>2. CASE i - n \in 1..m /\ u[i] = t[i - n]
    BY <1>3, <2>2
  <2> QED
    BY <1>5, <2>1, <2>2
<1>7. ASSUME NEW i \in 1..n + m, NEW j \in 1..n + m, i < j
      PROVE  /\ u[i].id <= u[j].id
             /\ IsHead(u[i]) /\ IsHead(u[j]) => u[i].id < u[j].id
  <2>1. CASE i \in 1..n /\ u[i] = s[i] /\ j \in 1..n /\ u[j] = s[j]
    BY <1>2, <1>7, <2>1
  <2>2. CASE i \in 1..n /\ u[i] = s[i] /\ j - n \in 1..m /\ u[j] = t[j - n]
    <3>1. s[i].id \in 1..a /\ t[j - n].id \in 1..c
      BY <1>2, <1>3, <2>2
    <3>2. t[j - n].id >= a /\ (IsHead(t[j - n]) => t[j - n].id > a)
      BY <1>4, <2>2
    <3> QED
      BY <2>2, <3>1, <3>2
  <2>3. CASE /\ i - n \in 1..m /\ u[i] = t[i - n]
             /\ j - n \in 1..m /\ u[j] = t[j - n]
    <3>1. i - n < j - n
      BY <1>1, <1>7
    <3> QED
      BY <1>3, <2>3, <3>1
  <2>4. i > n => j > n
    BY <1>1, <1>7
  <2>5. n \in Nat /\ (j > n => j \notin 1..n)
    BY <1>1
  <2> QED
    BY <1>5, <2>1, <2>2, <2>3, <2>4, <2>5
<1>8. Rising(u, c)
  BY <1>1, <1>6, <1>7 DEF Rising
<1> QED
  BY <1>8 DEF u

\* One response, or pieces of one.
LEMMA RisingOne ==
  ASSUME NEW a \in Nat, NEW t \in Seq(Tokens), \A i \in 1..Len(t) : t[i].id = a,
         a > 0, Len(t) = 1 \/ \A i \in 1..Len(t) : ~ IsHead(t[i])
  PROVE  Rising(t, a)
BY DEF Rising

LEMMA AnswersRaised ==
  ASSUME Typed, Raised, answered + 1 <= MaxItems,
         resp = <<>>, UNCHANGED got,
         NEW keep, NEW len, NEW body, NEW close, Answers(keep, len, body, close)
  PROVE  Raised'
<1> DEFINE h == HeadOf(keep, len)
           a == answered + 1
<1>1. SUFFICES ASSUME "misconfigured" \notin met'
               PROVE  Rising(Stream', answered')
  BY DEF Raised
<1>2. "misconfigured" \notin met /\ answered' = a
  BY <1>1 DEF Answers
<1>3. /\ h \in Tokens /\ body \in Seq(Tokens) /\ IsHead(h) /\ h.id = a
      /\ \A i \in 1..Len(body) : ~ IsHead(body[i]) /\ body[i].id = a
      /\ Stream' = Append(Stream, h) \o body
  BY AnswersGrow
<1>4. Stream \in Seq(Tokens) /\ answered \in Nat /\ a \in Nat /\ a > answered /\ a > 0
  BY StreamTyped
<1>5. Rising(Stream, answered)
  BY <1>2 DEF Raised
<1> HIDE DEF h, a
<1>6. /\ <<h>> \in Seq(Tokens) /\ Len(<<h>>) = 1 /\ <<h>>[1] = h
      /\ Append(Stream, h) = Stream \o <<h>> /\ Append(Stream, h) \in Seq(Tokens)
  BY <1>3, <1>4, Appended, AppendIsConcat
<1>7. \A i \in 1..Len(<<h>>) : <<h>>[i].id = a
  BY <1>3, <1>6
<1>8. Rising(<<h>>, a) /\ Rising(body, a)
  BY <1>3, <1>4, <1>6, <1>7, RisingOne
<1>9. /\ \A i \in 1..Len(<<h>>) : <<h>>[i].id >= answered
                                    /\ (IsHead(<<h>>[i]) => <<h>>[i].id > answered)
      /\ a >= answered
  BY <1>4, <1>7
<1>10. Rising(Append(Stream, h), a)
  <2>1. Rising(Stream \o <<h>>, a)
    BY <1>4, <1>5, <1>6, <1>8, <1>9, RisingJoined
  <2> QED
    BY <1>6, <2>1, Zenon
<1>11. Rising(Append(Stream, h) \o body, a)
  <2>1. \A i \in 1..Len(body) : body[i].id >= a /\ (IsHead(body[i]) => body[i].id > a)
    BY <1>3, <1>4
  <2>2. a >= a
    BY <1>4
  <2> QED
    BY <1>3, <1>4, <1>6, <1>8, <1>10, <2>1, <2>2, RisingJoined
<1> QED
  BY <1>2, <1>3, <1>11, Zenon

LEMMA SendsRaised ==
  ASSUME Typed, Xferring, Raised, NEW b, Sends(b)
  PROVE  Raised'
<1>1. SUFFICES ASSUME "misconfigured" \notin met'
               PROVE  Rising(Stream', answered')
  BY DEF Raised
<1>2. /\ answered' = answered /\ xfer.kind # "none" /\ Befalls
  BY DEF Sends
<1>3. "misconfigured" \notin met
  BY <1>1, <1>2, BefallsGives
<1>4. /\ b \in Seq(Tokens)
      /\ \A i \in 1..Len(b) : ~ IsHead(b[i])
      /\ \A i \in 1..Len(b) : b[i].id = answered
      /\ Stream' = Stream \o b
  BY <1>3, SendsGrow
<1>5. Stream \in Seq(Tokens) /\ answered \in Nat /\ answered > 0
  BY <1>2, StreamTyped DEF Xferring
<1>6. Rising(b, answered) /\ Rising(Stream, answered)
  BY <1>3, <1>4, <1>5, RisingOne DEF Raised
<1>7. Rising(Stream \o b, answered)
  <2>1. \A i \in 1..Len(b) :
          b[i].id >= answered /\ (IsHead(b[i]) => b[i].id > answered)
    BY <1>4, <1>5
  <2>2. answered >= answered
    BY <1>5
  <2> QED
    BY <1>4, <1>5, <1>6, <2>1, <2>2, RisingJoined
<1> QED
  BY <1>2, <1>4, <1>7, Zenon

\* After a full socket every token of the stream is one that was there, in the
\* same order; the byte that is there twice stands for no header.
Keeps(u, s, k) ==
  /\ k \in [1..Len(u) -> 1..Len(s)] /\ Len(u) \in Nat
  /\ \A i \in 1..Len(u) : u[i].id = s[k[i]].id
  /\ \A i \in 1..Len(u) : IsHead(u[i]) => u[i] = s[k[i]]
  /\ \A i, j \in 1..Len(u) : i < j => k[i] <= k[j]
  /\ \A i, j \in 1..Len(u) : i < j /\ IsHead(u[i]) /\ IsHead(u[j]) => k[i] < k[j]

LEMMA TornKeeps ==
  ASSUME NEW g \in Seq(Tokens), NEW r \in Seq(Tokens), r # <<>>
  PROVE  \E k : Keeps(g \o (<<Torn(r[1])>> \o r), g \o r, k)
<1> DEFINE n == Len(g)
           m == Len(r)
           t == Torn(r[1])
           s == g \o r
           v == <<t>> \o r
           u == g \o v
<1>1. r[1] \in Tokens /\ m \in Nat \ {0} /\ n \in Nat
  BY Dequeued
<1>2. t \in Tokens /\ t.id = r[1].id /\ ~ IsHead(t)
  BY <1>1 DEF Torn, Tokens, IsHead
<1> HIDE DEF t
<1>3. <<t>> \in Seq(Tokens) /\ Len(<<t>>) = 1 /\ <<t>>[1] = t
  BY <1>2
<1>4. /\ v \in Seq(Tokens) /\ Len(v) = 1 + m
      /\ \A i \in 1..1 : v[i] = <<t>>[i]
      /\ \A i \in 1..m : v[1 + i] = r[i]
  BY <1>3, Joined
<1>5. /\ Len(s) = n + m
      /\ \A i \in 1..n : s[i] = g[i]
      /\ \A i \in 1..m : s[n + i] = r[i]
  BY Joined
<1>6. v[1] = t
  BY <1>3, <1>4
<1>16. v \in Seq(Tokens)
  BY <1>4
<1> HIDE DEF v
<1>17. /\ Len(u) = n + Len(v)
       /\ \A i \in 1..n : u[i] = g[i]
       /\ \A i \in 1..Len(v) : u[n + i] = v[i]
  BY <1>16, Joined
<1> HIDE DEF u
<1>7. /\ Len(u) = n + (1 + m)
      /\ \A i \in 1..n : u[i] = g[i]
      /\ \A i \in 1..1 + m : u[n + i] = v[i]
  BY <1>4, <1>17
<1> DEFINE k == [i \in 1..n + (1 + m) |-> IF i <= n + 1 THEN i ELSE i - 1]
<1> HIDE DEF s, n, m
<1>8. k \in [1..n + (1 + m) -> 1..n + m]
  BY <1>1
<1>9. \A i \in 1..n + (1 + m) : k[i] = IF i <= n + 1 THEN i ELSE i - 1
  OBVIOUS
<1> HIDE DEF k
<1>10. ASSUME NEW i \in 1..n + (1 + m)
       PROVE  u[i].id = s[k[i]].id /\ (i # n + 1 => u[i] = s[k[i]])
  <2>1. CASE i <= n
    <3>1. i \in 1..n /\ k[i] = i
      BY <1>1, <1>9, <2>1
    <3> QED
      BY <1>5, <1>7, <3>1
  <2>2. CASE i = n + 1
    <3>1. k[i] = n + 1 /\ 1 \in 1..m /\ 1 \in 1..1 + m
      BY <1>1, <1>9, <2>2
    <3>2. s[n + 1] = r[1] /\ u[n + 1] = v[1]
      BY <1>5, <1>7, <3>1
    <3> QED
      BY <1>2, <1>6, <2>2, <3>1, <3>2
  <2>3. CASE i > n + 1
    <3>1. k[i] = i - 1 /\ i - n - 1 \in 1..m /\ i - n \in 1..1 + m
      BY <1>1, <1>9, <2>3
    <3>2. n + (i - n - 1) = i - 1 /\ n + (i - n) = i /\ 1 + (i - n - 1) = i - n
      BY <1>1
    <3>3. s[n + (i - n - 1)] = r[i - n - 1]
      BY <1>5, <3>1
    <3>4. u[n + (i - n)] = v[i - n]
      BY <1>7, <3>1
    <3>5. v[1 + (i - n - 1)] = r[i - n - 1]
      BY <1>4, <3>1
    <3> QED
      BY <3>1, <3>2, <3>3, <3>4, <3>5
  <2> QED
    BY <1>1, <2>1, <2>2, <2>3
<1>11. ~ IsHead(u[n + 1])
  <2>1. 1 \in 1..1 + m
    BY <1>1
  <2> QED
    BY <1>2, <1>6, <1>7, <2>1
<1>12. \A i, j \in 1..n + (1 + m) : i < j => k[i] <= k[j]
  BY <1>1, <1>9
<1>13. \A i, j \in 1..n + (1 + m) :
         i < j /\ i # n + 1 => k[i] < k[j]
  BY <1>1, <1>9
<1>14. Len(u) \in Nat
  BY <1>1, <1>7
<1>15. Keeps(u, s, k)
  BY <1>5, <1>7, <1>8, <1>10, <1>11, <1>12, <1>13, <1>14 DEF Keeps
<1> QED
  BY <1>15 DEF u, s, v, t

LEMMA FullSocketKeeps ==
  ASSUME Typed, FullSocket
  PROVE  \E k : Keeps(Stream', Stream, k)
<1>1. got \in Seq(Tokens) /\ resp \in Seq(Tokens)
  BY DEF Typed
<1>2. /\ got' = got /\ resp # <<>>
      /\ resp' = <<Torn(resp[1])>> \o resp \/ resp' = <<>>
  BY DEF FullSocket
<1>3. CASE resp' = <<Torn(resp[1])>> \o resp
  <2>1. Stream' = got \o (<<Torn(resp[1])>> \o resp)
    BY <1>2, <1>3 DEF Stream
  <2>2. \E k : Keeps(got \o (<<Torn(resp[1])>> \o resp), got \o resp, k)
    BY <1>1, <1>2, TornKeeps
  <2> QED
    BY <2>1, <2>2, Zenon DEF Stream
<1>4. CASE resp' = <<>>
  <2> DEFINE k == [i \in 1..Len(got) |-> i]
  <2>1. Stream' = got
    BY <1>1, <1>2, <1>4 DEF Stream
  <2>2. /\ Len(got) \in Nat /\ Len(Stream) \in Nat /\ Len(got) <= Len(Stream)
        /\ \A i \in 1..Len(got) : Stream[i] = got[i]
    BY GotIsPrefix
  <2>3. k \in [1..Len(got) -> 1..Len(Stream)] /\ \A i \in 1..Len(got) : k[i] = i
    BY <2>2
  <2> HIDE DEF k
  <2>4. Keeps(got, Stream, k)
    BY <2>2, <2>3 DEF Keeps
  <2> QED
    BY <2>1, <2>4, Zenon
<1> QED
  BY <1>2, <1>3, <1>4

LEMMA FullSocketRaised ==
  ASSUME Typed, Raised, FullSocket
  PROVE  Raised'
<1>1. SUFFICES ASSUME "misconfigured" \notin met'
               PROVE  Rising(Stream', answered')
  BY DEF Raised
<1>2. answered' = answered /\ "misconfigured" \notin met
  BY <1>1 DEF FullSocket, Meet
<1> DEFINE s == Stream
           u == Stream'
<1>3. PICK k : Keeps(u, s, k)
  BY FullSocketKeeps
<1>4. Rising(s, answered) /\ answered \in Nat /\ s \in Seq(Tokens)
  BY <1>2, StreamTyped DEF Raised
<1> HIDE DEF s, u
<1>5. Len(s) \in Nat
  BY <1>4
<1>6. /\ \A i \in 1..Len(s) : s[i].id \in 1..answered
      /\ \A i, j \in 1..Len(s) : i < j => s[i].id <= s[j].id
      /\ \A i, j \in 1..Len(s) :
           i < j /\ IsHead(s[i]) /\ IsHead(s[j]) => s[i].id < s[j].id
  BY <1>4 DEF Rising
<1>7. \A i \in 1..Len(u) : k[i] \in 1..Len(s) /\ u[i].id = s[k[i]].id
  BY <1>3 DEF Keeps
<1>8. ASSUME NEW i \in 1..Len(u), NEW j \in 1..Len(u), i < j
      PROVE  u[i].id <= u[j].id
  <2>1. k[i] \in 1..Len(s) /\ k[j] \in 1..Len(s) /\ k[i] <= k[j]
    BY <1>3, <1>7, <1>8 DEF Keeps
  <2>2. k[i] < k[j] \/ k[i] = k[j]
    BY <1>5, <2>1
  <2>3. s[k[i]].id \in 1..answered /\ s[k[j]].id \in 1..answered
    BY <1>6, <2>1
  <2>4. s[k[i]].id <= s[k[j]].id
    BY <1>4, <1>6, <2>1, <2>2, <2>3
  <2> QED
    BY <1>7, <2>4
<1>9. ASSUME NEW i \in 1..Len(u), NEW j \in 1..Len(u), i < j,
             IsHead(u[i]), IsHead(u[j])
      PROVE  u[i].id < u[j].id
  <2>1. /\ k[i] \in 1..Len(s) /\ k[j] \in 1..Len(s) /\ k[i] < k[j]
        /\ u[i] = s[k[i]] /\ u[j] = s[k[j]]
    BY <1>3, <1>7, <1>9 DEF Keeps
  <2> QED
    BY <1>6, <1>9, <2>1
<1>10. \A i \in 1..Len(u) : u[i].id \in 1..answered
  BY <1>6, <1>7
<1>11. Rising(u, answered)
  BY <1>8, <1>9, <1>10 DEF Rising
<1> QED
  BY <1>2, <1>11, Zenon DEF u

LEMMA StepRaised ==
  ASSUME Typed, Xferring, Raised, [Next]_vars
  PROVE  Raised'
<1>1. ASSUME Stream' = Stream, answered' = answered,
             "misconfigured" \in met => "misconfigured" \in met'
      PROVE  Raised'
  <2>1. "misconfigured" \notin met' => Rising(Stream', answered')
    BY <1>1, Zenon DEF Raised
  <2> QED
    BY <2>1 DEF Raised
<1>2. CASE UNCHANGED vars
  <2>1. Stream' = Stream /\ answered' = answered /\ met' = met
    BY <1>2 DEF vars, server, Stream
  <2> QED
    BY <1>1, <2>1
<1>3. CASE Next
  <2>1. Steps
    BY <1>3, NextSteps
  <2>2. CASE \/ \E item \in Items : Ask(item)
             \/ Quiet
             \/ \E k \in 0..Len(resp) : WriteResponse(k)
    BY <1>1, <2>2, OtherStepsKeep
  <2>3. CASE ReadLine
    <3>1. /\ ~ closing /\ inq # <<>> /\ resp = <<>> /\ Interpret(inq[1])
          /\ UNCHANGED got /\ Fresh
      BY <2>3 DEF ReadLine, Reading, Typed
    <3>2. answered + 1 <= MaxItems
      BY <3>1, ReadLineRoom
    <3>3. CASE Remembers(inq[1])
      <4>1. /\ Stream' = Stream /\ answered' = answered
            /\ "misconfigured" \in met => "misconfigured" \in met'
        BY <3>1, <3>3 DEF Remembers, Stream
      <4> QED
        BY <1>1, <4>1
    <3>4. ASSUME NEW keep, NEW len, NEW body, NEW close,
                 Answers(keep, len, body, close)
          PROVE  Raised'
      BY <3>1, <3>2, <3>4, AnswersRaised
    <3>5. ASSUME NEW keep, NEW len, Twice(keep, len)
          PROVE  Raised'
      BY <3>5 DEF Twice, Raised
    <3> QED
      BY <3>1, <3>3, <3>4, <3>5, Interpreted
  <2>4. CASE \E b : Sends(b)
    BY <2>4, SendsRaised
  <2>5. CASE FullSocket
    BY <2>5, FullSocketRaised
  <2> QED
    BY <2>1, <2>2, <2>3, <2>4, <2>5 DEF Steps
<1> QED
  BY <1>2, <1>3

LEMMA InitRaised == Init => Raised
<1> SUFFICES ASSUME Init PROVE Raised
  OBVIOUS
<1>1. Len(Stream) = 0
  BY DEF Init, Stream
<1> QED
  BY <1>1 DEF Raised, Rising

-----------------------------------------------------------------------------
(* The header that says that the connection will be closed: only the last  *)
(* one does, and if no command failed and no full socket dropped it, there *)
(* is one when it is to be.                                                *)

Parts(s, i) == IsHead(s[i]) /\ ~ s[i].keep

Agreed ==
  /\ "misconfigured" \notin met =>
       \A i \in 1..Len(Stream) :
         Parts(Stream, i) => closing /\ Stream[i].id = answered
  /\ closing /\ Without({"error", "full"}) =>
       \E i \in 1..Len(Stream) : Parts(Stream, i)
  /\ why = "done" => resp = <<>> /\ closing /\ xfer.kind = "none"

LEMMA Longer ==
  ASSUME NEW s \in Seq(Tokens), NEW h \in Tokens, NEW b \in Seq(Tokens),
         IsHead(h), \A i \in 1..Len(b) : ~ IsHead(b[i])
  PROVE  LET u == Append(s, h) \o b
         IN  /\ Len(s) \in Nat /\ Len(u) \in Nat /\ Len(u) > Len(s)
             /\ \A i \in 1..Len(s) : u[i] = s[i]
             /\ u[Len(s) + 1] = h
             /\ \A i \in 1..Len(u) : IsHead(u[i]) => i \in 1..Len(s) + 1
<1> DEFINE t == Append(s, h)
           u == t \o b
           n == Len(s)
           m == Len(b)
<1>1. /\ n \in Nat /\ t \in Seq(Tokens) /\ Len(t) = n + 1
      /\ \A i \in 1..n : t[i] = s[i]
      /\ t[n + 1] = h
  BY Appended
<1>2. \A i \in 1..m : ~ IsHead(b[i])
  OBVIOUS
<1>7. t \in Seq(Tokens)
  BY <1>1
<1> HIDE DEF t
<1>3. /\ m \in Nat /\ Len(u) = Len(t) + m
      /\ \A i \in 1..Len(t) : u[i] = t[i]
      /\ \A i \in 1..m : u[Len(t) + i] = b[i]
  BY <1>7, Joined
<1> HIDE DEF u, n, m
<1>4. /\ Len(u) = n + 1 + m
      /\ \A i \in 1..n + 1 : u[i] = t[i]
      /\ \A i \in 1..m : u[n + 1 + i] = b[i]
  BY <1>1, <1>3
<1>5. ASSUME NEW i \in 1..Len(u), IsHead(u[i])
      PROVE  i \in 1..n + 1
  <2>1. CASE i \in n + 2..n + 1 + m
    <3>1. i - n - 1 \in 1..m /\ n + 1 + (i - n - 1) = i
      BY <1>1, <1>3, <2>1
    <3>2. u[n + 1 + (i - n - 1)] = b[i - n - 1]
      BY <1>4, <3>1
    <3> QED
      BY <1>2, <1>5, <3>1, <3>2
  <2> QED
    BY <1>1, <1>3, <1>4, <2>1
<1>6. /\ \A i \in 1..n : u[i] = s[i]
      /\ u[n + 1] = h
      /\ Len(u) \in Nat /\ Len(u) > n
  BY <1>1, <1>3, <1>4
<1> QED
  BY <1>1, <1>5, <1>6 DEF u, t, n

LEMMA AnswersAgreed ==
  ASSUME Typed, Agreed, answered + 1 <= MaxItems, ~ closing,
         resp = <<>>, UNCHANGED <<got, why>>, why = "none",
         NEW keep, NEW len, NEW body, NEW close, Answers(keep, len, body, close)
  PROVE  Agreed'
<1> DEFINE h == HeadOf(keep, len)
           u == Append(Stream, h) \o body
           n == Len(Stream)
<1>1. /\ h \in Tokens /\ body \in Seq(Tokens) /\ IsHead(h)
      /\ h.id = answered + 1 /\ h.keep = keep
      /\ \A i \in 1..Len(body) : ~ IsHead(body[i])
      /\ Stream' = u
  BY AnswersGrow
<1>2. /\ answered' = answered + 1 /\ closing' = close /\ (~ keep => close)
      /\ "error" \in met' \/ (close => ~ keep)
      /\ keep \in BOOLEAN /\ close \in BOOLEAN
      /\ "misconfigured" \in met => "misconfigured" \in met'
  BY DEF Answers
<1>3. Stream \in Seq(Tokens)
  BY StreamTyped
<1> HIDE DEF h
<1>4. /\ n \in Nat /\ Len(u) \in Nat /\ Len(u) > n
      /\ \A i \in 1..n : u[i] = Stream[i]
      /\ u[n + 1] = h
      /\ \A i \in 1..Len(u) : IsHead(u[i]) => i \in 1..n + 1
  BY <1>1, <1>3, Longer
<1>5. "misconfigured" \notin met => \A i \in 1..n : ~ Parts(Stream, i)
  BY DEF Agreed
<1> HIDE DEF u, n
<1>6. ASSUME "misconfigured" \notin met', NEW i \in 1..Len(u), Parts(u, i)
      PROVE  close /\ u[i].id = answered + 1
  <2>1. i = n + 1
    BY <1>2, <1>4, <1>5, <1>6 DEF Parts
  <2> QED
    BY <1>1, <1>2, <1>4, <1>6, <2>1 DEF Parts
<1>7. close /\ "error" \notin met' => \E i \in 1..Len(u) : Parts(u, i)
  <2> SUFFICES ASSUME close, "error" \notin met'
               PROVE  \E i \in 1..Len(u) : Parts(u, i)
    BY <1>2
  <2>1. Parts(u, n + 1) /\ n + 1 \in 1..Len(u)
    BY <1>1, <1>2, <1>4 DEF Parts
  <2> QED
    BY <2>1
<1>8. "misconfigured" \notin met' =>
        \A i \in 1..Len(Stream') :
          Parts(Stream', i) => closing' /\ Stream'[i].id = answered'
  BY <1>1, <1>2, <1>6
<1>9. closing' /\ "error" \notin met' => \E i \in 1..Len(Stream') : Parts(Stream', i)
  BY <1>1, <1>2, <1>7
<1>10. why' # "done"
  OBVIOUS
<1> QED
  BY <1>8, <1>9, <1>10 DEF Agreed, Parts, Without

LEMMA TwiceAgreed ==
  ASSUME Typed, answered + 2 <= MaxItems, ~ closing,
         resp = <<>>, UNCHANGED <<got, why>>, why = "none",
         NEW keep, NEW len, Twice(keep, len)
  PROVE  Agreed'
<1> DEFINE h == HeadOf(keep, len)
           v == <<h>> \o Second(keep)
<1>1. /\ resp' = <<>> \o v /\ closing' = ~ keep /\ keep \in BOOLEAN
      /\ len \in {0, 1, FileSize} /\ "misconfigured" \in met'
  BY DEF Twice
<1>2. v \in Seq(Tokens)
  BY <1>1, SecondMade
<1>3. IsHead(h) /\ h.keep = keep
  BY DEF HeadOf, IsHead
<1>4. Len(v) \in Nat \ {0} /\ v[1] = h
  BY <1>2 DEF Second
<1> HIDE DEF v, h
<1>5. Stream' = got \o v
  <2>1. <<>> \o v = v
    BY <1>2
  <2> QED
    BY <1>1, <2>1, Zenon DEF Stream
<1>6. got \in Seq(Tokens)
  BY DEF Typed
<1>7. /\ Len(got) \in Nat /\ Len(got \o v) = Len(got) + Len(v)
      /\ \A i \in 1..Len(v) : (got \o v)[Len(got) + i] = v[i]
  BY <1>2, <1>6, Joined
<1>8. (got \o v)[Len(got) + 1] = h /\ Len(got) + 1 \in 1..Len(got \o v)
  BY <1>4, <1>7
<1>9. closing' => \E i \in 1..Len(Stream') : Parts(Stream', i)
  <2> SUFFICES ASSUME closing'
               PROVE  \E i \in 1..Len(got \o v) : Parts(got \o v, i)
    BY <1>5
  <2>1. Parts(got \o v, Len(got) + 1)
    BY <1>1, <1>3, <1>8 DEF Parts
  <2> QED
    BY <1>8, <2>1
<1> QED
  BY <1>1, <1>9 DEF Agreed

LEMMA SendsAgreed ==
  ASSUME Typed, Xferring, Agreed, NEW b, Sends(b)
  PROVE  Agreed'
<1> DEFINE u == Stream \o b
           n == Len(Stream)
<1>1. /\ b \in Seq(Tokens) /\ \A i \in 1..Len(b) : ~ IsHead(b[i])
      /\ Stream' = u /\ Stream \in Seq(Tokens)
  BY SendsGrow, StreamTyped
<1>2. UNCHANGED <<answered, closing>> /\ why' # "done" /\ Befalls
  BY DEF Sends, Xferring
<1>3. /\ n \in Nat /\ Len(b) \in Nat /\ Len(u) = n + Len(b)
      /\ \A i \in 1..n : u[i] = Stream[i]
      /\ \A i \in 1..Len(b) : u[n + i] = b[i]
  BY <1>1, Joined
<1>4. /\ "misconfigured" \in met <=> "misconfigured" \in met'
      /\ Without({"error", "full"})' => Without({"error", "full"})
  BY <1>2, BefallsGives DEF Without
<1> HIDE DEF u, n
<1>5. \A i \in 1..Len(u) : IsHead(u[i]) => i \in 1..n
  <2> SUFFICES ASSUME NEW i \in n + 1..Len(u) PROVE ~ IsHead(u[i])
    BY <1>3
  <2>1. i - n \in 1..Len(b) /\ n + (i - n) = i
    BY <1>3
  <2>2. u[n + (i - n)] = b[i - n]
    BY <1>3, <2>1
  <2> QED
    BY <1>1, <2>1, <2>2
<1>6. "misconfigured" \notin met =>
        \A i \in 1..Len(u) : Parts(u, i) => closing /\ u[i].id = answered
  BY <1>3, <1>5 DEF Agreed, Parts, n
<1>7. closing /\ Without({"error", "full"}) => \E i \in 1..Len(u) : Parts(u, i)
  <2> SUFFICES ASSUME closing, Without({"error", "full"})
               PROVE  \E i \in 1..Len(u) : Parts(u, i)
    OBVIOUS
  <2>1. PICK i \in 1..n : Parts(Stream, i)
    BY DEF Agreed, n
  <2>2. i \in 1..Len(u) /\ u[i] = Stream[i]
    BY <1>3
  <2> QED
    BY <2>1, <2>2 DEF Parts
<1>8. "misconfigured" \notin met' =>
        \A i \in 1..Len(Stream') :
          Parts(Stream', i) => closing' /\ Stream'[i].id = answered'
  BY <1>1, <1>2, <1>4, <1>6
<1>9. closing' /\ Without({"error", "full"})' =>
        \E i \in 1..Len(Stream') : Parts(Stream', i)
  BY <1>1, <1>2, <1>4, <1>7
<1> QED
  BY <1>2, <1>8, <1>9 DEF Agreed, Parts

LEMMA FullSocketAgreed ==
  ASSUME Typed, Xferring, Agreed, FullSocket
  PROVE  Agreed'
<1>1. /\ UNCHANGED <<answered, closing, why>> /\ phase # "gone"
      /\ met' = met \cup {"full"}
  BY DEF FullSocket, Meet
<1>2. why' = "none"
  BY <1>1 DEF Xferring
<1> DEFINE s == Stream
           u == Stream'
<1>3. PICK k : Keeps(u, s, k)
  BY FullSocketKeeps
<1>4. "misconfigured" \notin met =>
        \A i \in 1..Len(s) : Parts(s, i) => closing /\ s[i].id = answered
  BY DEF Agreed
<1> HIDE DEF s, u
<1>5. ASSUME "misconfigured" \notin met', NEW i \in 1..Len(u), Parts(u, i)
      PROVE  closing /\ u[i].id = answered
  <2>1. k[i] \in 1..Len(s) /\ u[i] = s[k[i]]
    BY <1>3, <1>5 DEF Keeps, Parts
  <2>2. Parts(s, k[i])
    BY <1>5, <2>1 DEF Parts
  <2>3. "misconfigured" \notin met
    BY <1>1, <1>5
  <2> QED
    BY <1>4, <2>1, <2>2, <2>3
<1>6. "misconfigured" \notin met' =>
        \A i \in 1..Len(Stream') :
          Parts(Stream', i) => closing' /\ Stream'[i].id = answered'
  BY <1>1, <1>5 DEF u
<1>7. ~ Without({"error", "full"})'
  BY <1>1 DEF Without
<1> QED
  BY <1>2, <1>6, <1>7 DEF Agreed

LEMMA StepAgreed ==
  ASSUME Typed, Xferring, Agreed, [Next]_vars
  PROVE  Agreed'
<1>1. ASSUME Stream' = Stream, UNCHANGED <<answered, closing>>,
             "misconfigured" \in met => "misconfigured" \in met',
             Without({"error", "full"})' => Without({"error", "full"}),
             why' = "done" => resp' = <<>> /\ closing /\ xfer'.kind = "none"
      PROVE  Agreed'
  BY <1>1 DEF Agreed, Parts
<1>2. CASE UNCHANGED vars
  BY <1>2 DEF vars, server, Stream, Agreed, Parts, Without
<1>3. CASE Next
  <2>1. Steps
    BY <1>3, NextSteps
  <2>2. CASE \/ \E item \in Items : Ask(item)
             \/ Quiet
             \/ \E k \in 0..Len(resp) : WriteResponse(k)
    <3>1. /\ Stream' = Stream /\ UNCHANGED <<answered, closing>>
          /\ "error" \in met' <=> "error" \in met
          /\ "misconfigured" \in met' <=> "misconfigured" \in met
          /\ "full" \in met => "full" \in met'
          /\ why' = "done" => resp' = <<>> /\ closing /\ xfer'.kind = "none"
      BY <2>2, OtherStepsKeep
    <3>2. Without({"error", "full"})' => Without({"error", "full"})
      BY <3>1 DEF Without
    <3> QED
      BY <1>1, <3>1, <3>2
  <2>3. CASE ReadLine
    <3>1. /\ ~ closing /\ inq # <<>> /\ phase = "wait" /\ xfer.kind = "none"
          /\ resp = <<>> /\ Interpret(inq[1]) /\ UNCHANGED <<got, why>>
      BY <2>3 DEF ReadLine, Reading
    <3>2. why = "none" /\ Fresh
      BY <3>1 DEF Xferring, Typed
    <3>3. answered + 1 <= MaxItems /\ (req.has => answered + 2 <= MaxItems)
      BY <3>1, ReadLineRoom
    <3>4. CASE Remembers(inq[1])
      <4>1. /\ UNCHANGED <<answered, closing, resp>> /\ Stream' = Stream
            /\ met \subseteq met'
        BY <3>1, <3>4 DEF Remembers, Stream
      <4>2. Without({"error", "full"})' => Without({"error", "full"})
        BY <4>1 DEF Without
      <4> QED
        BY <1>1, <3>1, <3>2, <4>1, <4>2
    <3>5. ASSUME NEW keep, NEW len, NEW body, NEW close,
                 Answers(keep, len, body, close)
          PROVE  Agreed'
      BY <3>1, <3>2, <3>3, <3>5, AnswersAgreed
    <3>6. ASSUME req.has, NEW keep, NEW len, Twice(keep, len)
          PROVE  Agreed'
      BY <3>1, <3>2, <3>3, <3>6, TwiceAgreed
    <3> QED
      BY <3>1, <3>2, <3>4, <3>5, <3>6, Interpreted
  <2>4. CASE \E b : Sends(b)
    BY <2>4, SendsAgreed
  <2>5. CASE FullSocket
    BY <2>5, FullSocketAgreed
  <2> QED
    BY <2>1, <2>2, <2>3, <2>4, <2>5 DEF Steps
<1> QED
  BY <1>2, <1>3

LEMMA InitAgreed == Init => Agreed
<1> SUFFICES ASSUME Init PROVE Agreed
  OBVIOUS
<1>1. Len(Stream) = 0 /\ closing = FALSE /\ why = "none"
  BY DEF Init, Stream
<1> QED
  BY <1>1 DEF Agreed

LEMMA AgreedGives ==
  ASSUME Typed, Raised, Agreed
  PROVE  CloseAgreed
<1>1. /\ Len(got) \in Nat /\ Len(Stream) \in Nat /\ Len(got) <= Len(Stream)
      /\ \A i \in 1..Len(got) : Stream[i] = got[i] /\ got[i] \in Tokens
      /\ resp = <<>> => Len(got) = Len(Stream)
  BY GotIsPrefix
<1>2. ASSUME "misconfigured" \notin met, NEW i \in Heads, ~ got[i].keep
      PROVE  closing /\ \A j \in Heads : j <= i
  <2>1. i \in 1..Len(Stream) /\ Stream[i] = got[i] /\ Parts(Stream, i)
    BY <1>1, <1>2 DEF Heads, IsHead, Parts
  <2>2. closing /\ Stream[i].id = answered
    BY <1>2, <2>1 DEF Agreed
  <2>3. ASSUME NEW j \in Heads, j > i
        PROVE  FALSE
    <3>1. j \in 1..Len(Stream) /\ IsHead(Stream[j]) /\ IsHead(Stream[i])
      BY <1>1, <2>1 DEF Heads, IsHead, Parts
    <3>2. Stream[i].id < Stream[j].id /\ Stream[j].id \in 1..answered
      BY <1>2, <2>1, <2>3, <3>1 DEF Raised, Rising
    <3> QED
      BY <2>2, <3>2, StreamTyped
  <2>4. \A j \in Heads : j \in Nat /\ i \in Nat
    BY <1>1 DEF Heads
  <2> QED
    BY <2>2, <2>3, <2>4
<1>3. ASSUME why = "done", Without({"error", "full"})
      PROVE  \E i \in Heads : ~ got[i].keep
  <2>1. PICK i \in 1..Len(Stream) : Parts(Stream, i)
    BY <1>3 DEF Agreed
  <2>2. i \in 1..Len(got) /\ got[i] = Stream[i]
    BY <1>1, <1>3 DEF Agreed
  <2> QED
    BY <2>1, <2>2 DEF Heads, Parts, IsHead
<1>4. Without({"misconfigured"}) => "misconfigured" \notin met
  BY DEF Without
<1> QED
  BY <1>2, <1>3, <1>4 DEF CloseAgreed

-----------------------------------------------------------------------------
(* Counting requests: every response that was begun, every end of a        *)
(* request that waits to be read and the request that is being sent belong *)
(* to different requests, if none of them had too many headers or no       *)
(* method, and none was answered twice.                                    *)

Countable == Without({"overfull", "nameless", "misconfigured"})

EndsIn(q) == {i \in 1..Len(q) : q[i].kind = "end"}

Counted ==
  /\ inq # <<>> /\ ~ typing => inq[Len(inq)].kind = "end"
  /\ Countable =>
       /\ answered <= asked
       /\ ~ closing => answered + Cardinality(EndsIn(inq)) + One(typing) <= asked

LEMMA EndsFinite ==
  ASSUME NEW q \in Seq(Items)
  PROVE  /\ IsFiniteSet(EndsIn(q)) /\ Cardinality(EndsIn(q)) \in Nat
         /\ EndsIn(q) # {} => Cardinality(EndsIn(q)) >= 1
<1>1. Len(q) \in Nat
  OBVIOUS
<1>2. EndsIn(q) \in SUBSET (1..Len(q)) /\ 1 \in Int /\ Len(q) \in Int
  BY <1>1 DEF EndsIn
<1>3. IsFiniteSet(EndsIn(q))
  BY <1>2, FS_Interval, FS_Subset
<1>4. Cardinality(EndsIn(q)) \in Nat
  BY <1>3, FS_CardinalityType
<1>5. Cardinality(EndsIn(q)) = 0 => EndsIn(q) = {}
  BY <1>3, FS_EmptySet
<1> QED
  BY <1>3, <1>4, <1>5

LEMMA EndsOfNothing == EndsIn(<<>>) = {} /\ Cardinality(EndsIn(<<>>)) = 0
<1>1. EndsIn(<<>>) = {}
  BY DEF EndsIn
<1> QED
  BY <1>1, FS_EmptySet

LEMMA EndsAppend ==
  ASSUME NEW q \in Seq(Items), NEW item \in Items
  PROVE  Cardinality(EndsIn(Append(q, item)))
           = Cardinality(EndsIn(q)) + One(item.kind = "end")
<1> DEFINE u == Append(q, item)
           n == Len(q)
<1>1. /\ n \in Nat /\ Len(u) = n + 1
      /\ \A i \in 1..n : u[i] = q[i]
      /\ u[n + 1] = item
  BY Appended
<1>2. IsFiniteSet(EndsIn(q)) /\ Cardinality(EndsIn(q)) \in Nat
  BY EndsFinite
<1>3. EndsIn(q) = {i \in 1..n : q[i].kind = "end"}
  BY DEF EndsIn
<1>4. EndsIn(u) = {i \in 1..n + 1 : u[i].kind = "end"}
  BY <1>1 DEF EndsIn
<1> HIDE DEF u, n
<1>5. CASE item.kind = "end"
  <2>1. EndsIn(u) = EndsIn(q) \cup {n + 1} /\ n + 1 \notin EndsIn(q)
    BY <1>1, <1>3, <1>4, <1>5
  <2>2. Cardinality(EndsIn(u)) = Cardinality(EndsIn(q)) + 1
    BY <1>2, <2>1, FS_AddElement
  <2> QED
    BY <1>5, <2>2 DEF One, u
<1>6. CASE item.kind # "end"
  <2>1. EndsIn(u) = EndsIn(q)
    BY <1>1, <1>3, <1>4, <1>6
  <2> QED
    BY <1>2, <1>6, <2>1 DEF One, u
<1> QED
  BY <1>5, <1>6

LEMMA EndsTail ==
  ASSUME NEW q \in Seq(Items), q # <<>>
  PROVE  Cardinality(EndsIn(Tail(q))) + One(q[1].kind = "end")
           <= Cardinality(EndsIn(q))
<1> DEFINE t == Tail(q)
           n == Len(q)
           S == EndsIn(t)
           T == EndsIn(q) \ {1}
<1>1. /\ n \in Nat \ {0} /\ t \in Seq(Items) /\ Len(t) = n - 1
      /\ \A i \in 1..n - 1 : t[i] = q[i + 1]
  OBVIOUS
<1>2. /\ EndsIn(q) = {i \in 1..n : q[i].kind = "end"}
      /\ S = {i \in 1..n - 1 : t[i].kind = "end"}
  BY <1>1 DEF EndsIn
<1>3. /\ IsFiniteSet(EndsIn(q)) /\ Cardinality(EndsIn(q)) \in Nat
      /\ Cardinality(S) \in Nat
  BY <1>1, EndsFinite
<1> HIDE DEF t, n, S
<1> DEFINE f == [i \in S |-> i + 1]
<1>4. \A i \in S : i \in Nat /\ i + 1 \in T
  BY <1>1, <1>2
<1>5. f \in Injection(S, T)
  <2>1. f \in [S -> T]
    BY <1>4
  <2>2. \A i, j \in S : f[i] = f[j] => i = j
    BY <1>4
  <2> QED
    BY <2>1, <2>2 DEF Injection, IsInjective
<1>6. /\ IsFiniteSet(T)
      /\ Cardinality(T) = IF 1 \in EndsIn(q) THEN Cardinality(EndsIn(q)) - 1
                          ELSE Cardinality(EndsIn(q))
  BY <1>3, FS_RemoveElement
<1>7. 1 \in EndsIn(q) <=> q[1].kind = "end"
  BY <1>1, <1>2
<1> HIDE DEF T, f
<1>8. Cardinality(S) <= Cardinality(T)
  BY <1>5, <1>6, FS_Injection
<1>9. Cardinality(S) + One(q[1].kind = "end") <= Cardinality(EndsIn(q))
  BY <1>3, <1>6, <1>7, <1>8 DEF One
<1> QED
  BY <1>9 DEF S, t

LEMMA AskCounted ==
  ASSUME Typed, Counted, NEW item \in Items, Ask(item)
  PROVE  Counted'
<1> DEFINE c == Cardinality(EndsIn(inq))
<1>1. /\ inq' = Append(inq, item) /\ UNCHANGED <<answered, closing, met>>
      /\ \/ item.kind \in {"line", "bad", "nameless"} /\ ~ typing
              /\ asked' = asked + 1 /\ typing' = TRUE
         \/ item.kind = "header" /\ typing /\ UNCHANGED <<asked, typing>>
         \/ item.kind = "end" /\ typing /\ typing' = FALSE /\ UNCHANGED asked
  BY DEF Ask, server
<1>2. inq \in Seq(Items) /\ asked \in Nat /\ answered \in Nat
  BY BoundsAreNat DEF Typed
<1>3. /\ inq'[Len(inq')] = item /\ c \in Nat
      /\ Cardinality(EndsIn(inq')) = c + One(item.kind = "end")
  <2>1. Append(inq, item)[Len(Append(inq, item))] = item
    BY <1>2, Appended
  <2>2. c \in Nat
    BY <1>2, EndsFinite
  <2>3. Cardinality(EndsIn(Append(inq, item))) = c + One(item.kind = "end")
    BY <1>2, EndsAppend
  <2> QED
    BY <1>1, <2>1, <2>2, <2>3
<1> HIDE DEF c
<1>4. ~ typing' => inq'[Len(inq')].kind = "end"
  BY <1>1, <1>3
<1>5. ASSUME Countable
      PROVE  /\ answered <= asked'
             /\ ~ closing => answered + Cardinality(EndsIn(inq')) + One(typing') <= asked'
  <2>1. /\ answered <= asked
        /\ ~ closing => answered + c + One(typing) <= asked
    BY <1>5 DEF Counted, c
  <2>2. CASE item.kind \in {"line", "bad", "nameless"} /\ ~ typing
               /\ asked' = asked + 1 /\ typing' = TRUE
    <3>1. One(item.kind = "end") = 0 /\ One(typing) = 0 /\ One(typing') = 1
      BY <2>2 DEF One
    <3> QED
      BY <1>2, <1>3, <2>1, <2>2, <3>1
  <2>3. CASE item.kind = "header" /\ typing /\ UNCHANGED <<asked, typing>>
    <3>1. One(item.kind = "end") = 0 /\ One(typing) = 1 /\ One(typing') = 1
      BY <2>3 DEF One
    <3>2. asked' = asked /\ Cardinality(EndsIn(inq')) = c + 0
      BY <1>3, <2>3, <3>1
    <3>3. answered <= asked /\ (~ closing => answered + c + 1 <= asked)
      BY <2>1, <3>1
    <3> QED
      BY <1>2, <1>3, <3>1, <3>2, <3>3
  <2>4. CASE item.kind = "end" /\ typing /\ typing' = FALSE /\ UNCHANGED asked
    <3>1. One(item.kind = "end") = 1 /\ One(typing) = 1 /\ One(typing') = 0
      BY <2>4 DEF One
    <3>2. asked' = asked /\ Cardinality(EndsIn(inq')) = c + 1
      BY <1>3, <2>4, <3>1
    <3>3. answered <= asked /\ (~ closing => answered + c + 1 <= asked)
      BY <2>1, <3>1
    <3> QED
      BY <1>2, <1>3, <3>1, <3>2, <3>3
  <2> QED
    BY <1>1, <2>2, <2>3, <2>4
<1>6. Countable' = Countable
  BY <1>1 DEF Countable, Without
<1> QED
  BY <1>1, <1>4, <1>5, <1>6 DEF Counted

LEMMA ReadLineCounted ==
  ASSUME Typed, Counted, ReadLine
  PROVE  Counted'
<1> DEFINE c == Cardinality(EndsIn(inq))
           d == Cardinality(EndsIn(inq'))
<1>1. /\ ~ closing /\ inq # <<>> /\ inq' = Tail(inq) /\ Interpret(inq[1])
      /\ UNCHANGED <<asked, typing>>
  BY DEF ReadLine
<1>2. inq \in Seq(Items) /\ asked \in Nat /\ answered \in Nat /\ typing \in BOOLEAN
  BY BoundsAreNat DEF Typed
<1>3. /\ c \in Nat /\ d \in Nat /\ d + One(inq[1].kind = "end") <= c
      /\ EndsIn(inq) # {} => c >= 1
  <2>1. Tail(inq) \in Seq(Items)
    BY <1>1, <1>2
  <2>2. Cardinality(EndsIn(Tail(inq))) \in Nat
    BY <2>1, EndsFinite
  <2>3. Cardinality(EndsIn(Tail(inq))) + One(inq[1].kind = "end") <= c
    BY <1>1, <1>2, EndsTail
  <2>4. c \in Nat /\ (EndsIn(inq) # {} => c >= 1)
    BY <1>2, EndsFinite
  <2> QED
    BY <1>1, <2>2, <2>3, <2>4
<1>4. inq' # <<>> => inq'[Len(inq')] = inq[Len(inq)]
  <2>1. \A q \in Seq(Items) :
          q # <<>> /\ Tail(q) # <<>> => Tail(q)[Len(Tail(q))] = q[Len(q)]
    OBVIOUS
  <2> QED
    BY <1>1, <1>2, <2>1
<1>5. inq' # <<>> /\ ~ typing' => inq'[Len(inq')].kind = "end"
  BY <1>1, <1>4 DEF Counted
<1>6. ~ typing => EndsIn(inq) # {}
  <2>1. Len(inq) \in 1..Len(inq)
    BY <1>1, <1>2
  <2> QED
    BY <1>1, <2>1 DEF Counted, EndsIn
<1> HIDE DEF c, d
<1>7. /\ One(inq[1].kind = "end") \in {0, 1} /\ One(typing) \in {0, 1}
      /\ inq[1].kind = "end" => One(inq[1].kind = "end") = 1
      /\ typing => One(typing) = 1
  BY <1>2 DEF One
<1>8. ASSUME answered' = answered, closing' = closing, Countable' => Countable
      PROVE  Counted'
  <2>1. Countable => answered <= asked /\ answered + d + One(typing) <= asked
    BY <1>1, <1>2, <1>3, <1>7 DEF Counted, c
  <2> QED
    BY <1>1, <1>5, <1>8, <2>1 DEF Counted, d
<1>9. ASSUME ~ Countable'
      PROVE  Counted'
  BY <1>5, <1>9 DEF Counted
<1>10. CASE Remembers(inq[1])
  <2>1. answered' = answered /\ closing' = closing /\ (Countable' => Countable)
    BY <1>10 DEF Remembers, Countable, Without
  <2> QED
    BY <1>8, <2>1
<1>11. ASSUME NEW keep, NEW len, NEW body, NEW close,
              Answers(keep, len, body, close),
              \/ req.has /\ inq[1].kind = "end"
              \/ ~ req.has /\ inq[1].kind # "line" /\ close
              \/ "overfull" \in met' \/ "nameless" \in met'
       PROVE  Counted'
  <2>1. answered' = answered + 1 /\ closing' = close
    BY <1>11 DEF Answers
  <2>2. Countable' => Countable
    BY <1>11 DEF Answers, Countable, Without
  <2>3. ASSUME Countable'
        PROVE  /\ answered + 1 <= asked
               /\ ~ close => answered + 1 + d + One(typing) <= asked
    <3>1. answered + c + One(typing) <= asked
      BY <1>1, <2>2, <2>3 DEF Counted, c
    <3>2. CASE inq[1].kind = "end"
      BY <1>2, <1>3, <1>7, <3>1, <3>2
    <3>3. CASE inq[1].kind # "end" /\ close
      BY <1>2, <1>3, <1>6, <1>7, <3>1, <3>3
    <3>4. "overfull" \notin met' /\ "nameless" \notin met'
      BY <2>3 DEF Countable, Without
    <3> QED
      BY <1>11, <3>2, <3>3, <3>4
  <2> QED
    BY <1>1, <1>5, <2>1, <2>3 DEF Counted, d
<1>12. ASSUME NEW keep, NEW len, Twice(keep, len)
       PROVE  Counted'
  <2>1. ~ Countable'
    BY <1>12 DEF Twice, Countable, Without
  <2> QED
    BY <1>9, <2>1
<1>13. Fresh
  BY DEF Typed
<1> QED
  BY <1>1, <1>10, <1>11, <1>12, <1>13, Interpreted

LEMMA QuietCounted ==
  ASSUME Typed, Counted, Quiet
  PROVE  Counted'
<1>1. /\ UNCHANGED <<asked, typing, answered, closing>> /\ (inq' = inq \/ inq' = <<>>)
      /\ Befalls
  BY DEF Quiet
<1>6. Countable' <=> Countable
  BY <1>1, BefallsGives DEF Countable, Without
<1>2. inq \in Seq(Items) /\ asked \in Nat /\ answered \in Nat
  BY BoundsAreNat DEF Typed
<1>3. Cardinality(EndsIn(inq)) \in Nat /\ One(typing) \in Nat
  BY <1>2, EndsFinite DEF One
<1>4. CASE inq' = inq
  BY <1>1, <1>4, <1>6 DEF Counted
<1>5. CASE inq' = <<>>
  <2>1. Cardinality(EndsIn(inq')) = 0
    BY <1>5, EndsOfNothing
  <2>2. Countable =>
          /\ answered <= asked
          /\ ~ closing => answered + 0 + One(typing) <= asked
    BY <1>2, <1>3 DEF Counted
  <2> QED
    BY <1>1, <1>5, <1>6, <2>1, <2>2 DEF Counted
<1> QED
  BY <1>1, <1>4, <1>5

LEMMA StepCounted ==
  ASSUME Typed, Xferring, Counted, [Next]_vars
  PROVE  Counted'
<1>1. ASSUME UNCHANGED <<inq, typing, asked, answered, closing>>,
             Countable' => Countable
      PROVE  Counted'
  BY <1>1 DEF Counted
<1>2. CASE UNCHANGED vars
  BY <1>1, <1>2 DEF vars, client, server, Countable, Without
<1>3. CASE Next
  <2>1. Steps
    BY <1>3, NextSteps
  <2>2. CASE \E item \in Items : Ask(item)
    BY <2>2, AskCounted
  <2>3. CASE ReadLine
    BY <2>3, ReadLineCounted
  <2>4. CASE Quiet
    BY <2>4, QuietCounted
  <2>5. CASE \E k \in 0..Len(resp) : WriteResponse(k)
    <3>1. UNCHANGED <<inq, typing, asked, answered, closing, met>>
      BY <2>5 DEF WriteResponse, client
    <3> QED
      BY <1>1, <3>1 DEF Countable, Without
  <2>6. CASE \E b : Sends(b)
    <3>1. UNCHANGED <<inq, typing, asked, answered, closing>> /\ Befalls
      BY <2>6 DEF Sends, client
    <3> QED
      BY <1>1, <3>1, BefallsGives DEF Countable, Without
  <2>7. CASE FullSocket
    <3>1. UNCHANGED <<inq, typing, asked, answered, closing>> /\ met \subseteq met'
      BY <2>7 DEF FullSocket, Meet, client
    <3> QED
      BY <1>1, <3>1 DEF Countable, Without
  <2> QED
    BY <2>1, <2>2, <2>3, <2>4, <2>5, <2>6, <2>7 DEF Steps
<1> QED
  BY <1>2, <1>3

LEMMA InitCounted == Init => Counted
<1> SUFFICES ASSUME Init PROVE Counted
  OBVIOUS
<1>1. /\ inq = <<>> /\ answered = 0 /\ asked = 0 /\ One(typing) = 0
  BY DEF Init, One
<1>2. Cardinality(EndsIn(inq)) = 0
  BY <1>1, EndsOfNothing
<1> QED
  BY <1>1, <1>2 DEF Counted

-----------------------------------------------------------------------------
(* The theorems                                                            *)

Inv == Typed /\ Xferring /\ Streamed /\ Raised /\ Agreed /\ Counted

LEMMA Invariant == Spec => []Inv
<1>1. Init => Inv
  BY InitTyped, InitXferring, InitStreamed, InitRaised, InitAgreed, InitCounted
     DEF Inv
<1>2. Inv /\ [Next]_vars => Inv'
  BY StepTyped, StepStreamed, StepRaised, StepAgreed, StepCounted DEF Inv
<1> QED
  BY <1>1, <1>2, PTL DEF Spec

\* The responses come in the order of the requests, each one's header before
\* its body, though a body is written past _response and by the events of
\* another stream, unless a full socket dropped or tore one or an exception
\* queued one on top of another; there is at most one for each request, if none
\* had too many headers or no method and none was answered twice; and a full
\* socket makes none come after a later one.
THEOREM InOrder == Spec => []ResponsesInOrder
<1>1. Inv => ResponsesInOrder
  <2> SUFFICES ASSUME Inv PROVE ResponsesInOrder
    OBVIOUS
  <2>1. /\ Len(got) \in Nat /\ Len(Stream) \in Nat /\ Len(got) <= Len(Stream)
        /\ \A i \in 1..Len(got) : Stream[i] = got[i] /\ got[i] \in Tokens
    BY GotIsPrefix DEF Inv
  <2>2. ~ Astray => Chain(Stream, answered)
    BY DEF Inv, Streamed
  <2>3. \A i \in 1..Len(got) : i \in Heads <=> IsHead(Stream[i])
    BY <2>1 DEF Heads, IsHead
  <2>4. ASSUME ~ Astray, NEW i \in 1..Len(got), i > 1
        PROVE  got[i].id = got[i-1].id + (IF i \in Heads THEN 1 ELSE 0)
    <3>1. i \in 1..Len(Stream) /\ i - 1 \in 1..Len(got)
      BY <2>1, <2>4
    <3>2. Stream[i].id = Stream[i-1].id + (IF IsHead(Stream[i]) THEN 1 ELSE 0)
      BY <2>2, <2>4, <3>1 DEF Chain
    <3> QED
      BY <2>1, <2>3, <3>1, <3>2
  <2>5. ASSUME ~ Astray, got # <<>>
        PROVE  1 \in Heads /\ got[1].id = 1
    <3>1. 1 \in 1..Len(got) /\ 1 \in 1..Len(Stream)
      BY <2>1, <2>5 DEF Inv, Typed
    <3>2. Stream \in Seq(Tokens) /\ Stream # <<>>
      BY <2>1, <3>1, StreamTyped DEF Inv
    <3>3. IsHead(Stream[1]) /\ Stream[1].id = 1
      BY <2>2, <2>5, <3>2 DEF Chain
    <3> QED
      BY <2>1, <2>3, <3>1, <3>3
  <2>6. Countable => answered <= asked
    BY DEF Inv, Counted
  <2>7. ASSUME "misconfigured" \notin met, NEW i \in 1..Len(got), i > 1
        PROVE  got[i-1].id <= got[i].id
    <3>1. /\ i \in 1..Len(Stream) /\ i - 1 \in 1..Len(Stream) /\ i - 1 < i
          /\ i - 1 \in 1..Len(got)
      BY <2>1, <2>7
    <3>2. Stream[i-1].id <= Stream[i].id
      BY <2>7, <3>1 DEF Inv, Raised, Rising
    <3> QED
      BY <2>1, <3>1, <3>2
  <2>8. /\ Without({"full", "misconfigured"}) => ~ Astray
        /\ Without({"misconfigured"}) => "misconfigured" \notin met
    BY DEF Astray, Without
  <2> QED
    BY <2>4, <2>5, <2>6, <2>7, <2>8 DEF ResponsesInOrder, Countable
<1> QED
  BY <1>1, Invariant, PTL

\* A header that says "Connection: close" is the last one, but where an
\* exception queued another; and the server closes on its own only after such
\* a header was sent, if no command failed and no full socket dropped one.
THEOREM CloseAnnounced == Spec => []CloseAgreed
<1>1. Inv => CloseAgreed
  BY AgreedGives DEF Inv
<1> QED
  BY <1>1, Invariant, PTL

\* Where a response is not the last, and where the server ends it by closing,
\* the whole body its header promised was sent, if no transfer was cut by its
\* timeout, its limit or an error of its streams, no socket was full and no
\* response had another queued on top of it.
THEOREM BodiesComplete == Spec => []BodiesWhole
<1>1. Inv => BodiesWhole
  <2>1. Agreed => (why = "done" => resp = <<>> /\ closing /\ xfer.kind = "none")
    BY DEF Agreed
  <2> QED
    BY <2>1, StreamedGivesBodies DEF Inv
<1> QED
  BY <1>1, Invariant, PTL
=============================================================================
