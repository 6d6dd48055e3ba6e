------------------------------ MODULE HttpConn ------------------------------
(***************************************************************************)
(* One HTTP connection (HTTPControl): requests that may be pipelined, the  *)
(* response that is queued for each, the transfer of a file or a listing   *)
(* that follows the response's header, and the moment the connection is    *)
(* closed.  The transfer is driven by the events of the connection and by  *)
(* those of the file it reads or writes.                                   *)
(*                                                                         *)
(* Lines are whole here and a response is written by tokens: Responder has *)
(* their bytes.  A file is FileSize pieces and its Content-Length is right.*)
(* A socket is found full at most once for what _response or a listing     *)
(* writes; the pump loses nothing by it, as often as it may be.            *)
(***************************************************************************)
EXTENDS Naturals, Sequences, FiniteSets

CONSTANTS
  FileSize,      \* pieces of a file or a listing
  MaxHeaders,    \* max_req_headers
  MaxRequests,   \* bound on the requests of the client
  MaxItems,      \* bound on the lines and body pieces it sends
  MaxMishaps     \* bound on the kinds of mishaps in one connection

ASSUME HttpConstants ==
  {FileSize, MaxHeaders, MaxRequests, MaxItems, MaxMishaps} \subseteq Nat

VARIABLES
  \* the client
  asked,    \* requests it has begun
  items,    \* lines and pieces it has sent
  typing,   \* whether it is in the middle of a request
  inq,      \* what it has sent and the server has not read
  eof,      \* whether it has closed its side
  \* HTTPControl
  req,      \* _req_ver_* and _req_headers; has is has_req_line
  answered, \* responses begun
  resp,     \* _response
  begun,    \* whether something of it has been written: _buf_pos is not 0
  closing,  \* _closing
  xfer,     \* _xfer
  file,     \* the stream of the transfer's file: "none", "open", "doomed"
  phase,    \* "wait" for an event, "body" and "write" within one, "gone"
  \* what was observed
  got,      \* what the client has been sent
  why,      \* "done" when the server closed it, "lost" when it ended otherwise
  met       \* mishaps there have been: see Mishaps

client == <<asked, items, typing, inq, eof>>
server == <<req, answered, resp, begun, closing, xfer, file>>
vars == <<client, server, phase, got, why, met>>

\* A command that failed, a request with too many headers, one whose method is
\* empty, an exception after the response was begun; a transfer cut by its
\* timeout, by its user's limit or by an error of its streams; a full socket.
Mishaps == {"error", "overfull", "nameless", "misconfigured", "timeout",
            "limit", "broken", "full"}
Meet(mishap) ==
  met' = met \cup {mishap} /\ Cardinality(met') <= MaxMishaps

Versions == {10, 11}
Connections == {"none", "keep", "close", "other"}

NoReq == [has |-> FALSE, ver |-> 0, conn |-> "none", n |-> 0]
NoXfer == [kind |-> "none", id |-> 0, rest |-> 0, buf |-> "none"]

Init ==
  /\ asked = 0 /\ items = 0 /\ typing = FALSE /\ inq = <<>> /\ eof = FALSE
  /\ req = NoReq /\ answered = 0 /\ resp = <<>> /\ begun = FALSE
  /\ closing = FALSE
  /\ xfer = NoXfer /\ file = "none"
  /\ phase = "wait" /\ got = <<>> /\ why = "none" /\ met = {}

---------------------------------------------------------------------------
(* The client *)

Item(kind, ver, conn) == [kind |-> kind, ver |-> ver, conn |-> conn]

Ask(item) ==
  /\ phase # "gone" /\ ~eof /\ items < MaxItems
  /\ items' = items + 1
  /\ inq' = Append(inq, item)
  /\ \/ item.kind \in {"line", "bad", "nameless"} /\ ~typing /\ asked < MaxRequests
        /\ asked' = asked + 1 /\ typing' = TRUE
     \/ item.kind = "header" /\ typing /\ UNCHANGED <<asked, typing>>
     \/ item.kind = "end" /\ typing /\ typing' = FALSE /\ UNCHANGED asked
  /\ UNCHANGED <<eof, server, phase, got, why, met>>

Close ==
  /\ phase # "gone" /\ ~eof
  /\ eof' = TRUE
  /\ UNCHANGED <<asked, items, typing, inq, server, phase, got, why, met>>

---------------------------------------------------------------------------
(* Responses *)

HeadOf(keep, len) ==
  [part |-> "head", id |-> answered + 1, keep |-> keep, len |-> len]
Body(id) == [part |-> "body", id |-> id, keep |-> FALSE, len |-> 0]

\* persistant()
Persistent(r) ==
  ~closing /\ (r.conn = "keep" \/ (r.ver = 11 /\ r.conn # "close"))

\* Mutant of Respond: the request is reset before persistant() is asked.
RespondReset(keep, len, body, close) ==
  /\ resp' = resp \o <<HeadOf(keep, len)>> \o body
  /\ answered' = answered + 1
  /\ closing' = TRUE
  /\ req' = NoReq

\* status_line to response_header_end, then a body of its own and
\* finished_queuing_response.
Respond(keep, len, body, close) ==
  /\ resp' = resp \o <<HeadOf(keep, len)>> \o body
  /\ answered' = answered + 1
  /\ closing' = (closing \/ close)
  /\ req' = NoReq

\* error_response: finished_queuing_response is called in it.
ErrorResponse(r) ==
  Respond(Persistent(r), 1, <<Body(answered + 1)>>, ~Persistent(r))

NewXfer(kind) ==
  /\ xfer' = [kind |-> kind, id |-> answered + 1, rest |-> FileSize,
              buf |-> "none"]
  /\ file' = IF kind = "list" THEN file ELSE "open"

\* An exception when a response has been queued, whole or in part: finished_req
\* queues another one for the same request.
RespondTwice(keep, len) ==
  /\ resp' = resp \o <<HeadOf(keep, len),
                       [HeadOf(keep, 1) EXCEPT !.id = answered + 2],
                       Body(answered + 2)>>
  /\ answered' = answered + 2
  /\ closing' = (closing \/ ~keep)
  /\ req' = NoReq

\* do_get_file, for GET.
GetFile(keep) == Respond(keep, FileSize, <<>>, ~keep) /\ NewXfer("get")

\* do_get_dirlisting, for GET and HEAD: no content length so must close.
GetListing ==
  \/ Respond(FALSE, FileSize, <<>>, TRUE) /\ NewXfer("list")
  \/ Respond(FALSE, 0, <<>>, TRUE) /\ UNCHANGED <<xfer, file>>

PutFile(keep) == Respond(keep, 0, <<>>, ~keep) /\ NewXfer("put")

\* cmd_options and cmd_delete, and HEAD of a file.
AnswerPlainly(keep) ==
  Respond(keep, 0, <<>>, ~keep) /\ UNCHANGED <<xfer, file>>

\* A command that answers with error_response, or moved_to_response, and
\* returns: finished_queuing_response is called again, for a request that is
\* no more.
FailCommand(keep) ==
  /\ Respond(keep, 1, <<Body(answered + 1)>>, TRUE)
  /\ Meet("error")
  /\ UNCHANGED <<xfer, file>>

\* No such command, or an exception that finished_req catches.
RefuseCommand == ErrorResponse(req) /\ UNCHANGED <<xfer, file>>

\* start_xfer has set _xfer when it finds no timeout_xfer; a listing also fails
\* on its message, before it, and OPTIONS without a home after its status line.
\* The answer to PUT comes only after start_xfer.
Misconfigured(keep) ==
  /\ \/ RespondTwice(keep, FileSize) /\ NewXfer("get")
     \/ RespondTwice(FALSE, FileSize)
          /\ (NewXfer("list") \/ UNCHANGED <<xfer, file>>)
     \/ RespondTwice(keep, 0) /\ UNCHANGED <<xfer, file>>
     \/ ErrorResponse(req) /\ NewXfer("put")
  /\ Meet("misconfigured")

\* finished_req.
Execute ==
  LET keep == Persistent(req) IN
  \/ /\ GetFile(keep) \/ GetListing \/ PutFile(keep) \/ AnswerPlainly(keep)
          \/ RefuseCommand
     /\ UNCHANGED met
  \/ FailCommand(keep)
  \/ Misconfigured(keep)

\* finished_reading: parse_req_line, parse_header or finished_req.  A line that
\* begins with a blank sets the version and leaves has_req_line FALSE; one that
\* is bad may leave the version of such a line.
Interpret(item) ==
  \/ /\ ~req.has /\ item.kind = "line"
     /\ req' = [req EXCEPT !.has = TRUE, !.ver = item.ver]
     /\ UNCHANGED <<answered, resp, closing, xfer, file, met>>
  \/ /\ ~req.has /\ item.kind = "nameless"
     /\ req' = [req EXCEPT !.ver = item.ver] /\ Meet("nameless")
     /\ UNCHANGED <<answered, resp, closing, xfer, file>>
  \/ /\ ~req.has /\ item.kind \notin {"line", "nameless"}
     /\ \/ ErrorResponse(req)
        \/ item.kind = "bad" /\ ErrorResponse(NoReq)
     /\ UNCHANGED <<xfer, file, met>>
  \/ req.has /\ item.kind = "end" /\ Execute
  \/ /\ req.has /\ item.kind # "end" /\ req.n > MaxHeaders
     /\ ErrorResponse(req) /\ Meet("overfull")
     /\ UNCHANGED <<xfer, file>>
  \/ /\ req.has /\ item.kind # "end" /\ req.n <= MaxHeaders
     /\ LET again == item.conn # "none" /\ req.conn # "none" IN
        req' = [req EXCEPT !.n = IF again THEN @ ELSE @ + 1,
                           !.conn = IF again THEN "other"
                                    ELSE IF item.conn = "none" THEN @
                                    ELSE item.conn]
     /\ UNCHANGED <<answered, resp, closing, xfer, file, met>>

---------------------------------------------------------------------------
(* The end of the connection *)

\* The connection goes; resp stays as what was never sent.  ~HTTPControl frees
\* the transfer, whose file loses its consumer and is left out of the model.
Gone(reason) ==
  /\ phase' = "gone" /\ why' = reason
  /\ inq' = <<>> /\ req' = NoReq /\ xfer' = NoXfer /\ file' = "none"
  /\ UNCHANGED <<asked, items, typing, eof, answered, resp, begun, closing, got,
                 met>>

---------------------------------------------------------------------------
(* The pump: Sendfile::io from the file to the connection *)

Moves(buf, rest, sent, end) ==
  [buf |-> buf, rest |-> rest, sent |-> sent, end |-> end]

\* Mutant of Refill: the end of the file is taken for a piece.
RefillPast(rest, sent) ==
  {Moves("full", rest - 1, sent, "more"),
   Moves("empty", rest - 1, sent + 1, "more")}

\* With an empty buffer: read a piece, count it, try to write it.
Refill(rest, sent) ==
  IF rest = 0 THEN {Moves("empty", 0, sent, "done")}
  ELSE {Moves("full", rest - 1, sent, "more"),
        Moves("full", rest - 1, sent, "limit"),
        Moves("empty", rest - 1, sent + 1, "more")}

\* The system's sendfile: nothing is buffered.
SystemSendfile(rest) ==
  IF rest = 0 THEN {Moves("none", 0, 0, "done")}
  ELSE {Moves("none", rest - k, k, "more") : k \in 0..rest}
         \cup {Moves("none", rest - k, k, "limit") : k \in 1..rest}

\* Where it does not work a buffer is made, for good.
Io(x) ==
  CASE x.buf = "none" -> SystemSendfile(x.rest) \cup Refill(x.rest, 0)
    [] x.buf = "full" -> {Moves("full", x.rest, 0, "more")}
                           \cup Refill(x.rest, 1)
    [] x.buf = "empty" -> Refill(x.rest, 0)

\* The source has gone and only the buffer is left.
Flush(x) == {Moves("full", x.rest, 0, "more"), Moves("empty", x.rest, 1, "done")}

Pump(x) == IF file = "none" THEN Flush(x) ELSE Io(x)

Bodies(k) == [i \in 1..k |-> Body(xfer.id)]

---------------------------------------------------------------------------
(* do_events on the connection: read_in, then write_out. *)

\* Nothing is read while a response waits or a file is being sent.
ReadNothing ==
  /\ phase = "wait"
  /\ \/ xfer.kind \in {"get", "list"}
     \/ xfer.kind = "none" /\ resp # <<>>
     \/ xfer.kind = "none" /\ ~closing /\ inq = <<>> /\ ~eof
  /\ phase' = "write"
  /\ UNCHANGED <<client, server, got, why, met>>

\* Mutant of Reading: a transfer does not keep the connection from reading.
ReadingOver == phase = "wait" /\ resp = <<>>

Reading == phase = "wait" /\ xfer.kind = "none" /\ resp = <<>>

\* delete_this, once the last response is out.
Part == Reading /\ closing /\ Gone("done")

ReadLine ==
  /\ Reading /\ ~closing /\ inq # <<>>
  /\ inq' = Tail(inq)
  /\ Interpret(inq[1]) /\ UNCHANGED begun
  /\ phase' = IF xfer'.kind = "put" THEN "body" ELSE "write"
  /\ UNCHANGED <<asked, items, typing, eof, got, why>>

ReadEof == Reading /\ ~closing /\ inq = <<>> /\ eof /\ Gone("lost")

\* read_in_xfer of an upload: the body is whatever comes until the end of
\* file, at which the transfer is done and the connection reads on.
ReadBody ==
  /\ phase \in {"wait", "body"} /\ xfer.kind = "put"
  /\ inq' = <<>>
  /\ IF inq = <<>> /\ eof
     THEN /\ xfer' = NoXfer /\ file' = "none"
          /\ phase' = IF resp = <<>> THEN "wait" ELSE "write"
     ELSE phase' = "write" /\ UNCHANGED <<xfer, file>>
  /\ UNCHANGED <<asked, items, typing, eof, req, answered, resp, begun, closing,
                 got, why, met>>

\* The upload meets the user's limit: the exception closes the connection.
BodyLimited ==
  /\ phase \in {"wait", "body"} /\ xfer.kind = "put" /\ inq # <<>>
  /\ Gone("lost")

\* super::write_out of the first k tokens, and maybe of a part of the next.
\* The transfer goes on in the same call when nothing is left of the response.
WriteResponse(k) ==
  /\ phase = "write" /\ resp # <<>>
  /\ got' = got \o SubSeq(resp, 1, k)
  /\ resp' = SubSeq(resp, k + 1, Len(resp))
  /\ begun' = (resp' # <<>>)
  /\ phase' = IF resp' = <<>> /\ xfer.kind # "none" THEN "write" ELSE "wait"
  /\ UNCHANGED <<client, req, answered, closing, xfer, file, why, met>>

\* A byte of the token that is written next, once more.
Torn(token) == [token EXCEPT !.part = "stray"]

\* The socket is full and write says -1, which is added to _buf_pos: what has
\* been begun goes one byte back, and what has not is taken for written.
FullSocket ==
  /\ phase = "write" /\ resp # <<>>
  /\ "full" \notin met /\ Meet("full")
  /\ resp' = IF begun THEN <<Torn(resp[1])>> \o resp ELSE <<>>
  /\ phase' = IF resp' = <<>> /\ xfer.kind # "none" THEN "write" ELSE "wait"
  /\ UNCHANGED <<client, req, answered, begun, closing, xfer, file, got, why>>

WriteNothing ==
  /\ phase = "write" /\ resp = <<>> /\ xfer.kind \in {"none", "put"}
  /\ phase' = "wait"
  /\ UNCHANGED <<client, server, got, why, met>>

\* Mutant of WriteFile: the file does not wait for the response.
WriteFileAtOnce ==
  /\ phase = "write" /\ xfer.kind = "get"
  /\ \E m \in Pump(xfer) :
       /\ m.end = "more"
       /\ got' = got \o Bodies(m.sent)
       /\ xfer' = [xfer EXCEPT !.buf = m.buf, !.rest = m.rest]
  /\ phase' = "wait"
  /\ UNCHANGED <<client, req, answered, resp, begun, closing, file, why, met>>

\* write_out_xfer of a download.  A transfer that completes here is deleted
\* by delete_xfer; its file stays in the table with no consumer, and is left
\* out of the model from then on.
WriteFile ==
  /\ phase = "write" /\ resp = <<>> /\ xfer.kind = "get"
  /\ \E m \in Pump(xfer) :
       /\ got' = got \o Bodies(m.sent)
       /\ \/ /\ m.end = "more"
             /\ xfer' = [xfer EXCEPT !.buf = m.buf, !.rest = m.rest]
             /\ phase' = "wait" /\ UNCHANGED <<file, why>>
          \/ /\ m.end = "done"
             /\ xfer' = NoXfer /\ file' = "none"
             /\ phase' = "wait" /\ UNCHANGED why
          \/ /\ m.end = "limit"
             /\ xfer' = NoXfer /\ file' = "none"
             /\ phase' = "gone" /\ why' = "lost"
  /\ UNCHANGED <<client, req, answered, resp, begun, closing, met>>

\* write_out_xfer of a listing, an entry at a time.  A full socket does to the
\* entry what it does to a response; and then the listing's timeout is asked,
\* which ends it.
WriteList ==
  /\ phase = "write" /\ resp = <<>> /\ xfer.kind = "list"
  /\ \/ /\ xfer.rest > 0
        /\ got' = Append(got, Body(xfer.id))
        /\ xfer' = [xfer EXCEPT !.rest = @ - 1]
        /\ UNCHANGED met
     \/ xfer.rest = 0 /\ xfer' = NoXfer /\ UNCHANGED <<got, met>>
     \/ /\ xfer.rest > 0 /\ "full" \notin met /\ Meet("full")
        /\ \/ xfer' = [xfer EXCEPT !.rest = @ - 1] /\ UNCHANGED got
           \/ got' = Append(got, Torn(Body(xfer.id))) /\ UNCHANGED xfer
     \/ xfer.rest > 0 /\ xfer' = NoXfer /\ Meet("timeout") /\ UNCHANGED got
  /\ phase' = "wait"
  /\ UNCHANGED <<client, req, answered, resp, begun, closing, file, why>>

---------------------------------------------------------------------------
(* do_events on the file of a transfer *)

\* A download with a buffer asks poll for the file when the buffer is empty.
\* completed() throws to the loop, which drops the file; so does a limit, or an
\* error in reading the file or, when a piece has been read, in writing to the
\* connection, but then the transfer is not told before the file is reaped.
FilePumps ==
  /\ phase = "wait" /\ xfer.kind = "get" /\ file = "open" /\ xfer.buf = "empty"
  /\ \/ \E m \in Io(xfer) :
          /\ got' = got \o Bodies(m.sent)
          /\ xfer' = IF m.end = "done" THEN NoXfer
                     ELSE [xfer EXCEPT !.buf = m.buf, !.rest = m.rest]
          /\ file' = CASE m.end = "done" -> "none"
                       [] m.end = "limit" -> "doomed"
                       [] OTHER -> file
          /\ IF m.end = "limit" THEN Meet("limit") ELSE UNCHANGED met
     \/ /\ \/ UNCHANGED xfer
           \/ /\ xfer.rest > 0
              /\ xfer' = [xfer EXCEPT !.buf = "full", !.rest = @ - 1]
        /\ file' = "doomed" /\ Meet("broken") /\ UNCHANGED got
  /\ UNCHANGED <<client, req, answered, resp, begun, closing, phase, why>>

\* An upload is pumped by the file too: the loop finds it always writable.
FileTakesBody ==
  /\ phase = "wait" /\ xfer.kind = "put" /\ file = "open"
  /\ \/ /\ inq = <<>> /\ eof
        /\ xfer' = NoXfer /\ file' = "none" /\ UNCHANGED <<inq, met>>
     \/ inq # <<>> /\ inq' = <<>> /\ UNCHANGED <<xfer, file, met>>
     \/ /\ inq # <<>> /\ inq' = <<>>
        /\ file' = "doomed" /\ Meet("limit") /\ UNCHANGED xfer
     \/ /\ inq' \in {inq, <<>>}
        /\ file' = "doomed" /\ Meet("broken") /\ UNCHANGED xfer
  /\ UNCHANGED <<asked, items, typing, eof, req, answered, resp, begun, closing,
                 phase, got, why>>

\* check_timeout of the transfer, asked through its file.
XferTimesOut ==
  /\ phase = "wait" /\ file = "open"
  /\ file' = "doomed" /\ Meet("timeout")
  /\ UNCHANGED <<client, req, answered, resp, begun, closing, xfer, phase, got,
                 why>>

\* The doomed file is deleted: stream_hungup keeps a download that has
\* something buffered, and ends any other.  xfer_done does not look at success.
ReapFile ==
  /\ phase = "wait" /\ file = "doomed"
  /\ file' = "none"
  /\ xfer' = IF xfer.kind = "get" /\ xfer.buf = "full" THEN xfer ELSE NoXfer
  /\ UNCHANGED <<client, req, answered, resp, begun, closing, phase, got, why,
                 met>>

\* At any moment the connection is removed with whatever is queued: by its
\* timeout, which the loop asks and a read or a write that would block; by a
\* socket that fails or is hung up; by any other exception in its own events,
\* as of the transfer it drives, of open, or in error_response.
Lose == phase # "gone" /\ Gone("lost")

---------------------------------------------------------------------------
Next ==
  \/ \E kind \in {"line", "nameless"}, ver \in Versions :
       Ask(Item(kind, ver, "none"))
  \/ Ask(Item("bad", 10, "none")) \/ Ask(Item("end", 10, "none"))
  \/ \E conn \in Connections \ {"other"} : Ask(Item("header", 10, conn))
  \/ Close
  \/ ReadNothing \/ Part \/ ReadLine \/ ReadEof
  \/ ReadBody \/ BodyLimited
  \/ \E k \in 0..Len(resp) : WriteResponse(k)
  \/ FullSocket \/ WriteNothing \/ WriteFile \/ WriteList
  \/ FilePumps \/ FileTakesBody \/ XferTimesOut \/ ReapFile \/ Lose

Spec == Init /\ [][Next]_vars

---------------------------------------------------------------------------
(* Properties *)

Items == [kind : {"line", "nameless", "bad", "header", "end"}, ver : Versions,
          conn : Connections]
Tokens == [part : {"head", "body", "stray"}, id : 0..MaxItems, keep : BOOLEAN,
           len : Nat]

TypeOK ==
  /\ asked \in 0..MaxRequests /\ items \in 0..MaxItems
  /\ typing \in BOOLEAN /\ eof \in BOOLEAN
  /\ begun \in BOOLEAN /\ closing \in BOOLEAN
  /\ inq \in Seq(Items) /\ resp \in Seq(Tokens) /\ got \in Seq(Tokens)
  /\ req \in [has : BOOLEAN, ver : {0} \cup Versions, conn : Connections,
              n : Nat]
  /\ answered \in 0..MaxItems
  /\ xfer \in [kind : {"none", "get", "list", "put"}, id : 0..MaxItems,
               rest : 0..FileSize, buf : {"none", "empty", "full"}]
  /\ file \in {"none", "open", "doomed"}
  /\ phase \in {"wait", "body", "write", "gone"}
  /\ why \in {"none", "done", "lost"}
  /\ met \subseteq Mishaps

Heads == {i \in 1..Len(got) : got[i].part = "head"}
BodyOf(i) == {j \in 1..Len(got) : got[j].part = "body" /\ got[j].id = got[i].id}

\* Nothing of the kind has happened.
Without(mishaps) == met \cap mishaps = {}

\* A pipelining client tells responses apart by counting: they come in the
\* order of the requests, each one's header before any of its body, though
\* the body is written past _response and by the events of another stream,
\* unless one was dropped or torn by a full socket or queued on top of another
\* by an exception; and there is at most one for each request, if none of those
\* had too many headers or no method.  A full socket makes no response come
\* after a later one.
ResponsesInOrder ==
  /\ Without({"full", "misconfigured"}) =>
       /\ \A i \in 1..Len(got) :
            i > 1 => got[i].id = got[i-1].id + (IF i \in Heads THEN 1 ELSE 0)
       /\ got # <<>> => 1 \in Heads /\ got[1].id = 1
  /\ Without({"overfull", "nameless", "misconfigured"}) => answered <= asked
  /\ Without({"misconfigured"}) =>
       \A i \in 1..Len(got) : i > 1 => got[i-1].id <= got[i].id

\* Comment of finished_queuing_response, "may be called multiple times": a
\* header that says "Connection: close" is the last one, but where an exception
\* queued another, and the server closes on its own only after such a header,
\* if no command failed and no full socket made it drop a response.
CloseAgreed ==
  /\ Without({"misconfigured"}) =>
       \A i \in Heads : ~got[i].keep => closing /\ \A j \in Heads : j <= i
  /\ why = "done" /\ Without({"error", "full"}) => \E i \in Heads : ~got[i].keep

\* Comment of do_get_dirlisting, "no content length so must close": where a
\* response is not the last, and where the server ends it by closing, the
\* client has had the whole body its header promised, if no transfer was cut
\* by its timeout, its limit or an error of its streams, no socket was full
\* and no response had another queued on top of it.
BodiesWhole ==
  Without({"timeout", "limit", "broken", "full", "misconfigured"}) =>
    \A i \in Heads :
      (why = "done" \/ \E j \in Heads : j > i)
        => Cardinality(BodyOf(i)) = got[i].len
=============================================================================
