------------------------------ MODULE SslFilter ------------------------------
(***************************************************************************)
(* An encrypted connection: the socket "S" (StreamFD), whose consumer is   *)
(* the filter "F" (lib/iocontextopenssl.hh) over OpenSSL's two buffers,    *)
(* and the stream "N" without a descriptor (lib/streamopenssl.hh), whose   *)
(* consumer is the protocol's control connection "C". StreamTable::poll    *)
(* (lib/streamtable.cc) serves N once at the beginning of every pass, and  *)
(* S when poll(2) has an event for it.                                     *)
(*                                                                         *)
(* OpenSSL is external: a record is decrypted as a whole, when SSL_read    *)
(* needs it, and SSL_pending tells only what is left of that record. A     *)
(* record of the client is a sequence of lines; a line is "quiet" when the *)
(* server has nothing to say to it yet (a header of HTTP), "asks" when it  *)
(* is answered, "last" when the connection is closed after the answer; the *)
(* record <<"bye">> is close_notify. The answers are numbered; 0 stands    *)
(* for the server's handshake, Bye for its close_notify.                   *)
(***************************************************************************)
EXTENDS Integers, SequencesExt

CONSTANTS
  Records,   \* what the client may send in one record after its handshake
  MaxSent,   \* bound: records the client sends
  Room       \* units of output the socket holds until the client reads

ASSUME SslConstants == Room \in Nat \ {0} /\ MaxSent \in Nat

VARIABLES
  alive,     \* of the objects S, N, F and C: those that exist
  doomed,    \* _deleted_streams: streams to be deleted at the next reaping
  twice,     \* AUTH TLS: S is in _streams two times
  state,     \* _state of the filter
  net,       \* records in the socket
  eof,       \* the client has closed the connection
  inbio,     \* _ssl_in
  cur,       \* lines left of the decrypted record (SSL_pending)
  shaken,    \* OpenSSL has finished the handshake
  outbio,    \* _ssl_out: all since it was last reset
  len, pos,  \* _buf_len and _buf_pos of the filter
  sock,      \* output in the socket
  got,       \* what the client has read
  made,      \* answers so far
  closing,   \* _closing of the control connection
  due,       \* the control connection has been idle for too long
  phase,     \* where StreamTable::poll stands
  more,      \* nonfd_events_pending
  wants,     \* POLLOUT is asked for
  blocked,   \* history: a write met a full socket
  sent,      \* how many records the client has sent
  fault      \* undefined behaviour, or an exception that left poll

objects == <<alive, doomed, twice, fault>>
ssl     == <<inbio, cur, shaken>>
output  == <<outbio, len, pos>>
wire    == <<net, eof, sent>>
control == <<made, closing, due>>
loop    == <<phase, more, wants>>
vars    == <<objects, state, ssl, output, wire, sock, got, control, loop,
             blocked>>

None == <<>>

Init ==
  /\ alive = {} /\ doomed = {} /\ twice = FALSE /\ fault = "none"
  /\ state = "none"
  /\ net = None /\ eof = FALSE /\ sent = 0
  /\ inbio = None /\ cur = None /\ shaken = FALSE
  /\ outbio = None /\ len = 0 /\ pos = 0
  /\ sock = None /\ got = None /\ blocked = FALSE
  /\ made = 0 /\ closing = FALSE /\ due = FALSE
  /\ phase = "plain" /\ more = FALSE /\ wants = FALSE

-----------------------------------------------------------------------------
(* The client and the clock.                                               *)

\* The handshake comes first.
ClientSends ==
  /\ ~ eof /\ sent < MaxSent
  /\ sent' = sent + 1
  /\ \E record \in IF sent = 0 THEN {<<"hello">>} ELSE Records :
       net' = Append(net, record)
  /\ UNCHANGED <<objects, state, ssl, output, eof, sock, got, control, loop,
                 blocked>>

ClientReads ==
  /\ sock # None
  /\ got' = got \o sock /\ sock' = None
  /\ UNCHANGED <<objects, state, ssl, output, wire, control, loop, blocked>>

ClientCloses ==
  /\ ~ eof
  /\ eof' = TRUE
  /\ UNCHANGED <<objects, state, ssl, output, net, sent, sock, got, control,
                 loop, blocked>>

Idle ==
  /\ "C" \in alive /\ ~ due
  /\ due' = TRUE
  /\ UNCHANGED <<objects, state, ssl, output, wire, sock, got, made, closing,
                 loop, blocked>>

-----------------------------------------------------------------------------
(* Making and deleting the objects.                                        *)

\* SSLStreamFactory::new_stream, called for a new connection of an SSL server
\* or, with a socket that is in the table already, after AUTH TLS. accept()
\* waits for the client's handshake.
NewStream ==
  /\ phase = "plain"
  /\ alive' = {"S", "N", "F", "C"}
  /\ twice' \in BOOLEAN
  /\ state' = "accept"
  /\ phase' = "serve"
  /\ UNCHANGED <<doomed, fault, ssl, output, wire, sock, got, control, more,
                 wants, blocked>>

\* Mutant of SocketGone: the filter sees no purpose in life without a socket.
SocketGoneWithFilter(o) ==
  [o EXCEPT !.alive = @ \ {"S", "F"}]

\* ~Stream of the socket: IOContextOpenSSL::stream_hungup.
SocketGone(o) ==
  IF o.state \in {"none", "shutdown"}
  THEN [o EXCEPT !.alive = @ \ {"S", "F"}]
  ELSE [o EXCEPT !.alive = @ \ {"S"}, !.state = "hungup"]

\* ~StreamOpenSSL, and ~Stream, which deletes the control connection.
StreamGone(o) ==
  LET rest == [o EXCEPT !.alive = @ \ {"N", "C"}]
  IN  IF "F" \notin o.alive
      THEN [rest EXCEPT !.fault = "freed"]
      ELSE IF o.state = "hungup"
           THEN [rest EXCEPT !.alive = @ \ {"F"}]
           ELSE [rest EXCEPT !.state = IF @ = "none" THEN @ ELSE "shutdown"]

Delete(o, s) == IF s \notin o.alive THEN o
                ELSE IF s = "S" THEN SocketGone(o) ELSE StreamGone(o)

\* sow_and_reap: the doomed streams go in the order of their addresses.
Reap ==
  /\ \E first \in {"S", "N"} :
       LET second == IF first = "S" THEN "N" ELSE "S"
           o == [alive |-> alive, state |-> state, fault |-> fault]
           one == IF first \in doomed THEN Delete(o, first) ELSE o
           both == IF second \in doomed THEN Delete(one, second) ELSE one
       IN  /\ alive' = both.alive
           /\ state' = both.state
           /\ fault' = both.fault
  /\ doomed' = {}

\* Nothing but reaping happens when the streams of the pass changed.
Restart ==
  /\ phase = "sow"
  /\ alive # {}
  /\ Reap
  /\ phase' = "serve"
  /\ UNCHANGED <<twice, ssl, output, wire, sock, got, control, more, wants,
                 blocked>>

\* SIGTERM: StreamTable::free deletes what is in _streams, as often as it is
\* there: the socket of AUTH TLS, an old member of that list, before the
\* stream on it; two that were added at once in the order of their addresses.
Stop ==
  /\ phase = "sleep"
  /\ \E first \in IF twice THEN {"S"} ELSE {"S", "N"} :
       LET second == IF first = "S" THEN "N" ELSE "S"
           o == [alive |-> alive, state |-> state, fault |-> fault]
           gone == Delete(Delete(o, first), second)
       IN  /\ alive' = gone.alive
           /\ state' = gone.state
           /\ fault' = IF twice /\ "S" \in alive THEN "twice" ELSE gone.fault
  /\ phase' = "stopped"
  /\ UNCHANGED <<doomed, twice, ssl, output, wire, sock, got, control, more,
                 wants, blocked>>

-----------------------------------------------------------------------------
(* The stream without a descriptor: do_events of N.                        *)

Doom(streams) == doomed' = doomed \cup streams

Served == phase = "serve" /\ "N" \in alive /\ phase' = "check"

\* What SSL_read has: the rest of a record, or a further one.
Record == IF cur # None THEN cur ELSE IF inbio # None THEN Head(inbio) ELSE None

\* read_in after close_after_output, when all is said: delete_this.
CloseN ==
  /\ Served /\ closing
  /\ Doom({"N"}) /\ more' = FALSE
  /\ UNCHANGED <<alive, twice, fault, state, ssl, output, wire, sock, got,
                 control, wants, blocked>>

\* Mutant of Pending: the rest of a decrypted record is not looked at.
PendingUnseen(rest) == FALSE

\* StreamOpenSSL::ready_to_read: SSL_pending.
Pending(rest) == rest # None

\* One line is read, and answered when it asks for it: SSL_write takes the
\* whole answer, unless the socket is gone and it throws ClosedException.
ReadLine ==
  /\ Served /\ ~ closing
  /\ Record # None /\ Head(Record) # "bye"
  /\ LET answered == Head(Record) \in {"asks", "last"}
         lost == answered /\ state = "hungup"
     IN  /\ made' = IF answered /\ ~ lost THEN made + 1 ELSE made
         /\ outbio' = IF answered /\ ~ lost THEN Append(outbio, made + 1)
                      ELSE outbio
         /\ closing' = (Head(Record) = "last")
         /\ Doom(IF lost THEN {"N"} ELSE {})
         /\ more' = (~ lost /\ (closing' \/ (Pending(Tail(Record)) /\ ~ answered)))
  /\ cur' = Tail(Record)
  /\ inbio' = IF cur # None THEN inbio ELSE Tail(inbio)
  /\ due' = FALSE
  /\ UNCHANGED <<alive, twice, fault, state, shaken, len, pos, wire, sock, got,
                 wants, blocked>>

\* After close_notify SSL_read returns 0 for ever, and read_in fills its whole
\* line with that: input_line_too_long.
ReadBye ==
  /\ Served /\ ~ closing
  /\ Record = <<"bye">>
  /\ Doom({"N"}) /\ more' = FALSE
  /\ due' = FALSE
  /\ UNCHANGED <<alive, twice, fault, state, ssl, output, wire, sock, got,
                 made, closing, wants, blocked>>

\* SSL_read waits for more: ClosedException when there will be no more, else
\* do_read looks at the clock.
ReadNothing ==
  /\ Served /\ ~ closing
  /\ Record = None
  /\ Doom(IF state = "hungup" \/ due THEN {"N"} ELSE {})
  /\ due' = (due /\ state = "hungup")
  /\ more' = FALSE
  /\ UNCHANGED <<alive, twice, fault, state, ssl, output, wire, sock, got,
                 made, closing, wants, blocked>>

\* poll looks at the clock once more, where nothing catches what timedout
\* throws; then it reaps.
Check ==
  /\ phase = "check"
  /\ IF due
     THEN /\ fault' = "escaped" /\ phase' = "stopped" /\ due' = FALSE
          /\ UNCHANGED <<alive, doomed, state>>
     ELSE Reap /\ phase' = "prepare" /\ UNCHANGED due
  /\ UNCHANGED <<twice, ssl, output, wire, sock, got, made, closing, more,
                 wants, blocked>>

\* There is no such stream any more.
Skip ==
  /\ phase = "serve" /\ "N" \notin alive
  /\ phase' = "prepare" /\ more' = FALSE
  /\ UNCHANGED <<objects, state, ssl, output, wire, sock, got, control, wants,
                 blocked>>

-----------------------------------------------------------------------------
(* The filter, as the consumer of the socket. Its operations are functions *)
(* of a record with what they change; "thrown" is "destroy" after          *)
(* delete_this and "error" after any other exception.                      *)

Bye == 0 - 1

Filter == [state |-> state, inbio |-> inbio, shaken |-> shaken,
           outbio |-> outbio, len |-> len, pos |-> pos, sock |-> sock,
           blocked |-> blocked, thrown |-> "no"]

\* _buf_pos is unsigned: -1 stands for the largest value there is.
Empty(f) == f.pos = 0 - 1 \/ f.pos >= f.len

\* try_state_change. SSL_accept answers the client's handshake. SSL_shutdown
\* sends close_notify; before the end of the handshake it is an error, or in
\* older versions of OpenSSL it does nothing.
StateChange(f) ==
  CASE f.state = "accept" /\ f.inbio # None ->
         {[f EXCEPT !.state = "established", !.inbio = Tail(@),
                    !.shaken = TRUE, !.outbio = Append(@, 0)]}
    [] f.state = "shutdown" /\ f.shaken ->
         {[f EXCEPT !.state = "none", !.outbio = Append(@, Bye),
                    !.thrown = "destroy"]}
    [] f.state = "shutdown" /\ ~ f.shaken ->
         {f, [f EXCEPT !.thrown = "error"]}
    [] OTHER -> {f}

\* Mutant of Written: whatever came while the buffer was written is thrown
\* away with it.
WrittenAll(f) == [f EXCEPT !.outbio = None, !.len = 0, !.pos = 0]

\* The end of finished_writing: what came meanwhile is written next.
Written(f) ==
  IF f.len # Len(f.outbio) THEN [f EXCEPT !.len = Len(f.outbio)]
  ELSE [f EXCEPT !.outbio = None, !.len = 0, !.pos = 0]

FinishedWriting(f) ==
  {IF g.thrown = "no" THEN Written(g) ELSE g : g \in StateChange(f)}

IfEmpty(f) == IF f.thrown = "no" /\ Empty(f) THEN FinishedWriting(f) ELSE {f}

\* One write(2) of the rest of the buffer. A full socket makes do_write
\* return -1, which is added to _buf_pos; one that the client has closed may
\* refuse.
Push(f) ==
  LET room == Room - Len(f.sock)
      left == f.len - f.pos
  IN  (IF eof THEN {[f EXCEPT !.thrown = "error"]} ELSE {}) \cup
      IF room = 0
      THEN {[f EXCEPT !.pos = @ - 1, !.blocked = TRUE]}
      ELSE {[f EXCEPT !.pos = @ + n,
                      !.sock = @ \o SubSeq(f.outbio, f.pos + 1, f.pos + n)] :
              n \in 1..(IF room < left THEN room ELSE left)}

\* write_out, of the filter and of the writer it is.
WriteOut(f) ==
  LET ready == IfEmpty([f EXCEPT !.len = Len(f.outbio)])
  IN  UNION {IF g.thrown # "no" \/ Empty(g) THEN {g}
             ELSE UNION {IfEmpty(h) : h \in Push(g)} : g \in ready}

Becomes(f) ==
  /\ state' = f.state /\ inbio' = f.inbio /\ shaken' = f.shaken
  /\ outbio' = f.outbio /\ len' = f.len /\ pos' = f.pos
  /\ sock' = f.sock /\ blocked' = f.blocked

\* want_write before poll(2): it may finish writing. Only Destroy is caught
\* there.
PrepareSocket ==
  /\ phase = "prepare" /\ "S" \in alive
  /\ \E f \in IfEmpty(Filter) :
       /\ Becomes(f)
       /\ Doom(IF f.thrown = "destroy" THEN {"S"} ELSE {})
       /\ wants' = (f.thrown = "no" /\ ~ Empty(f))
       /\ fault' = IF f.thrown = "error" THEN "escaped" ELSE fault
       /\ phase' = CASE f.thrown = "error" -> "stopped"
                     [] f.thrown = "destroy" -> "sow"
                     [] OTHER -> "sleep"
  /\ UNCHANGED <<alive, twice, cur, wire, got, control, more>>

PrepareNothing ==
  /\ phase = "prepare" /\ "S" \notin alive
  /\ phase' = "sleep" /\ wants' = FALSE
  /\ UNCHANGED <<objects, state, ssl, output, wire, sock, got, control, more,
                 blocked>>

Readable == net # None \/ eof
Ready    == "S" \in alive /\ (Readable \/ (wants /\ Len(sock) < Room))

\* do_events of S: read_in moves what the socket has into _ssl_in, where the
\* end of the stream is a ClosedException; then write_out.
ServeSocket ==
  /\ phase = "sleep" /\ Ready
  /\ phase' = "sow"
  /\ \E f \in StateChange(Filter) :
       IF f.thrown # "no" \/ (net = None /\ eof)
       THEN Becomes(f) /\ Doom({"S"}) /\ UNCHANGED net
       ELSE /\ net' = None
            /\ \E g \in WriteOut([f EXCEPT !.inbio = @ \o net]) :
                 /\ Becomes(g)
                 /\ Doom(IF g.thrown = "no" THEN {} ELSE {"S"})
  /\ UNCHANGED <<alive, twice, fault, cur, eof, sent, got, control, more,
                 wants>>

\* poll(2) returns without an event of the socket,
Woken ==
  /\ phase = "sleep" /\ ~ Ready
  /\ alive # {}
  /\ phase' = "sow"
  /\ UNCHANGED <<objects, state, ssl, output, wire, sock, got, control, more,
                 wants, blocked>>

\* at once, when a stream without a descriptor has more to do,
Again == more /\ Woken

\* or for another connection.
Elsewhere == ~ more /\ Woken

-----------------------------------------------------------------------------
Loop ==
  \/ Restart \/ CloseN \/ ReadLine \/ ReadBye \/ ReadNothing \/ Check \/ Skip
  \/ PrepareSocket \/ PrepareNothing \/ ServeSocket \/ Again

Next ==
  \/ ClientSends \/ ClientReads \/ ClientCloses \/ Idle
  \/ NewStream \/ Loop \/ Elsewhere \/ Stop

Spec == Init /\ [][Next]_vars /\ WF_vars(Loop) /\ WF_vars(ClientReads)

-----------------------------------------------------------------------------
\* Properties.

\* lib/streamopenssl.hh:30, lib/iocontextopenssl.hh:272: the filter is there
\* as long as one of its two streams is, and no longer, whichever of them is
\* deleted first; nothing is freed twice, but for a connection that AUTH TLS
\* had entered in the table two times and that the end of the program meets.
Lifetimes ==
  /\ fault # "freed"
  /\ fault = "twice" => twice /\ phase = "stopped"
  /\ phase \notin {"plain", "stopped"} =>
       ("F" \in alive <=> alive \cap {"S", "N"} # {})
  /\ "N" \in alive <=> "C" \in alive
  /\ doomed \subseteq alive
  /\ "S" \in alive /\ "N" \in alive => state \in {"accept", "established"}

\* lib/iocontextopenssl.hh:165: what the server said has reached the client,
\* or waits in the socket or in the rest of _ssl_out, each piece once and in
\* the order it was said, over partial writes and over what is added to the
\* buffer while it is being written; only close_notify may follow it, once.
\* Claimed until a write meets a full socket.
Said == (IF shaken THEN <<0>> ELSE None) \o [i \in 1..made |-> i]
Output == got \o sock \o SubSeq(outbio, pos + 1, Len(outbio))
SentInOrder ==
  ~ blocked /\ "S" \in alive => Output \in {Said, Append(Said, Bye)}

\* lib/streamtable.cc:182, lib/streamopenssl.hh:75: a line that has arrived is
\* read although the socket has no event for it any more: poll does not sleep
\* on the rest of a decrypted record. It does sleep on a further record that
\* OpenSSL holds, when the line before it was the last of its own and had no
\* answer.
Waiting == "N" \in alive /\ ~ closing /\ (cur # None \/ inbio # None)
Over    == phase = "stopped" \/ "N" \notin alive
Stalled == phase = "sleep" /\ ~ more /\ ~ Ready /\ cur = None /\ inbio # None
LinesRead == []<>(~ Waiting \/ Over \/ Stalled)
=============================================================================
