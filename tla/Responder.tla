----------------------------- MODULE Responder -----------------------------
(***************************************************************************)
(* IOContextResponder on top of IOContextWriter: a connection that reads a *)
(* line, gathers a reply, and writes it before it reads the next line.     *)
(* Replies may also come from elsewhere: FTPControl::xfer_done answers     *)
(* when the data connection ends, in the middle of whatever the client is  *)
(* typing.  The connection may end by itself, once a closing reply is out, *)
(* or be ended: by a timeout, by the socket, by an exception.              *)
(*                                                                         *)
(* The bytes the server produces are numbered; _response is the run of     *)
(* numbers that ends with the last one produced, so its length describes   *)
(* it.  A carriage return is not told from other bytes.                    *)
(***************************************************************************)
EXTENDS Naturals, Sequences

CONSTANTS
  LineMax,      \* sizeof IOContextResponder::_buf
  WordSize,     \* one more than the largest unsigned
  ReplySizes,   \* lengths of the replies
  MaxMade,      \* bound on the bytes the server produces
  MaxTyped      \* bound on the bytes the client sends

ASSUME ResponderConstants ==
  /\ LineMax \in Nat \ {0}
  /\ MaxMade \in Nat /\ MaxTyped \in Nat
  /\ WordSize \in Nat /\ WordSize > MaxMade + 1
  /\ ReplySizes \subseteq Nat \ {0}

VARIABLES
  typed,    \* bytes the client has sent
  inq,      \* bytes of the client the server has not read
  line,     \* _buf up to _buf_write_pos
  heard,    \* lines given to finished_reading
  made,     \* bytes given to add_response
  resp,     \* length of _response
  pos,      \* _buf_pos of IOContextWriter; its buffer is _response
  sent,     \* bytes written to the socket
  closing,  \* _closing
  quitting, \* _quitting: closing once the transfer under way has ended
  phase,    \* "wait" in poll, "write" after read_in, "done" when deleted by
            \* itself after output, "lost" when deleted in any other way
  cut,      \* a reply has come from elsewhere while line held half a line
  blocked   \* a write has found the socket full

vars == <<typed, inq, line, heard, made, resp, pos, sent, closing, quitting,
          phase, cut, blocked>>

Byte(n, col, last) == [line |-> n, col |-> col, last |-> last]

\* FTP greets the client, or turns it away at once; HTTP says nothing.
Init ==
  /\ typed = <<>> /\ inq = <<>> /\ line = <<>> /\ heard = <<>>
  /\ made \in {0} \cup {n \in ReplySizes : n <= MaxMade}
  /\ resp = made /\ pos = 0 /\ sent = <<>>
  /\ closing \in BOOLEAN /\ (closing => made # 0)
  /\ quitting = FALSE /\ phase = "wait"
  /\ cut = FALSE /\ blocked = FALSE

ResponseReady == resp # 0
WriteBufEmpty == pos >= resp

\* The client types the next byte of its current line, or ends the line.
Type(last) ==
  /\ Len(typed) < MaxTyped
  /\ LET before == typed[Len(typed)]
         byte == IF typed = <<>> THEN Byte(1, 1, last)
                 ELSE IF before.last THEN Byte(before.line + 1, 1, last)
                 ELSE Byte(before.line, before.col + 1, last)
     IN  typed' = Append(typed, byte) /\ inq' = Append(inq, byte)
  /\ UNCHANGED <<line, heard, made, resp, pos, sent, closing, quitting, phase,
                 cut, blocked>>

\* Mutant of AddResponse: every reply starts to be written at its beginning.
AddResponseAnew(n) ==
  /\ made + n <= MaxMade
  /\ made' = made + n
  /\ resp' = resp + n
  /\ pos' = 0

\* add_response: a reply under way grows at its end.
AddResponse(n) ==
  /\ made + n <= MaxMade
  /\ made' = made + n
  /\ resp' = resp + n
  /\ pos' = IF WriteBufEmpty THEN 0 ELSE pos

\* xfer_done: a reply that comes when the transfer ends, whatever the client is
\* typing; it is the last one after QUIT.
Intrude(n) ==
  /\ phase = "wait"
  /\ AddResponse(n)
  /\ closing' = (closing \/ quitting)
  /\ cut' = (cut \/ line # <<>>)
  /\ UNCHANGED <<typed, inq, line, heard, sent, quitting, phase, blocked>>

\* Mutant of Taken: what follows the newline is taken too.
TakenPast ==
  IF Len(inq) <= LineMax - Len(line) THEN Len(inq) ELSE LineMax - Len(line)

\* How many bytes of inq read_in takes: up to a newline or a full buffer.
Taken ==
  LET ends == {i \in 1..Len(inq) : inq[i].last}
      full == LineMax - Len(line)
      stops == ends \cup {full, Len(inq)}
  IN  CHOOSE i \in stops : \A j \in stops : i <= j

\* read_in; want_read keeps poll from asking while a reply is pending, but
\* any event of the stream gets here.
Ignore ==
  /\ phase = "wait" /\ ResponseReady
  /\ phase' = "write"
  /\ UNCHANGED <<typed, inq, line, heard, made, resp, pos, sent, closing,
                 quitting, cut, blocked>>

\* Mutant of Part: the closing reply need not have been written.
PartEarly ==
  /\ phase = "wait" /\ closing
  /\ phase' = "done"
  /\ UNCHANGED <<typed, inq, line, heard, made, resp, pos, sent, closing,
                 quitting, cut, blocked>>

Part ==
  /\ phase = "wait" /\ ~ResponseReady /\ closing
  /\ phase' = "done"
  /\ UNCHANGED <<typed, inq, line, heard, made, resp, pos, sent, closing,
                 quitting, cut, blocked>>

\* finished_reading: the command is answered, and may be the last one (an
\* error, QUIT); a line of a header is not.  ABOR ends the event by throwing
\* the transfer away, and an exception that nobody catches the connection.
Answer ==
  /\ phase' \in {"write", "wait", "lost"}
  /\ \/ /\ closing' \in BOOLEAN
        /\ quitting' \in {quitting, TRUE}
        /\ \E n \in ReplySizes : AddResponse(n)
     \/ UNCHANGED <<made, resp, pos, closing, quitting>>

\* make_error, for FTP: a last reply.  HTTP deletes the connection in place of
\* it.
MakeError(next) ==
  \/ /\ phase' = next
     /\ closing' = TRUE
     /\ \E n \in ReplySizes : AddResponse(n)
  \/ /\ phase' = "lost"
     /\ UNCHANGED <<made, resp, pos, closing>>

ReadIn ==
  /\ phase = "wait" /\ ~ResponseReady /\ ~closing
  /\ LET got == line \o SubSeq(inq, 1, Taken)
         ended == got # <<>> /\ got[Len(got)].last
     IN  /\ inq' = SubSeq(inq, Taken + 1, Len(inq))
         /\ \/ /\ ended                          \* read_done
               /\ heard' = Append(heard, got) /\ line' = <<>>
               /\ Answer
            \/ /\ ~ended /\ Len(got) = LineMax   \* input_line_too_long
               /\ line' = <<>>
               /\ MakeError("write")
               /\ UNCHANGED <<heard, quitting>>
            \/ /\ ~ended /\ Len(got) < LineMax   \* nothing more to read
               /\ line' = got
               /\ UNCHANGED <<heard, quitting>>
               /\ \/ /\ phase' = "write"
                     /\ UNCHANGED <<made, resp, pos, closing>>
                  \/ MakeError("write")          \* check_timeout in do_read
  /\ UNCHANGED <<typed, sent, cut, blocked>>

\* check_timeout before poll: FTP tells a client with no reply under way.
TimedOut ==
  /\ phase = "wait"
  /\ MakeError("wait")
  /\ (ResponseReady => phase' = "lost")
  /\ UNCHANGED <<typed, inq, line, heard, sent, quitting, cut, blocked>>

\* The socket is closed or fails, or a write finds it full when the time has
\* run out: do_events removes the connection, whatever is still to be written.
Lost ==
  /\ phase \in {"wait", "write"}
  /\ phase' = "lost"
  /\ UNCHANGED <<typed, inq, line, heard, made, resp, pos, sent, closing,
                 quitting, cut, blocked>>

\* finished_writing, and the prepare_io in it, with no response left.
FinishedWriting ==
  /\ resp' = 0
  /\ line' = <<>>

\* The numbers of the bytes from _buf_pos on.
Unwritten(k) == [i \in 1..k |-> made - resp + pos + i]

\* Some bytes are written, k at most.
Written(k) ==
  /\ k \in 1..(resp - pos)
  /\ pos' = pos + k
  /\ sent' = sent \o Unwritten(k)
  /\ UNCHANGED blocked

\* Mutant of Blocked: the position is a signed number.
BlockedSigned ==
  /\ ~blocked /\ blocked' = TRUE
  /\ pos' = pos - 1
  /\ UNCHANGED sent

\* The write that follows a read may find the socket full, as nobody asked
\* poll: do_write returns -1, which is added to _buf_pos like any count.
\* Followed once in a behaviour; the timeout that do_write looks at is Lost.
Blocked ==
  /\ ~blocked /\ blocked' = TRUE
  /\ pos' = (pos + (WordSize - 1)) % WordSize
  /\ UNCHANGED sent

\* write_out: with the last byte the connection is ready to read again.
WriteOut ==
  /\ phase = "write" /\ ResponseReady
  /\ phase' = "wait"
  /\ IF WriteBufEmpty
     THEN FinishedWriting /\ UNCHANGED <<pos, sent, blocked>>
     ELSE /\ Blocked \/ \E k \in 1..MaxMade : Written(k)
          /\ IF pos' >= resp THEN FinishedWriting
             ELSE UNCHANGED <<resp, line>>
  /\ UNCHANGED <<typed, inq, heard, made, closing, quitting, cut>>

NothingToWrite ==
  /\ phase = "write" /\ ~ResponseReady
  /\ phase' = "wait"
  /\ UNCHANGED <<typed, inq, line, heard, made, resp, pos, sent, closing,
                 quitting, cut, blocked>>

Next == \/ \E last \in BOOLEAN : Type(last)
        \/ \E n \in ReplySizes : Intrude(n)
        \/ Ignore \/ Part \/ ReadIn \/ TimedOut \/ Lost
        \/ WriteOut \/ NothingToWrite

Spec == Init /\ [][Next]_vars

---------------------------------------------------------------------------
(* Properties *)

Bytes == [line : Nat, col : Nat, last : BOOLEAN]

TypeOK ==
  /\ typed \in Seq(Bytes) /\ inq \in Seq(Bytes) /\ line \in Seq(Bytes)
  /\ heard \in Seq(Seq(Bytes))
  /\ made \in 0..MaxMade /\ resp \in 0..made /\ pos \in 0..(WordSize - 1)
  /\ sent \in Seq(1..MaxMade)
  /\ closing \in BOOLEAN /\ quitting \in BOOLEAN
  /\ cut \in BOOLEAN /\ blocked \in BOOLEAN
  /\ phase \in {"wait", "write", "done", "lost"}

\* Comment in write_out, "need to tell producer as soon as writing finished":
\* what the client has received and what is still to be written are what the
\* server produced, each byte once and in order, over partial writes and
\* replies that grow while they are written.
RepliesInOrder ==
  ~blocked =>
    /\ Len(sent) = made - resp + (IF ResponseReady THEN pos ELSE 0)
    /\ \A i \in 1..Len(sent) : sent[i] = i

\* Comment above the class, "protocols that read in one line then output
\* something": a line is taken up only once every earlier reply was sent, and
\* when the server closes the connection after its output, all of it was sent,
\* over replies that intrude and a QUIT that waits for its transfer.  A
\* connection that a timeout, the socket or an exception ends may leave replies
\* unsent.
LockStep ==
  [][(heard' # heard \/ phase' = "done") /\ ~blocked => Len(sent) = made]_vars

\* What is taken for a line is the next line of the client, whole.
WholeLines ==
  ~cut =>
    \A n \in 1..Len(heard) :
      heard[n] = [col \in 1..Len(heard[n]) |->
                    Byte(n, col, col = Len(heard[n]))]
=============================================================================
