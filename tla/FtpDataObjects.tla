-------------------------- MODULE FtpDataObjects --------------------------
(***************************************************************************)
(* The C++ objects of one FTP session and the streams that own them: the   *)
(* control connection (FTPControl), its passive listeners                  *)
(* (FTPDataListener) and its transfers (IOContextXfer and the directory    *)
(* listings), with the destructor cascade that runs when one of them goes. *)
(*                                                                         *)
(* Destructors call back into other objects (a transfer that dies notifies *)
(* its controller, a listener that dies deletes the transfer parked in it) *)
(* and all of it happens inside one call, so the cascade is written as     *)
(* operators from a heap h to the heap after the call.  A heap is a record *)
(* of the fields the code reads; FtpDataConn holds the current one in a    *)
(* variable.                                                               *)
(***************************************************************************)
EXTENDS Naturals

CONSTANTS
  Control,    \* the FTPControl object
  Listeners,  \* identities for FTPDataListener objects, never reused
  Xfers,      \* identities for transfers, never reused
  None        \* the null pointer

ASSUME ObjectsDistinct ==
  /\ Control \notin Listeners \cup Xfers \cup {None}
  /\ None \notin Listeners \cup Xfers
  /\ Listeners \cap Xfers = {}

Controlled == Listeners \cup Xfers      \* subclasses of IOContextControlled
Contexts == {Control} \cup Controlled   \* every IOContext of the session

(***************************************************************************)
(* Streams: the control connection, the socket of a listener, the file a   *)
(* transfer reads or writes, the data connection of a transfer.            *)
(***************************************************************************)
Ctl == <<"ctl", None>>
ListenStream(l) == <<"listen", l>>
FileStream(x) == <<"file", x>>
DataStream(x) == <<"data", x>>
Streams == {Ctl} \cup {ListenStream(l) : l \in Listeners}
                 \cup {FileStream(x) : x \in Xfers}
                 \cup {DataStream(x) : x \in Xfers}

\* The null pointer is no stream.
ASSUME StreamsNotNull == None \notin Streams

Kinds == {"none", "retr", "stor", "list"}
Faults == {"none", "null", "controller", "consumer"}

Heap == [
  alive    : SUBSET Contexts,             \* constructed and not yet deleted
  attached : SUBSET Controlled,           \* IOContextControlled::_control is set
  consumer : [Streams -> Contexts \cup {None}],  \* Stream::_consumer
  table    : [Streams -> {"none", "added", "in", "gone"}],
  doomed   : SUBSET Streams,              \* StreamTable::_deleted_streams
  listener : Listeners \cup {None},       \* FTPControl::_data_listener
  xfer     : Xfers \cup {None},           \* FTPControl::_data_xfer
  data     : [Listeners -> Xfers \cup {None}],   \* FTPDataListener::_data
  finished : SUBSET Listeners,            \* FTPDataListener::_finished
  kind     : [Xfers -> Kinds],
  in       : [Xfers -> Streams \cup {None}],     \* Sendfile::_in
  out      : [Xfers -> Streams \cup {None}],     \* Sendfile::_out
  buf      : [Xfers -> {"none", "empty", "full"}],  \* Sendfile::_buf
  begun    : SUBSET Xfers,                \* answered with 150
  answers  : [Xfers -> Nat],              \* 226 or 426 sent by xfer_done
  auth     : BOOLEAN,                     \* User::authenticated
  resp     : BOOLEAN,                     \* IOContextResponder::response_ready
  closing  : BOOLEAN,                     \* IOContextResponder::_closing
  quitting : BOOLEAN,                     \* FTPControl::_quitting
  armed    : {"off", "set", "on"},        \* timeout of the control connection
  clock    : [Xfers -> {"off", "set", "on"}],    \* timeouts of the transfers
  fault    : Faults ]                     \* undefined behaviour met, and where

EmptyHeap == [
  alive |-> {Control}, attached |-> {},
  consumer |-> [s \in Streams |-> IF s = Ctl THEN Control ELSE None],
  table |-> [s \in Streams |-> IF s = Ctl THEN "in" ELSE "none"],
  doomed |-> {}, listener |-> None, xfer |-> None,
  data |-> [l \in Listeners |-> None], finished |-> {},
  kind |-> [x \in Xfers |-> "none"],
  in |-> [x \in Xfers |-> None], out |-> [x \in Xfers |-> None],
  buf |-> [x \in Xfers |-> "none"], begun |-> {},
  answers |-> [x \in Xfers |-> 0],
  auth |-> TRUE, resp |-> FALSE, closing |-> FALSE, quitting |-> FALSE,
  armed |-> "set", clock |-> [x \in Xfers |-> "off"], fault |-> "none" ]

Tabled(h) == {s \in Streams : h.table[s] \in {"added", "in"}}

\* A transfer waits in the listener for the client to connect.
Parked(h) == h.listener # None /\ h.data[h.listener] # None

---------------------------------------------------------------------------
\* xfer_done makes a listener that still holds the transfer forget it, and
\* forgets the listener without detaching it.
ForgetParked(h) ==
  IF Parked(h)
  THEN [h EXCEPT !.data[h.listener] = None,
                 !.finished = @ \cup {h.listener},
                 !.listener = None]
  ELSE h

Say(h) == [h EXCEPT !.resp = TRUE]      \* FTPControl::make_response

\* Mutant of Answer: the session goes on pointing to the transfer.
AnswerKeepingXfer(h, x) ==
  [Say(h) EXCEPT !.closing = @ \/ h.quitting,
                 !.answers[x] = @ + 1,
                 !.armed = "set"]

\* The 226 or 426 of transfer x; a client that has quit is then let go.
Answer(h, x) ==
  [Say(h) EXCEPT !.xfer = None,
                 !.closing = @ \/ h.quitting,
                 !.answers[x] = @ + 1,
                 !.armed = "set"]

\* FTPControl::xfer_done.
XferDone(h, c) ==
  IF c = h.xfer THEN Answer(ForgetParked(h), c)
  ELSE IF c = h.listener THEN [h EXCEPT !.listener = None] ELSE h

\* IOContextControlled::notify: detach, then tell the controller, whose
\* memory may be gone.
Notify(h, c) ==
  IF c \notin h.attached THEN h
  ELSE IF Control \notin h.alive THEN [h EXCEPT !.fault = "controller"]
  ELSE XferDone([h EXCEPT !.attached = @ \ {c}], c)

\* StreamTable::remove(IOContext*): dooms the streams of c, and every stream
\* that has lost its consumer.
Remove(h, c) ==
  [h EXCEPT !.doomed = @ \cup {s \in Tabled(h) : h.consumer[s] \in {None, c}}]

\* Mutant of Complete: nothing is thrown.
CompleteWithoutDestroy(h, c) == Notify(h, c)

\* IOContextControlled::completed: notify, then throw Destroy(this), which
\* StreamTable::do_events catches.
Complete(h, c) == Remove(Notify(h, c), c)

\* Streams x holds and still consumes let go of it (IOContextXfer::free).
ReleaseStreams(h, x, S) ==
  [h EXCEPT !.consumer = [s \in Streams |->
     IF s \in S /\ s \in {h.in[x], h.out[x]} /\ h.consumer[s] = x
     THEN None ELSE h.consumer[s]]]

Bury(h, c) == [h EXCEPT !.alive = @ \ {c}]

\* Mutant of DeleteXfer: the streams keep their pointer to the transfer.
DeleteXferAttached(h, x) == Bury(Notify(h, x), x)

\* delete of an IOContextXfer or a listing: release the streams, notify.
DeleteXfer(h, x) == Bury(Notify(ReleaseStreams(h, x, Streams), x), x)

\* Mutant of FreeListener: the parked transfer is only forgotten.
FreeListenerAlone(h, l) ==
  [h EXCEPT !.data[l] = None, !.finished = @ \cup {l}]

\* FTPDataListener::free: deletes the transfer parked in it.
FreeListener(h, l) ==
  LET freed == IF h.data[l] = None THEN h ELSE DeleteXfer(h, h.data[l])
  IN  [freed EXCEPT !.data[l] = None,
                    !.finished = @ \cup {l}]

\* Mutant of DeleteListener: the control connection is not told.
DeleteListenerUntold(h, l) == Bury(FreeListener(h, l), l)

\* delete of an FTPDataListener.
DeleteListener(h, l) == Bury(Notify(FreeListener(h, l), l), l)

\* FTPControl::passive_off.  Freeing a parked transfer calls back into
\* xfer_done, which has nulled _data_listener when detach is called on it.
PassiveOff(h) ==
  IF h.listener = None THEN h
  ELSE LET freed == FreeListener(h, h.listener)
       IN  IF freed.listener = None
           THEN [freed EXCEPT !.fault = "null"]
           ELSE [freed EXCEPT !.attached = @ \ {h.listener},
                              !.listener = None]

\* FTPControl::stream_hungup and the ~FTPControl that follows it.
DeleteControl(h) ==
  LET off == PassiveOff(h)
  IN  IF off.fault # "none" THEN off
      ELSE Bury([off EXCEPT !.attached = @ \ {h.xfer}, !.xfer = None],
                Control)

\* IOContextXfer::stream_hungup: the transfer outlives its source only to
\* flush what it has buffered.
XferHungup(h, x, s) ==
  IF h.kind[x] = "list" THEN DeleteXfer(h, x)
  ELSE LET inFree == ReleaseStreams(h, x, {h.in[x]}) IN
       IF h.out[x] # None /\ s = h.in[x] /\ s # h.out[x] /\ h.buf[x] = "full"
       THEN [inFree EXCEPT !.in[x] = None]
       ELSE DeleteXfer([ReleaseStreams(h, x, Streams) EXCEPT
                          !.in[x] = None,
                          !.out[x] = None], x)

\* Stream::free, run by ~Stream: the consumer learns that s is gone and is
\* deleted when it has no further use.
FreeStream(h, s) ==
  LET c == h.consumer[s]
      released == [h EXCEPT !.consumer[s] = None]
  IN  IF c = None THEN h
      ELSE IF c \notin h.alive THEN [h EXCEPT !.fault = "consumer"]
      ELSE IF c = Control THEN DeleteControl(released)
      ELSE IF c \in Listeners THEN DeleteListener(released, c)
      ELSE XferHungup(released, c, s)

\* StreamTable::do_remove.
DoRemove(h, s) ==
  [FreeStream([h EXCEPT !.table[s] = "gone"], s)
     EXCEPT !.doomed = @ \ {s}]
===========================================================================
