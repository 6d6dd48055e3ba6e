---------------------------- MODULE FtpDataConn ----------------------------
(***************************************************************************)
(* One FTP session served by the event loop of StreamTable: the commands   *)
(* that open, wait for and abort data connections, the events of the four  *)
(* kinds of stream, and the sowing and reaping of streams between passes.  *)
(*                                                                         *)
(* The program has one thread.  What interleaves is the order in which the *)
(* pass over the ready descriptors and the reaping of doomed streams (a    *)
(* std::set of pointers) visit the streams, the events the kernel reports, *)
(* the timeouts that have expired, and the client.                         *)
(***************************************************************************)
EXTENDS FtpDataObjects

CONSTANTS
  NoPassiveMode,  \* the no_passive_mode entry of the configuration
  NoPortMode,     \* the no_port_mode entry of the configuration
  XferTimeout,    \* whether timeout_xfer is configured
  Hasty           \* whether the client may hang up, abort, log in again or
                  \* change mode while a transfer still waits for its data
                  \* connection

ASSUME SettingsBoolean == 
  {NoPassiveMode, NoPortMode, XferTimeout, Hasty} \subseteq BOOLEAN

VARIABLES
  h,      \* the objects of the session
  phase,  \* where StreamTable::poll stands
  todo    \* streams this phase has still to visit

vars == <<h, phase, todo>>

\* "reply" and "hangup" are the second half of do_events on the control
\* stream: its write, and the POLLHUP check that follows do_events.
Phases == {"sow", "reap", "prepare", "poll", "batch", "reply", "hangup"}

Init == h = EmptyHeap /\ phase = "sow" /\ todo = {}

Running == h.fault = "none"   \* undefined behaviour ends what we say

InTable(g) == {s \in Streams : g.table[s] = "in"}

\* The transfer the control connection waits for has both its ends.
Flowing(x) ==
  /\ h.table[DataStream(x)] = "in"
  /\ h.kind[x] = "list" \/ (h.in[x] # None /\ h.out[x] # None)

\* A client that is not hasty lets a transfer start before it interferes.
ClientMayInterfere ==
  Hasty \/ h.xfer \in {None} \cup {x \in Xfers : Flowing(x)}

---------------------------------------------------------------------------
(* sow_and_reap *)

Sow ==
  /\ Running /\ phase = "sow"
  /\ h' = [h EXCEPT !.table = [s \in Streams |->
                      IF h.table[s] = "added" THEN "in" ELSE h.table[s]]]
  /\ phase' = "reap"
  /\ UNCHANGED todo

Reap(s) ==
  /\ Running /\ phase = "reap" /\ s \in h.doomed
  /\ h' = DoRemove(h, s)
  /\ UNCHANGED <<phase, todo>>

StartPrepare ==
  /\ Running /\ phase = "reap" /\ h.doomed = {}
  /\ phase' = "prepare"
  /\ todo' = InTable(h)
  /\ UNCHANGED h

---------------------------------------------------------------------------
(* The pass that prepares the poll: check_timeout, want_read, want_write. *)

Preparing(s) ==
  /\ Running /\ phase = "prepare" /\ s \in todo
  /\ todo' = todo \ {s}
  /\ UNCHANGED phase

\* A stream without a consumer wants nothing; asking one that was deleted is
\* undefined.
PrepareOrphan(s) ==
  /\ Preparing(s) /\ h.consumer[s] \notin h.alive
  /\ h' = IF h.consumer[s] = None THEN h ELSE [h EXCEPT !.fault = "consumer"]

Error(g) == [Say(g) EXCEPT !.closing = TRUE]   \* FTPControl::make_error

\* The first check_timeout after an interval was set only starts the clock.
StartClock(g) == IF g.armed = "set" THEN [g EXCEPT !.armed = "on"] ELSE g

PrepareControl ==
  /\ Preparing(Ctl) /\ h.consumer[Ctl] = Control
  /\ h' = StartClock(h)

\* FTPControl::timedout, from check_timeout.
ControlTimesOut ==
  /\ Preparing(Ctl) /\ h.consumer[Ctl] = Control
  /\ h.armed = "on"
  /\ h' = IF h.resp THEN Remove(h, Control)
          ELSE Error(h)

\* Mutant of PrepareListener: finished listeners stay.
PrepareAnyListener(s) ==
  /\ Preparing(s) /\ h.consumer[s] \in Listeners \cap h.alive
  /\ \/ UNCHANGED h
     \/ XferTimeout /\ h' = Remove(h, h.consumer[s])

\* A finished listener destroys itself when asked whether it wants to read.
PrepareListener(s) ==
  /\ Preparing(s) /\ h.consumer[s] \in Listeners \cap h.alive
  /\ LET l == h.consumer[s] IN
     \/ l \in h.finished /\ h' = Remove(h, l)
     \/ l \notin h.finished /\ UNCHANGED h
     \/ l \notin h.finished /\ XferTimeout /\ h' = Remove(h, l)

\* Mutant of Adopt: whichever stream asks first is taken for the missing end.
AdoptFirst(g, x, s) ==
  LET read == IF g.in[x] = None THEN [g EXCEPT !.in[x] = s] ELSE g
  IN  IF read.out[x] = None THEN [read EXCEPT !.out[x] = s] ELSE read

\* want_read and want_write of IOContextXfer adopt s as the missing end.
Adopt(g, x, s) ==
  LET read == IF g.in[x] = None /\ g.out[x] # s
              THEN [g EXCEPT !.in[x] = s] ELSE g
  IN  IF read.out[x] = None /\ read.in[x] # s
      THEN [read EXCEPT !.out[x] = s] ELSE read

PrepareXfer(s) ==
  /\ Preparing(s) /\ h.consumer[s] \in Xfers \cap h.alive
  /\ LET x == h.consumer[s]
         checked == IF XferTimeout /\ h.clock[x] = "off"
                    THEN [h EXCEPT !.clock[x] = "set"] ELSE h
     IN  \/ h.kind[x] # "list" /\ h' = Adopt(checked, x, s)
         \/ h.kind[x] = "list"
            /\ (h' = checked \/ h' = Complete(checked, x))

\* IOContext::timedout throws Destroy, so want_read and want_write are not
\* called; the clock starts again.
XferTimesOut(s) ==
  /\ Preparing(s) /\ h.consumer[s] \in Xfers \cap h.alive
  /\ LET x == h.consumer[s] IN
     /\ h.clock[x] = "on"
     /\ h' = Remove([h EXCEPT !.clock[x] = "off"], x)

\* A timeout is longer than one pass: a clock started in this pass runs out
\* in a later one.
EndPrepare ==
  /\ Running /\ phase = "prepare" /\ todo = {}
  /\ h' = [h EXCEPT !.clock = [x \in Xfers |->
                      IF h.clock[x] = "set" THEN "on" ELSE h.clock[x]]]
  /\ phase' = IF h.doomed # {} \/ \E s \in Streams : h.table[s] = "added"
              THEN "sow" ELSE "poll"
  /\ UNCHANGED todo

---------------------------------------------------------------------------
(* poll(2): any set of descriptors that can have an event. *)

\* POLLHUP is always asked for, and only sockets raise it.
CanBeReady(s) ==
  LET c == h.consumer[s] IN
  \/ s = Ctl
  \/ \E x \in Xfers : s = DataStream(x)
  \/ c \in Listeners /\ h.data[c] # None
  \/ /\ c \in Xfers
     /\ \/ s = h.in[c] /\ h.buf[c] = "empty"
        \/ s = h.out[c] /\ h.buf[c] # "empty"

Poll ==
  /\ Running /\ phase = "poll"
  /\ \E ready \in SUBSET {s \in InTable(h) : CanBeReady(s)} : todo' = ready
  /\ phase' = "batch"
  /\ UNCHANGED h

EndBatch ==
  /\ Running /\ phase = "batch" /\ todo = {}
  /\ phase' = "sow"
  /\ UNCHANGED <<h, todo>>

Serving(s) ==
  /\ Running /\ phase = "batch" /\ s \in todo
  /\ todo' = todo \ {s}

---------------------------------------------------------------------------
(* Events of the control connection.  A command is read when no reply is   *)
(* waiting; the reply is written in the same do_events.                    *)

\* Nothing to read yet (do_read then looks at the timeout), or a reply is
\* still waiting to be written.
NoCommand ==
  /\ Serving(Ctl)
  /\ h.resp \/ ~h.closing
  /\ phase' = "reply"
  /\ \/ h' = IF h.resp THEN h ELSE StartClock(h)
     \/ ~h.resp /\ h.armed = "on" /\ h' = Error(h)

\* The closing reply has been written: IOContextResponder::read_in destroys.
CloseAfterOutput ==
  /\ Serving(Ctl) /\ ~h.resp /\ h.closing
  /\ h' = Remove(h, Control)
  /\ phase' = "batch"

\* End of file or an error on the control connection.
ControlLost ==
  /\ Serving(Ctl) /\ ~h.resp /\ ~h.closing
  /\ ClientMayInterfere
  /\ h' = [h EXCEPT !.doomed = @ \cup {Ctl}]
  /\ phase' = "batch"

Command(next) ==
  /\ Serving(Ctl) /\ ~h.resp /\ ~h.closing
  /\ phase' = next

LineTooLong ==
  /\ Command("reply") /\ ClientMayInterfere
  /\ h' = Error(h)

\* A command that leaves the data connections alone, or is refused.
OtherCommand == Command("reply") /\ h' = Say(h)

\* cmd_pass: lose_auth comes first, so a wrong password logs out.  A
\* successful login sets the timeout of the control connection.
Pass ==
  /\ Command("reply") /\ ClientMayInterfere
  /\ \E success \in BOOLEAN :
       h' = [Say(h) EXCEPT !.auth = success,
                         !.armed = IF success THEN "set" ELSE @]

Rein == Command("reply") /\ h' = [Say(h) EXCEPT !.auth = FALSE]

Quit ==
  /\ Command("reply")
  /\ h' = [Say(h) EXCEPT !.auth = FALSE, !.quitting = TRUE,
                         !.closing = @ \/ h.xfer = None]

\* cmd_pasv and cmd_epsv: passive_on starts from a fresh listener. The bounds
\* of its port are read when the old one is gone already; an entry that
\* cannot be read (ConfException) closes the session.
Pasv ==
  /\ Command("reply") /\ h.auth /\ ClientMayInterfere
  /\ LET off == PassiveOff(h) IN
     \/ h' \in {Say(off), off}  \* forbidden, or no port could be bound: EPSV
                                \* then says nothing at all
     \/ ~NoPassiveMode /\ h' = Error(off)
     \/ /\ ~NoPassiveMode /\ off.fault = "none"
        /\ \E l \in Listeners :
             /\ off.table[ListenStream(l)] = "none"
             /\ h' = [Say(off) EXCEPT
                       !.alive = @ \cup {l}, !.attached = @ \cup {l},
                       !.listener = l,
                       !.consumer[ListenStream(l)] = l,
                       !.table[ListenStream(l)] = "added"]

\* cmd_port and cmd_eprt: active_on.
Port ==
  /\ Command("reply") /\ h.auth /\ ClientMayInterfere
  /\ h' = Say(IF NoPortMode THEN h ELSE PassiveOff(h))

\* start_file_xfer and do_cmd_list up to start_xfer: the transfer x.
NewXfer(g, x, kind) ==
  LET file == IF kind = "list" THEN None ELSE FileStream(x) IN
  [g EXCEPT
    !.alive = @ \cup {x}, !.attached = @ \cup {x},
    !.kind[x] = kind,
    !.in[x] = IF kind = "retr" THEN file ELSE None,
    !.out[x] = IF kind = "stor" THEN file ELSE None,
    !.consumer = [s \in Streams |-> IF s = file THEN x ELSE g.consumer[s]]]

\* start_xfer after the data connection is parked or connected.
Begin(g, x) ==
  [Say(g) EXCEPT
    !.xfer = x, !.armed = "off", !.begun = @ \cup {x},
    !.table[FileStream(x)] =
                 IF g.kind[x] = "list" THEN @ ELSE "added"]

\* Mutant of Transfer: a pending transfer does not prevent another.
TransferAnyway(kind) ==
  /\ Command("reply") /\ h.auth
  /\ \E x \in Xfers :
       /\ h.kind[x] = "none"
       /\ LET new == NewXfer(h, x, kind) IN
          IF h.listener # None
          THEN h' = Begin([new EXCEPT !.data[h.listener] = x], x)
          ELSE h' = Begin([new EXCEPT !.consumer[DataStream(x)] = x,
                                      !.table[DataStream(x)] = "added"], x)

\* cmd_retr, cmd_stor, cmd_list, cmd_nlst, cmd_mlsd, with no transfer pending.
Transfer(kind) ==
  /\ Command("reply") /\ h.auth /\ h.xfer = None
  /\ \E x \in Xfers :
       /\ h.kind[x] = "none"
       /\ LET new == NewXfer(h, x, kind) IN
          IF h.listener # None
          THEN h' = Begin([new EXCEPT
                            !.data[h.listener] = x], x)
          ELSE \/ h' = Begin([new EXCEPT
                   !.consumer[DataStream(x)] = x,
                   !.table[DataStream(x)] = "added"], x)
               \/ h' = Error(new)     \* connect threw UnixException

\* cmd_abor: the transfer is completed and destroyed; the throw skips the
\* write of the reply.
Abor ==
  /\ Command("hangup") /\ h.auth /\ h.xfer # None /\ ClientMayInterfere
  /\ h' = Complete(Say(h), h.xfer)

\* IOContextResponder::write_out: the reply leaves, waits, or cannot be sent.
Reply ==
  /\ Running /\ phase = "reply"
  /\ \/ h' = [h EXCEPT !.resp = FALSE]
     \/ UNCHANGED h
     \/ /\ h.resp /\ ClientMayInterfere
        /\ h' = [h EXCEPT !.doomed = @ \cup {Ctl}]
  /\ phase' = "hangup"
  /\ UNCHANGED todo

\* POLLHUP reported with the event.
HangUp ==
  /\ Running /\ phase = "hangup"
  /\ \/ UNCHANGED h
     \/ ClientMayInterfere /\ h' = [h EXCEPT !.doomed = @ \cup {Ctl}]
  /\ phase' = "batch"
  /\ UNCHANGED todo

---------------------------------------------------------------------------
(* Events of a listener: FTPDataListener::read_in. *)

\* finished since the poll, or accept failed.
ListenerDestroyed(s) ==
  /\ Serving(s) /\ UNCHANGED phase
  /\ h.consumer[s] \in Listeners \cap h.alive
  /\ IF h.consumer[s] \in h.finished
     THEN h' = Remove(h, h.consumer[s])
     ELSE h' = [h EXCEPT !.doomed = @ \cup {s}]

\* The first connection takes the parked transfer; a second one in the same
\* queue finds none and destroys the listener.
Accept(s) ==
  /\ Serving(s) /\ UNCHANGED phase
  /\ h.consumer[s] \in Listeners \cap h.alive
  /\ LET l == h.consumer[s]
         x == h.data[l]
     IN  /\ x # None
         /\ LET taken == [h EXCEPT
                  !.data[l] = None,
                  !.finished = @ \cup {l},
                  !.consumer[DataStream(x)] = x,
                  !.table[DataStream(x)] = "added"]
            IN  h' = taken \/ h' = Remove(taken, l)

---------------------------------------------------------------------------
(* Events of a transfer's streams: IOContextXfer::do_io on either end.     *)

\* What one call of Sendfile::io can do from a state of its buffer: the
\* buffer it leaves and how the call ends.
IoOutcomes(buf) ==
  LET fill == {<<"empty", "more">>, <<"full", "more">>, <<"empty", "done">>,
               <<"full", "throw">>, <<"empty", "throw">>}
  IN  CASE buf = "none" -> fill \cup {<<"none", "more">>, <<"none", "done">>,
                                      <<"none", "throw">>}
        [] buf = "empty" -> fill
        [] buf = "full" -> fill \cup {<<"full", "more">>}

\* The source is gone: only the buffer is left to write.
FlushOutcomes == {<<"full", "more">>, <<"full", "throw">>, <<"empty", "done">>}

\* do_io has nothing to do until both ends are known.
XferIdle(s) ==
  /\ Serving(s) /\ UNCHANGED phase
  /\ h.consumer[s] \in Xfers \cap h.alive
  /\ LET x == h.consumer[s]
         g == Adopt(h, x, s)
     IN  /\ h.kind[x] # "list"
         /\ g.in[x] = None \/ g.out[x] = None
         /\ ~(g.in[x] = None /\ g.buf[x] = "full")
         /\ \/ h' = g
            \/ s = DataStream(x)              \* POLLHUP
               /\ h' = [g EXCEPT !.doomed = @ \cup {s}]

XferIo(s) ==
  /\ Serving(s) /\ UNCHANGED phase
  /\ h.consumer[s] \in Xfers \cap h.alive
  /\ LET x == h.consumer[s]
         g == Adopt(h, x, s)
         both == g.in[x] # None /\ g.out[x] # None
         outcomes == IF both THEN IoOutcomes(g.buf[x]) ELSE FlushOutcomes
     IN  /\ h.kind[x] # "list"
         /\ both \/ (g.in[x] = None /\ g.out[x] = s /\ g.buf[x] = "full")
         /\ \E o \in outcomes :
              LET moved == [g EXCEPT !.buf[x] = o[1]] IN
              \/ /\ o[2] = "more"
                 /\ \/ h' = moved
                    \/ s = DataStream(x)     \* POLLHUP
                       /\ h' = [moved EXCEPT !.doomed = @ \cup {s}]
              \/ o[2] = "done" /\ h' = Complete(moved, x)
              \/ o[2] = "throw" /\ h' = [moved EXCEPT !.doomed = @ \cup {s}]

\* A directory listing writes an entry, ends, times out or loses its stream.
ListIo(s) ==
  /\ Serving(s) /\ UNCHANGED phase
  /\ h.consumer[s] \in Xfers \cap h.alive
  /\ LET x == h.consumer[s] IN
     /\ h.kind[x] = "list"
     /\ \/ UNCHANGED h
        \/ h' = Complete(h, x)
        \/ h.clock[x] = "on" /\ h' = Remove(h, x)
        \/ h' = [h EXCEPT !.doomed = @ \cup {s}]

\* do_events on a stream without a consumer removes it; calling one that was
\* deleted is undefined.
ServeOrphan(s) ==
  /\ Serving(s) /\ UNCHANGED phase
  /\ h.consumer[s] \notin h.alive
  /\ h' = IF h.consumer[s] = None THEN [h EXCEPT !.doomed = @ \cup {s}]
          ELSE [h EXCEPT !.fault = "consumer"]

---------------------------------------------------------------------------
LoopStep == Sow \/ StartPrepare \/ EndPrepare \/ Poll \/ EndBatch
            \/ \E s \in Streams : Reap(s)

Prepare == \/ \E s \in Streams : \/ PrepareOrphan(s) \/ PrepareListener(s)
                                 \/ PrepareXfer(s) \/ XferTimesOut(s)
           \/ PrepareControl \/ ControlTimesOut

ControlEvent == \/ NoCommand \/ CloseAfterOutput \/ ControlLost
                \/ LineTooLong \/ OtherCommand \/ Pass \/ Rein \/ Quit
                \/ Pasv \/ Port \/ Abor \/ Reply \/ HangUp
                \/ \E kind \in Kinds \ {"none"} : Transfer(kind)

DataEvent == \E s \in Streams :
               \/ ListenerDestroyed(s) \/ Accept(s)
               \/ XferIdle(s) \/ XferIo(s) \/ ListIo(s)
               \/ ServeOrphan(s)

Next == LoopStep \/ Prepare \/ ControlEvent \/ DataEvent

Spec == Init /\ [][Next]_vars

\* Every step but the return of poll is the program's own; poll may block for
\* ever, so nothing is assumed of it.
FairSpec == Spec /\ WF_vars(phase # "poll" /\ Next)

---------------------------------------------------------------------------
(* Properties *)

TypeOK ==
  /\ h \in Heap
  /\ phase \in Phases
  /\ todo \in SUBSET Streams

\* Data flows the way the command said: RETR reads its file and STOR writes
\* it, though IOContextXfer takes for its missing end a stream that asks it
\* (iocontextxfer.hh:104), the two may ask in any order, also before the
\* client has connected, and an end is forgotten again when its stream goes.
FlowsOneWay ==
  \A x \in Xfers \cap h.alive :
    CASE h.kind[x] = "retr" -> /\ h.in[x] \in {None, FileStream(x)}
                               /\ h.out[x] \in {None, DataStream(x)}
      [] h.kind[x] = "stor" -> /\ h.in[x] \in {None, DataStream(x)}
                               /\ h.out[x] \in {None, FileStream(x)}
      [] OTHER -> h.in[x] = None /\ h.out[x] = None

\* The control connection never holds a pointer to a deleted listener or to
\* a deleted transfer, nor to one that would not tell it of its death:
\* _data_listener and _data_xfer of FTPControl are used without a check.
SafePointers ==
  Running /\ Control \in h.alive =>
    /\ h.listener # None => h.listener \in h.alive \cap h.attached
    /\ h.xfer # None => h.xfer \in h.alive \cap h.attached

\* Each transfer announced with 150 is answered by one 226 or 426, and only
\* once it is no longer the session's transfer: xfer_done may be called from
\* completed(), from a destructor, or from the abort of the transfer.
OneAnswer ==
  Running /\ Control \in h.alive =>
    \A x \in Xfers :
      h.answers[x] = IF x \in h.begun /\ x # h.xfer THEN 1 ELSE 0

\* A transfer the session has forgotten cannot speak for a later one: only
\* the session's own transfer still has the session as its controller.
OneTransfer ==
  Running /\ Control \in h.alive =>
    \A x \in h.begun : x \in h.alive \cap h.attached => x = h.xfer

\* A transfer is parked only in a listener that can still hand it over: a
\* finished listener would delete it as soon as it is polled.
ParkedInOpenListener ==
  Running => \A l \in Listeners : h.data[l] # None => l \notin h.finished

\* Nothing leaks: every listener, and every transfer that was announced, can
\* still be reached by the loop through a stream, or is parked in a listener
\* that can.
NothingLeaks ==
  Running =>
    \A c \in (Listeners \cup h.begun) \cap h.alive :
      \/ \E s \in Tabled(h) : h.consumer[s] = c
      \/ \E l \in Listeners \cap h.alive :
           h.data[l] = c /\ \E s \in Tabled(h) : h.consumer[s] = l

\* The program meets no undefined behaviour.
NoFault == Running

\* ChangeLog, passive_off: "call _data_listener->detach to avoid segfault".
NoNullListener == h.fault # "null"

\* What is finished is deleted without waiting for another event: a listener
\* that has handed its transfer over, or was dismissed by a change of mode,
\* and a transfer that has been answered, whose streams the next pass reaps
\* because completed() throws Destroy.
NothingLingers ==
  /\ \A l \in Listeners :
       (Running /\ l \in h.alive /\ l \in h.finished)
         ~> (~Running \/ l \notin h.alive)
  /\ \A x \in Xfers :
       (Running /\ h.answers[x] > 0) ~> (~Running \/ x \notin h.alive)
============================================================================
