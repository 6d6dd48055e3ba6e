----------------------------- MODULE EventLoop -----------------------------
(***************************************************************************)
(* StreamTable::poll: the one loop that serves every connection, applies   *)
(* the idle timeouts and lets the signals in, and the handler of SIGTERM   *)
(* and SIGINT that asks it to stop.                                        *)
(*                                                                         *)
(* A connection is what the loop needs of it: its descriptor, the limit of *)
(* its timeout and what the kernel holds for it.  The listening stream is  *)
(* in the table throughout.                                                *)
(***************************************************************************)
EXTENDS Naturals

CONSTANTS
  Conns,     \* connections that clients open, again when they are gone
  Polite,    \* those whose session says goodbye first: FTP's does, HTTP's not
  Listener,  \* the listening stream
  Idle       \* _max_idle of every connection, in ticks of time(2)

ASSUME LoopConstants ==
  /\ Listener \notin Conns
  /\ Polite \subseteq Conns
  /\ Idle \in Nat \ {0}

Unset == Idle + 2   \* _timeout_time = 0: the clock has not started

VARIABLES
  stage,    \* "queued" in the backlog, "added", "in" the table or "gone"
  doomed,   \* _deleted_streams
  left,     \* ticks until now > _timeout_time
  input,    \* what the kernel has for the server: "none", "data" or "eof"
  bye,      \* the 421 of FTPControl::timedout: "none" so far, "owed", "stuck"
            \* while the socket is full, or "sent"
  quiet,    \* ticks since the client last sent something, up to Idle + 1
  late,     \* connections that have been quiet for too long since last read
  overrun,  \* connections with unread data while time passed
  expired,  \* connections closed by their timeout
  phase,    \* where StreamTable::poll stands
  todo,     \* streams this phase has still to visit
  signal,   \* a SIGTERM is blocked, pending
  told,     \* a SIGTERM has been sent
  stop      \* _async_notify

clocks == <<left, quiet, late, overrun>>
signals == <<signal, told, stop>>
kernel == <<input, bye>>
loop == <<stage, doomed, clocks, kernel, expired, phase, todo, signals>>

Phases == {"sow", "prepare", "permit", "poll", "batch", "stopped"}

LoopInit ==
  /\ stage = [c \in Conns |-> "gone"]
  /\ doomed = {} /\ expired = {} /\ todo = {}
  /\ late = {} /\ overrun = {}
  /\ left = [c \in Conns |-> Unset]
  /\ input = [c \in Conns |-> "none"] /\ bye = input
  /\ quiet = [c \in Conns |-> 0]
  /\ phase = "sow"
  /\ signal = FALSE /\ told = FALSE /\ stop = FALSE

InTable == {c \in Conns : stage[c] = "in"}
Running == phase # "stopped"

---------------------------------------------------------------------------
(* The clients, the clock and the sender of the signal. *)

Open(c) ==
  /\ Running /\ stage[c] = "gone"
  /\ stage' = [stage EXCEPT ![c] = "queued"]
  /\ left' = [left EXCEPT ![c] = Unset]
  /\ input' = [input EXCEPT ![c] = "none"]
  /\ bye' = [bye EXCEPT ![c] = "none"]
  /\ quiet' = [quiet EXCEPT ![c] = 0]
  /\ late' = late \ {c} /\ overrun' = overrun \ {c}
  /\ expired' = expired \ {c}
  /\ UNCHANGED <<doomed, phase, todo, signals>>

Connected(c) == Running /\ stage[c] \in {"queued", "added", "in"}

Send(c) ==
  /\ Connected(c) /\ input[c] = "none"
  /\ input' = [input EXCEPT ![c] = "data"]
  /\ quiet' = [quiet EXCEPT ![c] = 0]
  /\ UNCHANGED <<stage, doomed, left, late, overrun, bye, expired, phase,
                 todo, signals>>

Close(c) ==
  /\ Connected(c) /\ input[c] = "none"
  /\ input' = [input EXCEPT ![c] = "eof"]
  /\ UNCHANGED <<stage, doomed, clocks, bye, expired, phase, todo, signals>>

\* The client reads what filled its socket.
Drain(c) ==
  /\ Connected(c) /\ bye[c] = "stuck"
  /\ bye' = [bye EXCEPT ![c] = "owed"]
  /\ UNCHANGED <<stage, doomed, clocks, input, expired, phase, todo, signals>>

\* A session with a reply to send does not want to read; one that is closing
\* always wants to write.
Pollable(c) == CASE bye[c] = "none" -> input[c] # "none"
                 [] bye[c] = "stuck" -> FALSE
                 [] OTHER -> TRUE

\* What poll(2) reports at once.
Ready ==
  {c \in InTable : Pollable(c)}
    \cup {s \in {Listener} : \E c \in Conns : stage[c] = "queued"}

\* Time passes, in poll or while the streams are being served.
Tick ==
  /\ Running
  /\ left' = [c \in Conns |-> IF left[c] \in 1..(Idle + 1)
                              THEN left[c] - 1 ELSE left[c]]
  /\ quiet' = [c \in Conns |-> IF quiet[c] <= Idle
                               THEN quiet[c] + 1 ELSE quiet[c]]
  /\ late' = late \cup {c \in Conns : quiet'[c] > Idle}
  /\ overrun' = overrun \cup {c \in Conns : input[c] = "data"}
  /\ UNCHANGED <<stage, doomed, kernel, expired, phase, todo, signals>>

Kill ==
  /\ ~told /\ Running
  /\ told' = TRUE /\ signal' = TRUE
  /\ UNCHANGED <<stage, doomed, clocks, kernel, expired, phase, todo, stop>>

---------------------------------------------------------------------------
(* The loop *)

\* sow_and_reap: what was added comes in, what was doomed is deleted.
SowAndReap ==
  /\ phase = "sow"
  /\ stage' = [c \in Conns |-> IF c \in doomed THEN "gone"
                               ELSE IF stage[c] = "added" THEN "in"
                               ELSE stage[c]]
  /\ doomed' = {}
  /\ todo' = {c \in Conns : stage'[c] = "in"}
  /\ phase' = "prepare"
  /\ UNCHANGED <<clocks, kernel, expired, signals>>

\* Mutant of StartClock: the clock starts beyond its limit.
StartClockPast(c) == left' = [left EXCEPT ![c] = Unset + 1]

StartClock(c) == left' = [left EXCEPT ![c] = Idle + 1]

\* FTPControl::timedout: a session with nothing to say says 421 and closes
\* after it; with a reply that waits it is destroyed, as any other consumer.
TimedOut(c) ==
  /\ StartClock(c)
  /\ expired' = expired \cup {c}
  /\ \/ /\ c \in Polite /\ bye[c] \in {"none", "sent"}
        /\ \E answer \in {"owed", "stuck"} :
             bye' = [bye EXCEPT ![c] = answer]
        /\ UNCHANGED doomed
     \/ /\ ~(c \in Polite /\ bye[c] \in {"none", "sent"})
        /\ doomed' = doomed \cup {c}
        /\ UNCHANGED bye

\* Mutant of Prepare: timedout is called before the time is looked at.
PrepareEager(c) ==
  /\ phase = "prepare" /\ c \in todo
  /\ todo' = todo \ {c}
  /\ \/ left[c] = Unset /\ StartClock(c) /\ UNCHANGED <<doomed, expired, bye>>
     \/ left[c] # Unset /\ TimedOut(c)
  /\ UNCHANGED <<stage, quiet, late, overrun, input, phase, signals>>

\* check_timeout before poll: the limit is set, watched or has passed.
Prepare(c) ==
  /\ phase = "prepare" /\ c \in todo
  /\ todo' = todo \ {c}
  /\ \/ left[c] = Unset /\ StartClock(c) /\ UNCHANGED <<doomed, expired, bye>>
     \/ left[c] \in 1..(Idle + 1) /\ UNCHANGED <<left, doomed, expired, bye>>
     \/ left[c] = 0 /\ TimedOut(c)
  /\ UNCHANGED <<stage, quiet, late, overrun, input, phase, signals>>

\* Mutant of EndPrepare: _async_notify is not looked at.
EndPrepareDeaf ==
  /\ phase = "prepare" /\ todo = {}
  /\ phase' = IF doomed # {} \/ \E c \in Conns : stage[c] = "added" THEN "sow"
              ELSE "permit"
  /\ UNCHANGED <<stage, doomed, clocks, kernel, expired, todo, signals>>

\* tables_modified comes before the look at _async_notify.
EndPrepare ==
  /\ phase = "prepare" /\ todo = {}
  /\ phase' = IF doomed # {} \/ \E c \in Conns : stage[c] = "added" THEN "sow"
              ELSE IF stop THEN "stopped" ELSE "permit"
  /\ UNCHANGED <<stage, doomed, clocks, kernel, expired, todo, signals>>

\* PermitSignals has unblocked the signals and poll(2) is not yet entered.
EnterPoll ==
  /\ phase = "permit" /\ ~signal
  /\ phase' = "poll"
  /\ UNCHANGED <<stage, doomed, clocks, kernel, expired, todo, signals>>

\* stop_table runs while the signals are unblocked.  It interrupts poll(2),
\* which then reports nothing; it cannot interrupt what has not begun.
Handle ==
  /\ phase \in {"permit", "poll"} /\ signal
  /\ signal' = FALSE /\ stop' = TRUE
  /\ phase' = IF phase = "poll" THEN "batch" ELSE phase
  /\ UNCHANGED <<stage, doomed, clocks, kernel, expired, todo, told>>

PollReturns ==
  /\ phase = "poll" /\ ~signal /\ Ready # {}
  /\ todo' = Ready
  /\ phase' = "batch"
  /\ UNCHANGED <<stage, doomed, clocks, kernel, expired, signals>>

\* do_events on a connection: data is progress, an end of file removes it.
Serve(c) ==
  /\ phase = "batch" /\ c \in todo \cap Conns /\ bye[c] = "none"
  /\ todo' = todo \ {c}
  /\ \/ /\ input[c] = "data"
        /\ input' = [input EXCEPT ![c] = "none"]
        /\ StartClock(c)
        /\ late' = late \ {c} /\ overrun' = overrun \ {c}
        /\ UNCHANGED doomed
     \/ /\ input[c] = "eof"
        /\ doomed' = doomed \cup {c}
        /\ UNCHANGED <<input, left, late, overrun>>
  /\ UNCHANGED <<stage, quiet, bye, expired, phase, signals>>

\* A session that closes writes its 421, which is short, in one piece, or
\* finds that the client is gone; asked once more it destroys itself.
ServeClosing(c) ==
  /\ phase = "batch" /\ c \in todo \cap Conns /\ bye[c] # "none"
  /\ todo' = todo \ {c}
  /\ \/ /\ bye[c] = "owed"
        /\ bye' = [bye EXCEPT ![c] = "sent"]
        /\ StartClock(c)
        /\ UNCHANGED doomed
     \/ /\ bye[c] = "sent" \/ input[c] = "eof"
        /\ doomed' = doomed \cup {c}
        /\ UNCHANGED <<bye, left>>
  /\ UNCHANGED <<stage, quiet, late, overrun, input, expired, phase, signals>>

\* do_events on the listener: IOContextListener::read_in empties the backlog.
Accept ==
  /\ phase = "batch" /\ Listener \in todo
  /\ todo' = todo \ {Listener}
  /\ stage' = [c \in Conns |->
                 IF stage[c] = "queued" THEN "added" ELSE stage[c]]
  /\ UNCHANGED <<doomed, clocks, kernel, expired, phase, signals>>

EndBatch ==
  /\ phase = "batch" /\ todo = {}
  /\ phase' = "sow"
  /\ UNCHANGED <<stage, doomed, clocks, kernel, expired, todo, signals>>

LoopStep == \/ SowAndReap \/ EndPrepare \/ EnterPoll \/ Handle
            \/ PollReturns \/ Accept \/ EndBatch
            \/ \E c \in Conns : Prepare(c) \/ Serve(c) \/ ServeClosing(c)

LoopNext == \/ LoopStep \/ Tick \/ Kill
        \/ \E c \in Conns : Open(c) \/ Send(c) \/ Close(c) \/ Drain(c)

LoopSpec == LoopInit /\ [][LoopNext]_loop

\* The program runs when it can, and time passes.  Nothing is assumed of the
\* clients: a poll(2) with nothing to report sleeps for ever, as its timeout
\* is -1.
FairSpec == LoopSpec /\ WF_loop(LoopStep) /\ WF_loop(Tick)

---------------------------------------------------------------------------
(* Properties *)

LoopTypeOK ==
  /\ stage \in [Conns -> {"gone", "queued", "added", "in"}]
  /\ {doomed, expired, late, overrun} \subseteq SUBSET Conns
  /\ left \in [Conns -> 0..Unset]
  /\ quiet \in [Conns -> 0..(Idle + 1)]
  /\ input \in [Conns -> {"none", "data", "eof"}]
  /\ bye \in [Conns -> {"none", "owed", "stuck", "sent"}]
  /\ phase \in Phases /\ todo \subseteq Conns \cup {Listener}
  /\ {signal, told, stop} \subseteq BOOLEAN

\* A client is closed for idleness only after a silence longer than the
\* timeout, counted from what it sent and not from when it was served; or
\* when a pass took so long that it expired with its data unread: the clocks
\* are looked at before poll(2), not after.
OnlyTheIdleExpire == [][expired' \ expired \subseteq late \cup overrun]_loop

\* The loop ends up in a poll(2) that never returns.
SleepsForEver == <>[](phase = "poll")

\* Time runs out again and again between the 421 of a session and the next
\* pass, which should have closed it and now says 421 anew.
PassesTooSlow ==
  \E c \in Conns : []<>(bye[c] = "sent" /\ left[c] = 0)

\* README, timeout_prelogin: "number of seconds of inactivity before closing
\* the connection".
IdleConnectionsClose ==
  \A c \in Conns :
    (stage[c] = "in" /\ input[c] = "none")
      ~> (stage[c] = "gone" \/ phase = "stopped" \/ input[c] # "none")

\* README, Signals: "SIGTERM, SIGINT - cleanly shut teepeedee down".
SignalStops == told ~> (phase = "stopped")

\* Any event of any stream makes the loop look at the clocks of all
\* connections and at _async_notify, though the tables had been modified when
\* the signal came: both promises of the README are kept unless the loop ends
\* up in a poll(2) that never returns; the first also unless it is slower
\* than the timeouts.
KeptWhenAwake ==
  SleepsForEver \/ ((PassesTooSlow \/ IdleConnectionsClose) /\ SignalStops)
=============================================================================
