----------------------- MODULE FtpDataPatient_proofs -----------------------
(***************************************************************************)
(* Proofs about FtpDataConn, for any sets of listeners and transfers, of a *)
(* client that does not interfere with a transfer before it flows, and of  *)
(* transfers without timeouts: then who consumes a stream is alive, and    *)
(* who is alive is reached.                                                *)
(*                                                                         *)
(* Every transfer is at one of a few places (Sited), each with what it     *)
(* needs to get to the next; the session and its listeners live as long as *)
(* their streams; and a session does not end while a transfer waits.       *)
(***************************************************************************)
EXTENDS FtpDataConn_proofs

\* Some listener keeps x for the client to connect.
Waits(g, x) == \E l \in Listeners : g.data[l] = x

\* The ends of a transfer, told by what they lead to.
FileEnd(g, x) == IF g.kind[x] = "stor" THEN g.out[x] ELSE g.in[x]
DataEnd(g, x) == IF g.kind[x] = "stor" THEN g.in[x] ELSE g.out[x]

\* Not begun: free to be used, or left behind by a connect that failed.
Untried(g, x) ==
  /\ x \notin g.begun /\ ~Waits(g, x)
  /\ g.table[FileStream(x)] = "none" /\ g.table[DataStream(x)] = "none"
  /\ g.kind[x] = "none" => x \notin g.alive \cup g.attached

Over(g, x) ==
  /\ x \in g.begun /\ x \notin g.alive
  /\ g.consumer[FileStream(x)] # x /\ g.consumer[DataStream(x)] # x

\* A listing waits for its data connection, or has it.
Listing(g, x) ==
  /\ g.kind[x] = "list" /\ g.in[x] = None /\ g.out[x] = None
  /\ Waits(g, x) \/ g.consumer[DataStream(x)] = x

\* A file is open, the data connection awaited or not yet met.
Single(g, x) ==
  /\ FileEnd(g, x) = FileStream(x) /\ DataEnd(g, x) = None
  /\ g.consumer[FileStream(x)] = x /\ FileStream(x) \notin g.doomed
  /\ g.buf[x] # "full"
  /\ Waits(g, x) \/ g.consumer[DataStream(x)] = x

Joined(g, x) ==
  /\ FileEnd(g, x) = FileStream(x) /\ DataEnd(g, x) = DataStream(x)
  /\ g.consumer[FileStream(x)] = x /\ g.consumer[DataStream(x)] = x

\* The source is gone; what is in the buffer is still to be written.
Draining(g, x) ==
  \/ /\ g.kind[x] = "retr"
     /\ FileEnd(g, x) = None /\ DataEnd(g, x) = DataStream(x)
     /\ g.consumer[FileStream(x)] # x /\ g.consumer[DataStream(x)] = x
  \/ /\ g.kind[x] = "stor"
     /\ FileEnd(g, x) = FileStream(x) /\ DataEnd(g, x) = None
     /\ g.consumer[FileStream(x)] = x /\ g.consumer[DataStream(x)] # x
     /\ g.table[DataStream(x)] = "gone"

Copying(g, x) ==
  /\ g.kind[x] \in {"retr", "stor"} /\ g.table[FileStream(x)] # "none"
  /\ Single(g, x) \/ Joined(g, x) \/ Draining(g, x)

Sited(g, x) ==
  \/ Untried(g, x) \/ Over(g, x)
  \/ x \in g.begun \cap g.alive /\ (Listing(g, x) \/ Copying(g, x))

\* The control connection and a listener are alive as long as their stream.
Living(g) ==
  /\ \A s \in Streams : g.table[s] = "gone" => g.consumer[s] = None
  /\ Control \in g.alive <=> g.consumer[Ctl] = Control
  /\ \A l \in Listeners :
       /\ l \in g.alive <=> g.consumer[ListenStream(l)] = l
       /\ \A s \in Streams : g.consumer[s] = l => s = ListenStream(l)

\* Who would still notify the session.
Known(g) ==
  /\ g.attached \cap Listeners \subseteq {g.listener}
  /\ Control \notin g.alive => g.attached \cap g.begun = {}

\* The session does not end while a transfer waits.
Unhurried(g) ==
  (\E l \in Listeners : g.data[l] # None) =>
    ~g.closing /\ g.armed = "off" /\ Ctl \notin g.doomed

Cared(g) ==
  /\ g.fault = "none" /\ Living(g) /\ Known(g) /\ Unhurried(g)
  /\ \A x \in Xfers : g.clock[x] = "off" /\ Sited(g, x)

\* The fields that decide, but for those that may end the session.
SameCare(f, g) ==
  /\ f.fault = g.fault /\ f.alive = g.alive /\ f.attached \subseteq g.attached
  /\ f.begun = g.begun /\ f.consumer = g.consumer /\ f.table = g.table
  /\ f.kind = g.kind /\ f.in = g.in /\ f.out = g.out /\ f.buf = g.buf
  /\ f.data = g.data /\ f.clock = g.clock
  /\ f.listener = g.listener \/ f.attached \cap Listeners = {}

\* A transfer stays where it is when nothing about it changes.
LEMMA FrameSited ==
  ASSUME NEW g, NEW f, NEW x \in Xfers, Sited(g, x),
         x \in f.begun <=> x \in g.begun,
         x \in f.alive <=> x \in g.alive,
         x \in f.attached => x \in g.attached,
         f.kind[x] = g.kind[x], f.in[x] = g.in[x], f.out[x] = g.out[x],
         f.buf[x] = g.buf[x],
         f.consumer[FileStream(x)] = x <=> g.consumer[FileStream(x)] = x,
         f.consumer[DataStream(x)] = x <=> g.consumer[DataStream(x)] = x,
         f.table[FileStream(x)] = "none" <=> g.table[FileStream(x)] = "none",
         f.table[DataStream(x)] = "none" <=> g.table[DataStream(x)] = "none",
         g.table[DataStream(x)] = "gone" => f.table[DataStream(x)] = "gone",
         \A l \in Listeners : f.data[l] = x <=> g.data[l] = x,
         Single(g, x) => FileStream(x) \notin f.doomed
  PROVE  Sited(f, x)
<1>1. Waits(f, x) <=> Waits(g, x) BY DEF Waits
<1>2. FileEnd(f, x) = FileEnd(g, x) /\ DataEnd(f, x) = DataEnd(g, x)
  BY DEF FileEnd, DataEnd
<1>3. CASE Untried(g, x) BY <1>1, <1>3 DEF Untried, Sited
<1>4. CASE Over(g, x) BY <1>4 DEF Over, Sited
<1>5. CASE x \in g.begun \cap g.alive /\ Listing(g, x)
  BY <1>1, <1>5 DEF Listing, Sited
<1>6. CASE x \in g.begun \cap g.alive /\ Copying(g, x)
  <2>1. Single(g, x) => Single(f, x) BY <1>1, <1>2 DEF Single
  <2>2. Joined(g, x) => Joined(f, x) BY <1>2 DEF Joined
  <2>3. Draining(g, x) => Draining(f, x) BY <1>2 DEF Draining
  <2> QED BY <1>6, <2>1, <2>2, <2>3 DEF Copying, Sited
<1> QED BY <1>3, <1>4, <1>5, <1>6 DEF Sited

LEMMA FrameCared ==
  ASSUME NEW g, Cared(g), NEW f, SameCare(f, g),
         \A x \in Xfers : Single(g, x) => FileStream(x) \notin f.doomed,
         \A l \in Listeners : g.data[l] # None =>
           ~f.closing /\ f.armed = "off" /\ Ctl \notin f.doomed
  PROVE  Cared(f)
<1>1. \A x \in Xfers : Sited(f, x)
  BY FrameSited DEF Cared, SameCare
<1>2. Living(f) BY DEF Cared, SameCare, Living
<1>3. Known(f) BY DEF Cared, SameCare, Known
<1>4. Unhurried(f) BY DEF SameCare, Unhurried
<1> QED BY <1>1, <1>2, <1>3, <1>4 DEF Cared, SameCare

\* What a session with a patient client does not meet.
LEMMA ConsumersAlive ==
  ASSUME NEW g, Good(g), Docked(g, {}), Cared(g), NEW s \in Streams,
         g.table[s] # "none", g.consumer[s] # None
  PROVE  g.consumer[s] \in g.alive
<1>1. g.consumer[s] \in {Control} \cup Listeners \cup Xfers
  BY DockTypes DEF Good, Contexts, Controlled
<1>2. Held(g) BY DEF Cared, Docked
<1>3. CASE g.consumer[s] = Control
  BY <1>2, <1>3 DEF Held, Cared, Living
<1>4. CASE g.consumer[s] \in Listeners
  BY <1>4 DEF Cared, Living
<1>5. CASE g.consumer[s] \in Xfers
  <2> DEFINE x == g.consumer[s]
  <2>1. s = FileStream(x) \/ s = DataStream(x) BY <1>2, <1>5 DEF Held
  <2>2. Sited(g, x) BY <1>5 DEF Cared
  <2>3. ~Untried(g, x) BY <2>1 DEF Untried
  <2>4. ~Over(g, x) BY <2>1 DEF Over
  <2> QED BY <2>2, <2>3, <2>4 DEF Sited
<1> QED BY <1>1, <1>3, <1>4, <1>5

\* What else the death or the end of c changes, while the session lives.
LEMMA NotifyRest ==
  ASSUME NEW g \in Heap, g.fault = "none", NEW c \in Controlled,
         c \in g.attached => Control \in g.alive
  PROVE  LET n == Notify(g, c) IN
         /\ n.fault = "none" /\ n.begun = g.begun /\ n.clock = g.clock
         /\ n.attached = g.attached \ {c}
         /\ \/ n.closing = g.closing /\ n.armed = g.armed
            \/ c = g.xfer /\ n.xfer = None
<1> DEFINE n == Notify(g, c)
           d == [g EXCEPT !.attached = @ \ {c}]
<1>1. /\ d \in Heap /\ d.fault = "none" /\ d.begun = g.begun
      /\ d.clock = g.clock /\ d.attached = g.attached \ {c}
      /\ d.closing = g.closing /\ d.armed = g.armed /\ d.xfer = g.xfer
  BY DEF Heap
<1>2. CASE c \notin g.attached
  <2>1. n = g /\ g.attached \ {c} = g.attached BY <1>2 DEF Notify
  <2> HIDE DEF n
  <2> QED BY <2>1 DEF n
<1>3. CASE c \in g.attached
  <2>1. n = XferDone(d, c) BY <1>3 DEF Notify
  <2> HIDE DEF d, n
  <2>2. CASE c = d.xfer
    <3> DEFINE f == ForgetParked(d)
    <3>1. n = Answer(f, c) BY <2>1, <2>2 DEF XferDone
    <3>2. /\ f \in Heap /\ f.fault = d.fault /\ f.begun = d.begun
          /\ f.attached = d.attached
      BY <1>1, ForgetParkedFacts
    <3>3. f.clock = d.clock BY <1>1 DEF ForgetParked, Heap
    <3> HIDE DEF f
    <3>4. /\ Answer(f, c).fault = f.fault /\ Answer(f, c).begun = f.begun
          /\ Answer(f, c).clock = f.clock /\ Answer(f, c).xfer = None
          /\ Answer(f, c).attached = f.attached
      BY <3>2 DEF Answer, Say, Heap
    <3> QED BY <1>1, <2>2, <3>1, <3>2, <3>3, <3>4 DEF n
  <2>3. CASE c # d.xfer /\ c = d.listener
    <3> DEFINE e == [d EXCEPT !.listener = None]
    <3>1. n = e BY <2>1, <2>3 DEF XferDone
    <3>2. /\ e.fault = d.fault /\ e.begun = d.begun /\ e.clock = d.clock
          /\ e.attached = d.attached /\ e.closing = d.closing
          /\ e.armed = d.armed
      BY <1>1 DEF Heap
    <3> HIDE DEF e
    <3> QED BY <1>1, <3>1, <3>2 DEF n
  <2>4. CASE c # d.xfer /\ c # d.listener
    <3>1. n = d BY <2>1, <2>4 DEF XferDone
    <3> QED BY <1>1, <3>1 DEF n
  <2> QED BY <2>2, <2>3, <2>4
<1> QED BY <1>2, <1>3

\* The streams of a transfer after it has let go of both its ends.
Freed(g, x) ==
  [s \in Streams |-> IF s \in {g.in[x], g.out[x]} /\ g.consumer[s] = x
                     THEN None ELSE g.consumer[s]]

LEMMA DeleteXferFields ==
  ASSUME NEW g \in Heap, g.fault = "none", NEW x \in Xfers,
         x \in g.attached => Control \in g.alive
  PROVE  LET f == DeleteXfer(g, x) IN
         /\ f \in Heap /\ f.fault = "none" /\ f.alive = g.alive \ {x}
         /\ f.attached = g.attached \ {x} /\ f.begun = g.begun
         /\ f.consumer = Freed(g, x) /\ f.table = g.table
         /\ f.doomed = g.doomed /\ f.kind = g.kind /\ f.in = g.in
         /\ f.out = g.out /\ f.buf = g.buf /\ f.clock = g.clock
         /\ \/ /\ f.data = g.data /\ f.listener = g.listener
               /\ \/ f.closing = g.closing /\ f.armed = g.armed
                  \/ x = g.xfer /\ ~Parked(g)
            \/ /\ x = g.xfer /\ Parked(g) /\ f.listener = None
               /\ f.data = [g.data EXCEPT ![g.listener] = None]
<1> DEFINE freed == ReleaseStreams(g, x, Streams)
           told == Notify(freed, x)
           f == Bury(told, x)
<1>1. freed \in Heap BY ReleaseType
<1>2. freed = [g EXCEPT !.consumer = Freed(g, x)]
  BY DEF ReleaseStreams, Freed
<1> HIDE DEF freed
<1>3. /\ freed.fault = "none" /\ freed.alive = g.alive
      /\ freed.attached = g.attached /\ freed.begun = g.begun
      /\ freed.consumer = Freed(g, x) /\ freed.table = g.table
      /\ freed.doomed = g.doomed /\ freed.kind = g.kind
      /\ freed.in = g.in /\ freed.out = g.out /\ freed.buf = g.buf
      /\ freed.clock = g.clock /\ freed.data = g.data
      /\ freed.listener = g.listener /\ freed.xfer = g.xfer
      /\ freed.closing = g.closing /\ freed.armed = g.armed
  BY <1>2 DEF Heap
<1>4. Parked(freed) <=> Parked(g) BY <1>3 DEF Parked
<1>5. x \in Controlled /\ x \notin Listeners /\ x # None
  BY ObjectsDistinct DEF Controlled
<1>6. g.listener \in Listeners \cup {None} BY DockTypes
<1>7. told \in Heap BY <1>1, <1>5, NotifyType
<1>8. /\ told.fault = "none" /\ told.begun = g.begun /\ told.clock = g.clock
      /\ told.attached = g.attached \ {x}
      /\ \/ told.closing = g.closing /\ told.armed = g.armed
         \/ x = g.xfer /\ told.xfer = None
  BY <1>1, <1>3, <1>5, NotifyRest
<1>9. /\ told.kind = g.kind /\ told.in = g.in /\ told.out = g.out
      /\ told.buf = g.buf /\ told.consumer = Freed(g, x)
      /\ told.table = g.table /\ told.doomed = g.doomed
      /\ told.alive = g.alive
      /\ \/ /\ told.data = g.data /\ told.listener = g.listener
            /\ told.xfer = g.xfer
         \/ /\ x = g.xfer /\ ~Parked(g) /\ told.data = g.data
            /\ told.listener = g.listener
         \/ /\ x = g.xfer /\ Parked(g) /\ told.listener = None
            /\ told.data = [g.data EXCEPT ![g.listener] = None]
  BY <1>1, <1>3, <1>4, <1>5, <1>6, <1>8, NotifyFields
<1> HIDE DEF told
<1>10. /\ f \in Heap /\ f.fault = told.fault /\ f.alive = told.alive \ {x}
       /\ f.attached = told.attached /\ f.begun = told.begun
       /\ f.consumer = told.consumer /\ f.table = told.table
       /\ f.doomed = told.doomed /\ f.kind = told.kind /\ f.in = told.in
       /\ f.out = told.out /\ f.buf = told.buf /\ f.clock = told.clock
       /\ f.data = told.data /\ f.listener = told.listener
       /\ f.closing = told.closing /\ f.armed = told.armed
  BY <1>7 DEF Bury, Heap
<1>11. DeleteXfer(g, x) = f BY DEF DeleteXfer, told, freed
<1> HIDE DEF f
<1> QED BY <1>5, <1>8, <1>9, <1>10, <1>11

\* What a docked heap says of a waiting transfer and of the control stream.
LEMMA WaitFacts ==
  ASSUME NEW g, Good(g), Docked(g, {}), Cared(g)
  PROVE  /\ \A l \in Listeners : g.data[l] # None =>
              /\ l = g.listener /\ g.data[l] = g.xfer /\ g.xfer \in Xfers
              /\ Control \in g.alive
              /\ g.xfer \in g.alive /\ Unjoined(g, g.xfer)
              /\ g.table[DataStream(g.xfer)] = "none"
              /\ g.consumer[DataStream(g.xfer)] # g.xfer
         /\ Ctl \in Tabled(g) => Control \in g.alive /\ g.consumer[Ctl] = Control
         /\ g.listener # None => Control \in g.alive
<1>1. g.fault = "none" BY DEF Cared
<1>2. Reached(g, {}) /\ Held(g) BY <1>1 DEF Docked
<1>3. ASSUME NEW l \in Listeners, g.data[l] # None
      PROVE  /\ l = g.listener /\ g.data[l] = g.xfer /\ g.xfer \in Xfers
             /\ Unjoined(g, g.xfer)
             /\ g.table[DataStream(g.xfer)] = "none"
             /\ \A s \in Streams :
                  g.consumer[s] = g.xfer => s # DataStream(g.xfer)
  BY <1>1, <1>3, ParkedUnjoined
<1>4. g.listener # None => Control \in g.alive BY <1>2 DEF Reached
<1>5. ASSUME NEW l \in Listeners, g.data[l] # None
      PROVE  g.xfer \in g.alive
  BY <1>1, <1>3, <1>4, <1>5, ObjectsDistinct DEF Good, Consistent
<1>6. Ctl \in Tabled(g) => Control \in g.alive /\ g.consumer[Ctl] = Control
  BY <1>2 DEF Reached, Tabled, Cared, Living
<1>7. ASSUME NEW l \in Listeners, g.data[l] # None
      PROVE  g.consumer[DataStream(g.xfer)] # g.xfer /\ Control \in g.alive
  <2>1. l = g.listener /\ l # None BY <1>3, <1>7, ObjectsDistinct
  <2>2. DataStream(g.xfer) \in Streams BY <1>3, <1>7, StreamsFacts
  <2> QED BY <1>3, <1>4, <1>7, <2>1, <2>2
<1> QED BY <1>3, <1>4, <1>5, <1>6, <1>7

\* Dooming other streams.
LEMMA DoomCared ==
  ASSUME NEW g, Cared(g), NEW S,
         \A x \in Xfers : FileStream(x) \in S =>
           g.consumer[FileStream(x)] # x \/ ~Single(g, x),
         (\E l \in Listeners : g.data[l] # None) => Ctl \notin S,
         NEW f, f = [g EXCEPT !.doomed = @ \cup S], g \in Heap
  PROVE  Cared(f)
<1>1. /\ SameCare(f, g) /\ f.doomed = g.doomed \cup S
      /\ f.closing = g.closing /\ f.armed = g.armed
  BY DEF SameCare, Heap
<1>2. \A x \in Xfers : Single(g, x) => FileStream(x) \notin f.doomed
  BY <1>1 DEF Single
<1>3. \A l \in Listeners : g.data[l] # None =>
           ~f.closing /\ f.armed = "off" /\ Ctl \notin f.doomed
  BY <1>1 DEF Cared, Unhurried
<1> QED BY <1>1, <1>2, <1>3, FrameCared

LEMMA RemoveCared ==
  ASSUME NEW g \in Heap, Cared(g), NEW c,
         c \in Xfers => ~Single(g, c),
         (\E l \in Listeners : g.data[l] # None) =>
           c # Control /\ (Ctl \in Tabled(g) => g.consumer[Ctl] = Control)
  PROVE  Cared(Remove(g, c))
<1> DEFINE S == {s \in Tabled(g) : g.consumer[s] \in {None, c}}
<1>1. \A x \in Xfers : FileStream(x) \in S =>
           g.consumer[FileStream(x)] # x \/ ~Single(g, x)
  BY ObjectsDistinct
<1>2. (\E l \in Listeners : g.data[l] # None) => Ctl \notin S
  BY ObjectsDistinct
<1>3. Remove(g, c) = [g EXCEPT !.doomed = @ \cup S] BY DEF Remove
<1> HIDE DEF S
<1> QED BY <1>1, <1>2, <1>3, DoomCared

\* A transfer that is not waiting is completed.
LEMMA CompleteCared ==
  ASSUME NEW g \in Heap, Cared(g), NEW x \in g.begun, ~Waits(g, x),
         ~Single(g, x),
         \A l \in Listeners : g.data[l] # None => g.data[l] = g.xfer,
         Ctl \in Tabled(g) => g.consumer[Ctl] = Control
  PROVE  Cared(Complete(g, x))
<1> DEFINE n == Notify(g, x)
<1>1. x \in Xfers /\ x \in Controlled /\ x \notin Listeners /\ x # Control
  BY ObjectsDistinct DEF Heap, Controlled
<1>2. x \in g.attached => Control \in g.alive BY DEF Cared, Known
<1>3. g.fault = "none" BY DEF Cared
<1>4. n \in Heap BY <1>1, NotifyType
<1>5. /\ n.fault = "none" /\ n.begun = g.begun /\ n.clock = g.clock
      /\ n.attached = g.attached \ {x}
      /\ \/ n.closing = g.closing /\ n.armed = g.armed
         \/ x = g.xfer /\ n.xfer = None
  BY <1>1, <1>2, <1>3, NotifyRest
<1>6. x = g.xfer => ~Parked(g)
  BY <1>1, DockTypes DEF Parked, Waits
<1>7. g.listener \in Listeners \cup {None} BY DockTypes
<1>8. /\ n.kind = g.kind /\ n.in = g.in /\ n.out = g.out /\ n.buf = g.buf
      /\ n.consumer = g.consumer /\ n.table = g.table
      /\ n.doomed = g.doomed /\ n.alive = g.alive
      /\ n.data = g.data /\ n.listener = g.listener
  BY <1>1, <1>5, <1>6, <1>7, NotifyFields
<1> HIDE DEF n
<1>9. SameCare(n, g) BY <1>3, <1>5, <1>8 DEF SameCare
<1>10. x = g.xfer => \A l \in Listeners : g.data[l] = None BY DEF Waits
<1>11. Cared(n)
  <2>1. \A y \in Xfers : Single(g, y) => FileStream(y) \notin n.doomed
    BY <1>8 DEF Single
  <2>2. \A l \in Listeners : g.data[l] # None =>
          ~n.closing /\ n.armed = "off" /\ Ctl \notin n.doomed
    BY <1>5, <1>8, <1>10 DEF Cared, Unhurried
  <2> QED BY <1>9, <2>1, <2>2, FrameCared
<1>12. ~Single(n, x)
  BY <1>8 DEF Single, FileEnd, DataEnd, Waits
<1>13. Tabled(n) = Tabled(g) BY <1>8 DEF Tabled
<1>14. Cared(Remove(n, x))
  BY <1>1, <1>4, <1>8, <1>11, <1>12, <1>13, RemoveCared
<1> QED BY <1>14 DEF Complete, n

\* A transfer that consumes a stream is alive, and not both waiting and met.
LEMMA ConsumingXfer ==
  ASSUME NEW g, Good(g), Docked(g, {}), Cared(g), NEW x \in Xfers,
         NEW s \in Streams, g.consumer[s] = x, g.table[s] # "none"
  PROVE  /\ x \in g.begun \cap g.alive
         /\ (s = FileStream(x) /\ g.kind[x] # "list") \/ s = DataStream(x)
         /\ Listing(g, x) \/ Copying(g, x)
         /\ s = DataStream(x) => ~Waits(g, x)
         /\ Listing(g, x) => s = DataStream(x)
<1>1. /\ (s = FileStream(x) /\ g.kind[x] # "list") \/ s = DataStream(x)
  BY DEF Cared, Docked, Held
<1>2. Sited(g, x) BY DEF Cared
<1>3. ~Untried(g, x) /\ ~Over(g, x) BY <1>1 DEF Untried, Over
<1>4. s = DataStream(x) => ~Waits(g, x) BY WaitFacts, ObjectsDistinct DEF Waits
<1> QED BY <1>1, <1>2, <1>3, <1>4 DEF Sited, Listing

LEMMA AdoptFields ==
  ASSUME NEW g \in Heap, NEW x \in Xfers, NEW s \in Streams
  PROVE  LET f == Adopt(g, x, s)
             in == IF g.in[x] = None /\ g.out[x] # s THEN s ELSE g.in[x]
         IN
         /\ f.fault = g.fault /\ f.alive = g.alive /\ f.attached = g.attached
         /\ f.begun = g.begun /\ f.consumer = g.consumer /\ f.table = g.table
         /\ f.kind = g.kind /\ f.buf = g.buf /\ f.data = g.data
         /\ f.listener = g.listener /\ f.clock = g.clock
         /\ f.doomed = g.doomed /\ f.closing = g.closing
         /\ f.armed = g.armed /\ f.xfer = g.xfer
         /\ f.in[x] = in
         /\ f.out[x] = IF g.out[x] = None /\ in # s THEN s ELSE g.out[x]
         /\ \A y \in Xfers \ {x} : f.in[y] = g.in[y] /\ f.out[y] = g.out[y]
<1> DEFINE read == IF g.in[x] = None /\ g.out[x] # s
                   THEN [g EXCEPT !.in[x] = s] ELSE g
           in == IF g.in[x] = None /\ g.out[x] # s THEN s ELSE g.in[x]
           f == Adopt(g, x, s)
<1>1. /\ read.fault = g.fault /\ read.alive = g.alive
      /\ read.attached = g.attached
      /\ read.begun = g.begun /\ read.consumer = g.consumer
      /\ read.table = g.table
      /\ read.kind = g.kind /\ read.buf = g.buf /\ read.data = g.data
      /\ read.listener = g.listener /\ read.clock = g.clock
      /\ read.doomed = g.doomed /\ read.closing = g.closing
      /\ read.armed = g.armed /\ read.xfer = g.xfer /\ read.out = g.out
  BY DEF Heap
<1>5. read \in Heap BY DEF Heap
<1>6. read.in[x] = in /\ \A y \in Xfers \ {x} : read.in[y] = g.in[y]
  BY DEF Heap
<1>2. f = IF read.out[x] = None /\ read.in[x] # s
          THEN [read EXCEPT !.out[x] = s] ELSE read
  BY DEF Adopt
<1> HIDE DEF read, f
<1>3. /\ f.fault = read.fault /\ f.alive = read.alive
      /\ f.attached = read.attached
      /\ f.begun = read.begun /\ f.consumer = read.consumer
      /\ f.table = read.table
      /\ f.kind = read.kind /\ f.buf = read.buf /\ f.data = read.data
      /\ f.listener = read.listener /\ f.clock = read.clock
      /\ f.doomed = read.doomed /\ f.closing = read.closing
      /\ f.armed = read.armed /\ f.xfer = read.xfer /\ f.in = read.in
      /\ f.out[x] = IF read.out[x] = None /\ read.in[x] # s
                    THEN s ELSE read.out[x]
      /\ \A y \in Xfers \ {x} : f.out[y] = read.out[y]
  BY <1>2, <1>5 DEF Heap
<1>4. f.in[x] = in
      /\ f.out[x] = IF g.out[x] = None /\ in # s THEN s ELSE g.out[x]
  BY <1>1, <1>3, <1>6
<1> HIDE DEF in
<1> QED BY <1>1, <1>3, <1>4, <1>6 DEF f, in

\* want_read and want_write join what has met, and nothing else.
LEMMA AdoptCared ==
  ASSUME NEW g, Good(g), Docked(g, {}), Cared(g), NEW x \in Xfers,
         NEW s \in Streams, g.consumer[s] = x, g.table[s] # "none",
         g.kind[x] # "list"
  PROVE  LET f == Adopt(g, x, s) IN
         /\ Cared(f) /\ x \in f.begun \cap f.alive
         /\ Single(f, x) \/ Joined(f, x) \/ Draining(f, x)
         /\ Single(f, x) => s = FileStream(x)
<1> DEFINE f == Adopt(g, x, s)
<1>1. /\ f.fault = g.fault /\ f.alive = g.alive /\ f.attached = g.attached
      /\ f.begun = g.begun /\ f.consumer = g.consumer /\ f.table = g.table
      /\ f.kind = g.kind /\ f.buf = g.buf /\ f.data = g.data
      /\ f.listener = g.listener /\ f.clock = g.clock
      /\ f.doomed = g.doomed /\ f.closing = g.closing
      /\ f.armed = g.armed /\ f.xfer = g.xfer
      /\ \A y \in Xfers \ {x} : f.in[y] = g.in[y] /\ f.out[y] = g.out[y]
  BY AdoptFields DEF Good
<1>2. /\ f.in[x] = IF g.in[x] = None /\ g.out[x] # s THEN s ELSE g.in[x]
      /\ f.out[x] = IF g.out[x] = None /\ f.in[x] # s THEN s ELSE g.out[x]
  BY AdoptFields DEF Good
<1> HIDE DEF f
<1>3. /\ x \in g.begun \cap g.alive /\ Copying(g, x)
      /\ s = FileStream(x) \/ s = DataStream(x)
      /\ s = DataStream(x) => ~Waits(g, x)
  BY ConsumingXfer DEF Listing
<1>4. FileStream(x) # DataStream(x) BY StreamsDiffer
<1>5. s # None /\ FileStream(x) # None /\ DataStream(x) # None
  BY StreamsNotNull, StreamsFacts
<1> DEFINE Placed == /\ Single(f, x) \/ Joined(f, x) \/ Draining(f, x)
                     /\ Single(f, x) => s = FileStream(x)
<1>6. ASSUME Single(g, x), s = DataStream(x) PROVE Placed
  <2>1. Joined(f, x)
    BY <1>1, <1>2, <1>3, <1>4, <1>5, <1>6
    DEF Single, Joined, FileEnd, DataEnd, Copying
  <2> QED BY <1>5, <2>1 DEF Single, Joined
<1>7. ASSUME f.in[x] = g.in[x], f.out[x] = g.out[x]
      PROVE  /\ FileEnd(f, x) = FileEnd(g, x) /\ DataEnd(f, x) = DataEnd(g, x)
             /\ Waits(f, x) <=> Waits(g, x)
  BY <1>1, <1>7 DEF FileEnd, DataEnd, Waits
<1>8. ASSUME Single(g, x), s = FileStream(x) PROVE Placed
  <2>1. f.in[x] = g.in[x] /\ f.out[x] = g.out[x]
    BY <1>2, <1>3, <1>4, <1>5, <1>8 DEF Single, FileEnd, DataEnd, Copying
  <2>2. Single(f, x) BY <1>1, <1>7, <1>8, <2>1 DEF Single
  <2> QED BY <1>8, <2>2
<1>9. ASSUME Joined(g, x) PROVE Placed
  <2>1. f.in[x] = g.in[x] /\ f.out[x] = g.out[x]
    BY <1>2, <1>3, <1>4, <1>5, <1>9 DEF Joined, FileEnd, DataEnd, Copying
  <2>2. Joined(f, x) BY <1>1, <1>7, <1>9, <2>1 DEF Joined
  <2> QED BY <1>5, <2>2 DEF Single, Joined
<1>10. ASSUME Draining(g, x) PROVE Placed
  <2>1. f.in[x] = g.in[x] /\ f.out[x] = g.out[x]
    BY <1>2, <1>3, <1>4, <1>5, <1>10 DEF Draining, FileEnd, DataEnd
  <2>2. Draining(f, x) BY <1>1, <1>7, <1>10, <2>1 DEF Draining
  <2>3. Single(f, x) => s = FileStream(x)
    BY <1>1, <1>3, <1>5, <2>2 DEF Draining, Single
  <2> QED BY <2>2, <2>3
<1>11. Placed BY <1>3, <1>6, <1>8, <1>9, <1>10 DEF Copying
<1>12. Sited(f, x)
  BY <1>1, <1>3, <1>11 DEF Copying, Sited
<1>13. \A y \in Xfers : Single(g, y) => FileStream(y) \notin f.doomed
  BY <1>1 DEF Single
<1>14. ASSUME NEW y \in Xfers \ {x} PROVE Sited(f, y)
  <2>1. Sited(g, y) BY DEF Cared
  <2> QED BY <1>1, <1>13, <2>1, FrameSited
<1>15. Living(f) /\ Known(f) /\ Unhurried(f)
  BY <1>1 DEF Cared, Living, Known, Unhurried
<1>16. Cared(f)
  BY <1>1, <1>12, <1>14, <1>15 DEF Cared
<1> QED BY <1>1, <1>3, <1>11, <1>16 DEF f

\* The stream s is taken out of the table, and its consumer forgets it.
Unplugged(g, s) == [g EXCEPT !.table[s] = "gone", !.consumer[s] = None]

LEMMA UnpluggedFields ==
  ASSUME NEW g \in Heap, NEW s \in Streams
  PROVE  LET r == Unplugged(g, s) IN
         /\ r \in Heap
         /\ r.fault = g.fault /\ r.alive = g.alive /\ r.attached = g.attached
         /\ r.begun = g.begun /\ r.kind = g.kind /\ r.buf = g.buf
         /\ r.in = g.in /\ r.out = g.out /\ r.data = g.data
         /\ r.listener = g.listener /\ r.clock = g.clock /\ r.xfer = g.xfer
         /\ r.doomed = g.doomed /\ r.closing = g.closing /\ r.armed = g.armed
         /\ r.finished = g.finished
         /\ r.table = [g.table EXCEPT ![s] = "gone"]
         /\ r.consumer = [g.consumer EXCEPT ![s] = None]
<1>1. Unplugged(g, s) \in Heap BY DEF Unplugged, Heap
<1> QED BY <1>1 DEF Unplugged, Heap

\* After x has died and let go of both its streams.
LEMMA XferGone ==
  ASSUME NEW g \in Heap, Cared(g), NEW x \in g.begun, ~Waits(g, x),
         \A l \in Listeners : g.data[l] # None => g.data[l] = g.xfer,
         NEW f, f.fault = "none", f.alive = g.alive \ {x},
         f.attached = g.attached \ {x}, f.begun = g.begun,
         f.kind = g.kind, f.buf = g.buf, f.data = g.data,
         f.listener = g.listener, f.clock = g.clock,
         \A y \in Xfers \ {x} : f.in[y] = g.in[y] /\ f.out[y] = g.out[y],
         \A t \in Streams : \/ f.consumer[t] = g.consumer[t]
                            \/ g.consumer[t] = x /\ f.consumer[t] = None,
         f.consumer[FileStream(x)] # x, f.consumer[DataStream(x)] # x,
         \A t \in Streams :
           /\ f.table[t] = "none" <=> g.table[t] = "none"
           /\ g.table[t] = "gone" => f.table[t] = "gone"
           /\ f.table[t] = "gone" => f.consumer[t] = None,
         f.doomed \subseteq g.doomed,
         (f.closing = g.closing /\ f.armed = g.armed) \/ x = g.xfer
  PROVE  Cared(f)
<1>1. /\ x \in Xfers /\ x # Control /\ x \notin Listeners /\ x # None
      /\ Control \notin Xfers \cup Listeners /\ None # Control
      /\ \A y \in Xfers : y # None
      /\ \A l \in Listeners : l # None /\ l # x
  BY ObjectsDistinct DEF Heap
<1>2. Sited(f, x) BY DEF Sited, Over
<1>3. ASSUME NEW y \in Xfers \ {x} PROVE Sited(f, y)
  <2>1. Sited(g, y) BY DEF Cared
  <2>2. FileStream(y) \in Streams /\ DataStream(y) \in Streams
    BY StreamsFacts
  <2>3. /\ f.consumer[FileStream(y)] = y <=> g.consumer[FileStream(y)] = y
        /\ f.consumer[DataStream(y)] = y <=> g.consumer[DataStream(y)] = y
    BY <1>1, <2>2
  <2>4. /\ f.table[FileStream(y)] = "none" <=> g.table[FileStream(y)] = "none"
        /\ f.table[DataStream(y)] = "none" <=> g.table[DataStream(y)] = "none"
        /\ g.table[DataStream(y)] = "gone" => f.table[DataStream(y)] = "gone"
    BY <2>2
  <2>5. Single(g, y) => FileStream(y) \notin f.doomed BY DEF Single
  <2>6. /\ y \in f.begun <=> y \in g.begun
        /\ y \in f.alive <=> y \in g.alive
        /\ y \in f.attached => y \in g.attached
        /\ f.kind[y] = g.kind[y] /\ f.buf[y] = g.buf[y]
        /\ f.in[y] = g.in[y] /\ f.out[y] = g.out[y]
        /\ \A l \in Listeners : f.data[l] = y <=> g.data[l] = y
    OBVIOUS
  <2> QED BY <2>1, <2>3, <2>4, <2>5, <2>6, FrameSited
<1>4. Living(f)
  <2>1. Ctl \in Streams /\ \A l \in Listeners : ListenStream(l) \in Streams
    BY StreamsFacts
  <2>2. Living(g) BY DEF Cared
  <2>3. Control \in f.alive <=> f.consumer[Ctl] = Control
    BY <1>1, <2>1, <2>2 DEF Living
  <2>4. ASSUME NEW l \in Listeners
        PROVE  /\ l \in f.alive <=> f.consumer[ListenStream(l)] = l
               /\ \A t \in Streams : f.consumer[t] = l => t = ListenStream(l)
    BY <1>1, <2>1, <2>2, <2>4 DEF Living
  <2> QED BY <2>3, <2>4 DEF Living
<1>5. Known(f)
  BY <1>1 DEF Cared, Known
<1>6. Unhurried(f)
  BY <1>1 DEF Cared, Unhurried, Waits
<1> QED BY <1>2, <1>3, <1>4, <1>5, <1>6 DEF Cared

\* Removing a stream of a transfer: it dies, or drains its buffer.
LEMMA ReapXfer ==
  ASSUME NEW g, Good(g), Docked(g, {}), Cared(g), NEW s \in g.doomed,
         NEW x \in Xfers, g.consumer[s] = x
  PROVE  Cared([XferHungup(Unplugged(g, s), x, s) EXCEPT !.doomed = @ \ {s}])
<1> DEFINE r == Unplugged(g, s)
<1>1. /\ s \in Streams /\ g \in Heap /\ g.fault = "none"
      /\ g.table[s] # "none"
  BY DEF Good, Heap, Cared, Docked, Sown
<1>2. /\ r \in Heap
      /\ r.fault = "none" /\ r.alive = g.alive /\ r.attached = g.attached
      /\ r.begun = g.begun /\ r.kind = g.kind /\ r.buf = g.buf
      /\ r.in = g.in /\ r.out = g.out /\ r.data = g.data
      /\ r.listener = g.listener /\ r.clock = g.clock /\ r.xfer = g.xfer
      /\ r.doomed = g.doomed /\ r.closing = g.closing /\ r.armed = g.armed
      /\ r.table = [g.table EXCEPT ![s] = "gone"]
      /\ r.consumer = [g.consumer EXCEPT ![s] = None]
  BY <1>1, UnpluggedFields
<1> HIDE DEF r
<1>3. /\ x \in g.begun \cap g.alive
      /\ (s = FileStream(x) /\ g.kind[x] # "list") \/ s = DataStream(x)
      /\ Listing(g, x) \/ Copying(g, x)
      /\ s = DataStream(x) => ~Waits(g, x)
      /\ Listing(g, x) => s = DataStream(x)
  BY <1>1, ConsumingXfer
<1>4. FileStream(x) # DataStream(x) /\ FileStream(x) \in Streams
      /\ DataStream(x) \in Streams
  BY StreamsDiffer, StreamsFacts
<1>5. ~Waits(g, x)
  <2>1. CASE s = DataStream(x) BY <1>3, <2>1
  <2>2. CASE s = FileStream(x) /\ Waits(g, x)
    <3>1. g.table[DataStream(x)] = "none" /\ g.consumer[DataStream(x)] # x
      BY <2>2, WaitFacts, ObjectsDistinct DEF Waits
    <3>2. Single(g, x)
      BY <1>3, <1>4, <2>2, <3>1 DEF Copying, Joined, Draining
    <3> QED BY <2>2, <3>2 DEF Single
  <2> QED BY <1>3, <2>1, <2>2
<1>6. x # None /\ x \notin Listeners /\ (x \in g.attached => Control \in g.alive)
  BY <1>3, ObjectsDistinct DEF Cared, Known
<1>7. \A l \in Listeners : g.data[l] # None => g.data[l] = g.xfer
  BY WaitFacts
<1>8. x = g.xfer => ~Parked(g)
  BY <1>1, <1>5, <1>6, <1>7, DockTypes DEF Parked, Waits
<1>9. ASSUME NEW q \in Heap, q.fault = "none", q.alive = g.alive,
             q.attached = g.attached, q.begun = g.begun, q.kind = g.kind,
             q.buf = g.buf, q.data = g.data, q.listener = g.listener,
             q.clock = g.clock, q.xfer = g.xfer, q.doomed = g.doomed,
             q.closing = g.closing, q.armed = g.armed, q.table = r.table,
             \A y \in Xfers \ {x} : q.in[y] = g.in[y] /\ q.out[y] = g.out[y],
             \A t \in Streams : \/ q.consumer[t] = r.consumer[t]
                                \/ r.consumer[t] = x /\ q.consumer[t] = None,
             Freed(q, x)[FileStream(x)] # x, Freed(q, x)[DataStream(x)] # x
      PROVE  Cared([DeleteXfer(q, x) EXCEPT !.doomed = @ \ {s}])
  <2> DEFINE k == DeleteXfer(q, x)
             f == [k EXCEPT !.doomed = @ \ {s}]
  <2>1. ~(x = q.xfer /\ Parked(q)) BY <1>8, <1>9 DEF Parked
  <2>2. /\ k \in Heap /\ k.fault = "none" /\ k.alive = q.alive \ {x}
        /\ k.attached = q.attached \ {x} /\ k.begun = q.begun
        /\ k.consumer = Freed(q, x) /\ k.table = q.table
        /\ k.doomed = q.doomed /\ k.kind = q.kind /\ k.in = q.in
        /\ k.out = q.out /\ k.buf = q.buf /\ k.clock = q.clock
        /\ k.data = q.data /\ k.listener = q.listener
        /\ \/ k.closing = q.closing /\ k.armed = q.armed
           \/ x = q.xfer
    <3>1. x \in q.attached => Control \in q.alive BY <1>6, <1>9
    <3>2. q \in Heap /\ q.fault = "none" BY <1>9
    <3> QED BY ONLY x \in Xfers, <2>1, <3>1, <3>2, DeleteXferFields DEF k
  <2> HIDE DEF k
  <2>3. /\ f.fault = k.fault /\ f.alive = k.alive /\ f.attached = k.attached
        /\ f.begun = k.begun /\ f.consumer = k.consumer /\ f.table = k.table
        /\ f.doomed = k.doomed \ {s} /\ f.kind = k.kind /\ f.in = k.in
        /\ f.out = k.out /\ f.buf = k.buf /\ f.clock = k.clock
        /\ f.data = k.data /\ f.listener = k.listener
        /\ f.closing = k.closing /\ f.armed = k.armed
    BY <2>2 DEF Heap
  <2> HIDE DEF f
  <2>4. \A t \in Streams : \/ f.consumer[t] = q.consumer[t]
                           \/ q.consumer[t] = x /\ f.consumer[t] = None
    BY <2>2, <2>3 DEF Freed
  <2>5. \A t \in Streams : \/ r.consumer[t] = g.consumer[t]
                           \/ g.consumer[t] = x /\ r.consumer[t] = None
    BY <1>1, <1>2, DockTypes
  <2>6. \A t \in Streams : \/ f.consumer[t] = g.consumer[t]
                           \/ g.consumer[t] = x /\ f.consumer[t] = None
    BY <1>6, <1>9, <2>4, <2>5
  <2>7. ASSUME NEW t \in Streams
        PROVE  /\ f.table[t] = "none" <=> g.table[t] = "none"
               /\ g.table[t] = "gone" => f.table[t] = "gone"
               /\ f.table[t] = "gone" => f.consumer[t] = None
    <3>1. f.table[t] = IF t = s THEN "gone" ELSE g.table[t]
      BY <1>1, <1>2, <1>9, <2>2, <2>3, DockTypes
    <3>2. g.table[t] = "gone" => g.consumer[t] = None
      BY DEF Cared, Living
    <3>3. r.consumer[s] = None BY <1>1, <1>2, DockTypes
    <3>4. t = s => f.consumer[t] = None BY <1>6, <1>9, <2>4, <3>3
    <3> QED BY <1>1, <2>6, <3>1, <3>2, <3>4
  <2>8. Cared(f)
    BY <1>1, <1>3, <1>5, <1>7, <1>9, <2>2, <2>3, <2>6, <2>7, XferGone
  <2> QED BY <2>8 DEF f, k
<1>10. CASE g.kind[x] = "list"
  <2>1. XferHungup(r, x, s) = DeleteXfer(r, x) BY <1>2, <1>10 DEF XferHungup
  <2>2. s = DataStream(x) BY <1>3, <1>10
  <2>3. r.consumer[DataStream(x)] = None BY <1>1, <1>2, <2>2, DockTypes
  <2>4. g.consumer[FileStream(x)] # x
    BY <1>1, <1>4, <1>10 DEF Docked, Held
  <2>5. r.consumer[FileStream(x)] # x
    BY <1>1, <1>2, <1>4, <2>2, <2>4, DockTypes
  <2>6. Freed(r, x)[FileStream(x)] # x /\ Freed(r, x)[DataStream(x)] # x
    BY <1>4, <1>6, <2>3, <2>5 DEF Freed
  <2> QED BY <1>2, <1>9, <2>1, <2>6 DEF r
<1> DEFINE Drains == /\ r.out[x] # None /\ s = r.in[x] /\ s # r.out[x]
                     /\ r.buf[x] = "full"
<1>11. CASE g.kind[x] # "list" /\ Drains
  <2> DEFINE p == ReleaseStreams(r, x, {r.in[x]})
             k == [p EXCEPT !.in[x] = None]
             f == [k EXCEPT !.doomed = @ \ {s}]
  <2>1. r.consumer[s] = None /\ s # None
    BY <1>1, <1>2, DockTypes, StreamsNotNull
  <2>2. p.consumer = r.consumer
    <3> DEFINE C == [t \in Streams |->
                       IF t \in {r.in[x]} /\ t \in {r.in[x], r.out[x]}
                          /\ r.consumer[t] = x
                       THEN None ELSE r.consumer[t]]
    <3>1. C = r.consumer BY <1>2, <1>6, <1>11, <2>1, DockTypes
    <3>2. p = [r EXCEPT !.consumer = C] BY DEF ReleaseStreams
    <3> HIDE DEF C
    <3> QED BY <1>2, <3>1, <3>2 DEF Heap
  <2>3. /\ p \in Heap /\ p.fault = r.fault /\ p.alive = r.alive
        /\ p.attached = r.attached /\ p.begun = r.begun /\ p.kind = r.kind
        /\ p.buf = r.buf /\ p.data = r.data /\ p.listener = r.listener
        /\ p.clock = r.clock /\ p.xfer = r.xfer /\ p.doomed = r.doomed
        /\ p.closing = r.closing /\ p.armed = r.armed /\ p.table = r.table
        /\ p.in = r.in /\ p.out = r.out
    <3>1. p \in Heap BY <1>2, ReleaseType
    <3> QED BY <1>2, <3>1 DEF ReleaseStreams, Heap
  <2>4. XferHungup(r, x, s) = k
    BY <1>2, <1>11, <2>3 DEF XferHungup
  <2> HIDE DEF p
  <2>5. /\ k \in Heap /\ k.fault = p.fault /\ k.alive = p.alive
        /\ k.attached = p.attached /\ k.begun = p.begun /\ k.kind = p.kind
        /\ k.buf = p.buf /\ k.data = p.data /\ k.listener = p.listener
        /\ k.clock = p.clock /\ k.xfer = p.xfer /\ k.doomed = p.doomed
        /\ k.closing = p.closing /\ k.armed = p.armed /\ k.table = p.table
        /\ k.consumer = p.consumer /\ k.out = p.out /\ k.in[x] = None
        /\ \A y \in Xfers \ {x} : k.in[y] = p.in[y]
    BY <2>3 DEF Heap
  <2> HIDE DEF k
  <2>6. /\ f.fault = k.fault /\ f.alive = k.alive /\ f.attached = k.attached
        /\ f.begun = k.begun /\ f.consumer = k.consumer /\ f.table = k.table
        /\ f.doomed = k.doomed \ {s} /\ f.kind = k.kind /\ f.in = k.in
        /\ f.out = k.out /\ f.buf = k.buf /\ f.clock = k.clock
        /\ f.data = k.data /\ f.listener = k.listener
        /\ f.closing = k.closing /\ f.armed = k.armed
    BY <2>5 DEF Heap
  <2> HIDE DEF f
  <2>7. Copying(g, x) BY <1>3, <1>11 DEF Listing
  <2>8. Joined(g, x)
    <3>1. ~Draining(g, x)
      BY <1>2, <1>3, <1>11, <2>1 DEF Draining, FileEnd, DataEnd
    <3>2. ~Single(g, x)
      <4>1. ASSUME Single(g, x) PROVE s = DataStream(x) BY <1>3, <4>1 DEF Single
      <4> QED BY <1>2, <1>4, <1>11, <2>1, <2>7, <4>1
          DEF Single, FileEnd, DataEnd, Copying
    <3> QED BY <2>7, <3>1, <3>2 DEF Copying
  <2>9. /\ f.table = [g.table EXCEPT ![s] = "gone"]
        /\ f.consumer = [g.consumer EXCEPT ![s] = None]
        /\ f.in[x] = None /\ f.out[x] = g.out[x] /\ f.kind = g.kind
    BY <1>2, <2>2, <2>3, <2>5, <2>6
  <2>10. Draining(f, x)
    BY <1>1, <1>2, <1>4, <1>6, <1>11, <2>7, <2>8, <2>9, DockTypes
    DEF Draining, Joined, FileEnd, DataEnd, Copying
  <2>11. Sited(f, x)
    <3>1. f.table[FileStream(x)] # "none"
      BY <1>1, <1>4, <2>7, <2>9, DockTypes DEF Copying
    <3> QED BY <1>2, <1>3, <2>3, <2>5, <2>6, <2>7, <2>10, <3>1
        DEF Sited, Copying
  <2>12. ASSUME NEW y \in Xfers \ {x} PROVE Sited(f, y)
    <3>1. Sited(g, y) BY DEF Cared
    <3>2. FileStream(y) \in Streams /\ DataStream(y) \in Streams
      BY StreamsFacts
    <3>3. \A t \in Streams : f.consumer[t] = y <=> g.consumer[t] = y
      BY <1>1, <2>9, ObjectsDistinct, DockTypes
    <3>4. \A t \in Streams :
            /\ f.table[t] = "none" <=> g.table[t] = "none"
            /\ g.table[t] = "gone" => f.table[t] = "gone"
      BY <1>1, <2>9, DockTypes
    <3>5. Single(g, y) => FileStream(y) \notin f.doomed
      BY <1>2, <2>3, <2>5, <2>6 DEF Single
    <3>6. /\ y \in f.begun <=> y \in g.begun
          /\ y \in f.alive <=> y \in g.alive
          /\ y \in f.attached => y \in g.attached
          /\ f.kind[y] = g.kind[y] /\ f.buf[y] = g.buf[y]
          /\ f.in[y] = g.in[y] /\ f.out[y] = g.out[y]
          /\ \A l \in Listeners : f.data[l] = y <=> g.data[l] = y
      BY <1>2, <2>3, <2>5, <2>6
    <3> QED BY <3>1, <3>2, <3>3, <3>4, <3>5, <3>6, FrameSited
  <2>13. Living(f)
    <3>1. Ctl \in Streams /\ \A l \in Listeners : ListenStream(l) \in Streams
      BY StreamsFacts
    <3>2. \A c \in {Control} \cup Listeners : \A t \in Streams :
            f.consumer[t] = c <=> g.consumer[t] = c
      BY <1>1, <2>9, ObjectsDistinct, DockTypes
    <3>3. \A t \in Streams : f.table[t] = "gone" => f.consumer[t] = None
      BY <1>1, <2>9, DockTypes DEF Cared, Living
    <3>4. f.alive = g.alive BY <1>2, <2>3, <2>5, <2>6
    <3>5. Living(g) BY DEF Cared
    <3> QED BY <3>1, <3>2, <3>3, <3>4, <3>5 DEF Living
  <2>14. Known(f) /\ Unhurried(f)
    BY <1>2, <2>3, <2>5, <2>6 DEF Cared, Known, Unhurried
  <2>15. f.fault = "none" /\ \A y \in Xfers : f.clock[y] = "off"
    BY <1>2, <2>3, <2>5, <2>6 DEF Cared
  <2>16. Cared(f) BY <2>11, <2>12, <2>13, <2>14, <2>15 DEF Cared
  <2> QED BY <2>4, <2>16 DEF f, r
<1>12. CASE g.kind[x] # "list" /\ ~Drains
  <2> DEFINE p == ReleaseStreams(r, x, Streams)
             q == [p EXCEPT !.in[x] = None, !.out[x] = None]
  <2>1. p \in Heap BY <1>2, ReleaseType
  <2>15. p = [r EXCEPT !.consumer = Freed(r, x)] BY DEF ReleaseStreams, Freed
  <2> HIDE DEF p
  <2> DEFINE half == [p EXCEPT !.in[x] = None]
  <2>16. half \in Heap BY <2>1 DEF Heap
  <2>17. \A y \in Xfers \ {x} : half.in[y] = p.in[y] BY <2>1 DEF Heap
  <2>9. /\ half.fault = p.fault /\ half.alive = p.alive
        /\ half.attached = p.attached /\ half.begun = p.begun
        /\ half.kind = p.kind /\ half.buf = p.buf /\ half.data = p.data
        /\ half.listener = p.listener /\ half.clock = p.clock
        /\ half.xfer = p.xfer /\ half.doomed = p.doomed
        /\ half.closing = p.closing /\ half.armed = p.armed
        /\ half.table = p.table /\ half.consumer = p.consumer
        /\ half.out = p.out
    BY <2>1 DEF Heap
  <2>10. q = [half EXCEPT !.out[x] = None] BY <2>1 DEF Heap
  <2> HIDE DEF half, q
  <2>18. /\ q.fault = half.fault /\ q.alive = half.alive
         /\ q.attached = half.attached /\ q.begun = half.begun
         /\ q.kind = half.kind /\ q.buf = half.buf /\ q.data = half.data
         /\ q.listener = half.listener /\ q.clock = half.clock
         /\ q.xfer = half.xfer /\ q.doomed = half.doomed
         /\ q.closing = half.closing /\ q.armed = half.armed
         /\ q.table = half.table /\ q.consumer = half.consumer
         /\ q.in = half.in
    BY <2>10, <2>16 DEF Heap
  <2>19. q \in Heap BY <2>10, <2>16 DEF Heap
  <2>20. \A y \in Xfers \ {x} : q.out[y] = half.out[y]
    BY <2>10, <2>16 DEF Heap
  <2>2. /\ q \in Heap /\ q.fault = p.fault /\ q.alive = p.alive
        /\ q.attached = p.attached /\ q.begun = p.begun /\ q.kind = p.kind
        /\ q.buf = p.buf /\ q.data = p.data /\ q.listener = p.listener
        /\ q.clock = p.clock /\ q.xfer = p.xfer /\ q.doomed = p.doomed
        /\ q.closing = p.closing /\ q.armed = p.armed /\ q.table = p.table
        /\ q.consumer = p.consumer
        /\ \A y \in Xfers \ {x} : q.in[y] = p.in[y] /\ q.out[y] = p.out[y]
    BY <2>9, <2>17, <2>18, <2>19, <2>20
  <2> DEFINE F == Freed(r, x)
  <2> HIDE DEF F
  <2>11. p = [r EXCEPT !.consumer = F] BY <2>15 DEF F
  <2>12. /\ p.fault = r.fault /\ p.alive = r.alive
         /\ p.attached = r.attached /\ p.begun = r.begun /\ p.kind = r.kind
         /\ p.buf = r.buf /\ p.data = r.data /\ p.listener = r.listener
         /\ p.clock = r.clock /\ p.xfer = r.xfer /\ p.doomed = r.doomed
         /\ p.closing = r.closing /\ p.armed = r.armed /\ p.table = r.table
         /\ p.in = r.in /\ p.out = r.out /\ p.consumer = F
    BY <1>2, <2>11 DEF Heap
  <2>3. /\ p.fault = r.fault /\ p.alive = r.alive
        /\ p.attached = r.attached /\ p.begun = r.begun /\ p.kind = r.kind
        /\ p.buf = r.buf /\ p.data = r.data /\ p.listener = r.listener
        /\ p.clock = r.clock /\ p.xfer = r.xfer /\ p.doomed = r.doomed
        /\ p.closing = r.closing /\ p.armed = r.armed /\ p.table = r.table
        /\ p.in = r.in /\ p.out = r.out /\ p.consumer = Freed(r, x)
    BY <2>12 DEF F
  <2> DEFINE inFree == ReleaseStreams(r, x, {r.in[x]})
  <2>13. inFree.out = r.out /\ inFree.in = r.in /\ inFree.buf = r.buf
    BY <1>2 DEF ReleaseStreams, Heap
  <2>14. r.kind[x] # "list" BY <1>2, <1>12
  <2> HIDE DEF inFree
  <2>4. XferHungup(r, x, s) = DeleteXfer(q, x)
    BY <1>12, <2>13, <2>14 DEF XferHungup, inFree, p, q
  <2>5. Freed(r, x)[FileStream(x)] # x /\ Freed(r, x)[DataStream(x)] # x
    <3>1. Freed(r, x)[s] # x
      BY <1>1, <1>2, <1>6, DockTypes DEF Freed
    <3>2. \A t \in Streams :
            g.consumer[t] # x \/ t = g.in[x] \/ t = g.out[x] =>
              Freed(r, x)[t] # x
      BY <1>1, <1>2, <1>6, DockTypes DEF Freed
    <3>3. Copying(g, x) BY <1>3, <1>12 DEF Listing
    <3>4. CASE Single(g, x)
      <4>1. s = DataStream(x) BY <1>3, <3>4 DEF Single
      <4>2. FileStream(x) = g.in[x] \/ FileStream(x) = g.out[x]
        BY <3>4 DEF Single, FileEnd
      <4> QED BY <1>4, <3>1, <3>2, <4>1, <4>2
    <3>5. CASE Joined(g, x)
      <4>1. FileStream(x) = g.in[x] \/ FileStream(x) = g.out[x]
        BY <3>5 DEF Joined, FileEnd
      <4>2. DataStream(x) = g.in[x] \/ DataStream(x) = g.out[x]
        BY <3>5 DEF Joined, DataEnd
      <4> QED BY <1>4, <3>2, <4>1, <4>2
    <3>6. CASE Draining(g, x)
      <4>1. \/ g.consumer[FileStream(x)] # x /\ s = DataStream(x)
            \/ g.consumer[DataStream(x)] # x /\ s = FileStream(x)
        BY <1>3, <3>6 DEF Draining
      <4> QED BY <1>4, <3>1, <3>2, <4>1
    <3> QED BY <3>3, <3>4, <3>5, <3>6 DEF Copying
  <2>6. Freed(q, x)[FileStream(x)] # x /\ Freed(q, x)[DataStream(x)] # x
    BY <1>4, <1>6, <2>2, <2>3, <2>5 DEF Freed
  <2>7. \A t \in Streams : \/ q.consumer[t] = r.consumer[t]
                           \/ r.consumer[t] = x /\ q.consumer[t] = None
    BY <2>2, <2>3 DEF Freed
  <2>8. Cared([DeleteXfer(q, x) EXCEPT !.doomed = @ \ {s}])
    BY <1>2, <1>9, <2>2, <2>3, <2>6, <2>7
  <2> QED BY <2>4, <2>8 DEF r
<1> QED BY <1>10, <1>11, <1>12

\* Passive mode is left when nothing is parked: the listener is on its own.
LEMMA PassiveOffFields ==
  ASSUME NEW g \in Heap, g.fault = "none", \A l \in Listeners : g.data[l] = None
  PROVE  LET f == PassiveOff(g) IN
         /\ f \in Heap /\ f.listener = None
         /\ f.attached = g.attached \ {g.listener}
         /\ f.alive = g.alive /\ f.begun = g.begun /\ f.consumer = g.consumer
         /\ f.table = g.table /\ f.doomed = g.doomed /\ f.kind = g.kind
         /\ f.in = g.in /\ f.out = g.out /\ f.buf = g.buf
         /\ f.data = g.data /\ f.clock = g.clock /\ f.fault = "none"
         /\ f.closing = g.closing /\ f.armed = g.armed /\ f.xfer = g.xfer
<1> DEFINE l == g.listener
           f == PassiveOff(g)
<1>1. l \in Listeners \cup {None} BY DockTypes
<1>3. f \in Heap BY PassiveOffType
<1>4. CASE l = None
  <2>1. f = g BY <1>4 DEF PassiveOff
  <2>2. g.attached \ {l} = g.attached
    BY <1>4, ObjectsDistinct DEF Heap, Controlled
  <2> HIDE DEF f
  <2> QED BY <1>4, <2>1, <2>2 DEF f
<1>5. CASE l # None
  <2> DEFINE freed == FreeListener(g, l)
  <2>1. l \in Listeners BY <1>1, <1>5
  <2>2. freed \in Heap BY <2>1, FreeListenerType
  <2>3. freed = [g EXCEPT !.data[l] = None, !.finished = @ \cup {l}]
    BY <2>1 DEF FreeListener
  <2>4. /\ freed.attached = g.attached /\ freed.listener = g.listener
        /\ freed.alive = g.alive /\ freed.begun = g.begun
        /\ freed.consumer = g.consumer
        /\ freed.table = g.table /\ freed.doomed = g.doomed
        /\ freed.kind = g.kind /\ freed.in = g.in /\ freed.out = g.out
        /\ freed.buf = g.buf /\ freed.data = [g.data EXCEPT ![l] = None]
        /\ freed.clock = g.clock /\ freed.fault = g.fault
        /\ freed.closing = g.closing /\ freed.armed = g.armed
        /\ freed.xfer = g.xfer
    BY <2>3 DEF Heap
  <2>5. [g.data EXCEPT ![l] = None] = g.data BY <2>1, DockTypes
  <2> HIDE DEF freed
  <2>6. f = [freed EXCEPT !.attached = @ \ {l}, !.listener = None]
    BY <1>5, <2>4 DEF PassiveOff, freed
  <2>7. /\ f.attached = freed.attached \ {l} /\ f.listener = None
        /\ f.alive = freed.alive /\ f.begun = freed.begun
        /\ f.consumer = freed.consumer
        /\ f.table = freed.table /\ f.doomed = freed.doomed
        /\ f.kind = freed.kind /\ f.in = freed.in /\ f.out = freed.out
        /\ f.buf = freed.buf /\ f.data = freed.data
        /\ f.clock = freed.clock /\ f.fault = freed.fault
        /\ f.closing = freed.closing /\ f.armed = freed.armed
        /\ f.xfer = freed.xfer
    BY <2>2, <2>6 DEF Heap
  <2> HIDE DEF f
  <2> QED BY <1>3, <2>4, <2>5, <2>7 DEF f
<1> QED BY <1>4, <1>5

LEMMA PassiveOffCared ==
  ASSUME NEW g \in Heap, Cared(g), \A l \in Listeners : g.data[l] = None
  PROVE  Cared(PassiveOff(g))
<1> DEFINE f == PassiveOff(g)
<1>1. /\ f.listener = None /\ f.attached = g.attached \ {g.listener}
      /\ f.alive = g.alive /\ f.begun = g.begun /\ f.consumer = g.consumer
      /\ f.table = g.table /\ f.doomed = g.doomed /\ f.kind = g.kind
      /\ f.in = g.in /\ f.out = g.out /\ f.buf = g.buf
      /\ f.data = g.data /\ f.clock = g.clock /\ f.fault = g.fault
  BY PassiveOffFields DEF Cared
<1> HIDE DEF f
<1>2. SameCare(f, g) BY <1>1 DEF SameCare, Cared, Known
<1>3. \A x \in Xfers : Single(g, x) => FileStream(x) \notin f.doomed
  BY <1>1 DEF Single
<1>4. Cared(f) BY <1>2, <1>3, FrameCared
<1> QED BY <1>4 DEF f

\* Removing the stream of the control connection.
LEMMA ReapControl ==
  ASSUME NEW g, Good(g), Docked(g, {}), Cared(g), Ctl \in g.doomed,
         g.consumer[Ctl] = Control
  PROVE  Cared([DeleteControl(Unplugged(g, Ctl)) EXCEPT !.doomed = @ \ {Ctl}])
<1> DEFINE r == Unplugged(g, Ctl)
           off == PassiveOff(r)
           gone == [off EXCEPT !.attached = @ \ {off.xfer}, !.xfer = None]
           k == Bury(gone, Control)
           f == [k EXCEPT !.doomed = @ \ {Ctl}]
<1>1. g \in Heap /\ Ctl \in Streams /\ g.table[Ctl] # "none"
  BY StreamsFacts DEF Good, Docked, Cared, Sown
<1>2. /\ r \in Heap
      /\ r.fault = g.fault /\ r.alive = g.alive /\ r.attached = g.attached
      /\ r.begun = g.begun /\ r.kind = g.kind /\ r.buf = g.buf
      /\ r.in = g.in /\ r.out = g.out /\ r.data = g.data
      /\ r.listener = g.listener /\ r.clock = g.clock /\ r.xfer = g.xfer
      /\ r.doomed = g.doomed
      /\ r.table = [g.table EXCEPT ![Ctl] = "gone"]
      /\ r.consumer = [g.consumer EXCEPT ![Ctl] = None]
  BY <1>1, UnpluggedFields
<1> HIDE DEF r
<1>3. \A l \in Listeners : g.data[l] = None BY DEF Cared, Unhurried
<1>4. /\ off \in Heap /\ off.fault = "none" /\ off.listener = None
      /\ off.attached = r.attached \ {r.listener}
      /\ off.alive = r.alive /\ off.begun = r.begun
      /\ off.consumer = r.consumer
      /\ off.table = r.table /\ off.doomed = r.doomed /\ off.kind = r.kind
      /\ off.in = r.in /\ off.out = r.out /\ off.buf = r.buf
      /\ off.data = r.data /\ off.clock = r.clock /\ off.xfer = r.xfer
  BY <1>2, <1>3, PassiveOffFields DEF Cared
<1> HIDE DEF off
<1>5. DeleteControl(r) = k BY <1>4 DEF DeleteControl, off
<1>6. /\ gone.fault = "none" /\ gone.listener = None
      /\ gone.attached = off.attached \ {off.xfer}
      /\ gone.alive = off.alive /\ gone.begun = off.begun
      /\ gone.consumer = off.consumer /\ gone.table = off.table
      /\ gone.doomed = off.doomed /\ gone.kind = off.kind
      /\ gone.in = off.in /\ gone.out = off.out /\ gone.buf = off.buf
      /\ gone.data = off.data /\ gone.clock = off.clock
  BY <1>4 DEF Heap
<1> HIDE DEF gone
<1>16. gone \in Heap
  <2>1. [off EXCEPT !.attached = @ \ {off.xfer}] \in Heap BY <1>4 DEF Heap
  <2>2. gone = [[off EXCEPT !.attached = @ \ {off.xfer}] EXCEPT !.xfer = None]
    BY <1>4 DEF Heap, gone
  <2> QED BY <2>1, <2>2 DEF Heap
<1>7. /\ k \in Heap
      /\ k.fault = "none" /\ k.listener = None
      /\ k.attached = gone.attached /\ k.alive = gone.alive \ {Control}
      /\ k.begun = gone.begun
      /\ k.consumer = gone.consumer /\ k.table = gone.table
      /\ k.doomed = gone.doomed /\ k.kind = gone.kind
      /\ k.in = gone.in /\ k.out = gone.out /\ k.buf = gone.buf
      /\ k.data = gone.data /\ k.clock = gone.clock
  BY <1>6, <1>16 DEF Bury, Heap
<1> HIDE DEF k
<1>8. /\ f.fault = "none" /\ f.listener = None
      /\ f.attached = k.attached /\ f.alive = k.alive
      /\ f.begun = k.begun /\ f.consumer = k.consumer /\ f.table = k.table
      /\ f.doomed = k.doomed \ {Ctl} /\ f.kind = k.kind
      /\ f.in = k.in /\ f.out = k.out /\ f.buf = k.buf
      /\ f.data = k.data /\ f.clock = k.clock
  BY <1>7 DEF Heap
<1> HIDE DEF f
<1>9. /\ f.attached = g.attached \ {g.listener, g.xfer}
      /\ f.alive = g.alive \ {Control}
      /\ f.table = [g.table EXCEPT ![Ctl] = "gone"]
      /\ f.consumer = [g.consumer EXCEPT ![Ctl] = None]
      /\ f.begun = g.begun /\ f.kind = g.kind /\ f.in = g.in /\ f.out = g.out
      /\ f.buf = g.buf /\ f.data = g.data /\ f.clock = g.clock
      /\ f.doomed = g.doomed \ {Ctl}
  BY <1>2, <1>4, <1>6, <1>7, <1>8
<1>10. \A t \in Streams :
         /\ f.table[t] = IF t = Ctl THEN "gone" ELSE g.table[t]
         /\ f.consumer[t] = IF t = Ctl THEN None ELSE g.consumer[t]
  BY <1>1, <1>9, DockTypes
<1>11. ASSUME NEW x \in Xfers PROVE Sited(f, x)
  <2>1. Sited(g, x) BY DEF Cared
  <2>2. /\ FileStream(x) \in Streams \ {Ctl}
        /\ DataStream(x) \in Streams \ {Ctl}
    BY StreamsFacts, StreamsDiffer
  <2>3. Single(g, x) => FileStream(x) \notin f.doomed BY <1>9 DEF Single
  <2>4. x # Control BY ObjectsDistinct
  <2>5. /\ f.consumer[FileStream(x)] = g.consumer[FileStream(x)]
        /\ f.consumer[DataStream(x)] = g.consumer[DataStream(x)]
        /\ f.table[FileStream(x)] = g.table[FileStream(x)]
        /\ f.table[DataStream(x)] = g.table[DataStream(x)]
    BY <1>10, <2>2
  <2>6. /\ x \in f.begun <=> x \in g.begun
        /\ x \in f.alive <=> x \in g.alive
        /\ x \in f.attached => x \in g.attached
        /\ f.kind[x] = g.kind[x] /\ f.buf[x] = g.buf[x]
        /\ f.in[x] = g.in[x] /\ f.out[x] = g.out[x]
        /\ \A l \in Listeners : f.data[l] = x <=> g.data[l] = x
    BY <1>9, <2>4
  <2> QED BY <2>1, <2>3, <2>5, <2>6, FrameSited
<1>12. Living(f)
  <2>1. Living(g) BY DEF Cared
  <2>2. \A l \in Listeners :
          ListenStream(l) \in Streams \ {Ctl} /\ l # Control /\ l # None
    BY StreamsFacts, StreamsDiffer, ObjectsDistinct
  <2>3. Control # None BY ObjectsDistinct
  <2>4. Control \notin f.alive /\ f.consumer[Ctl] # Control
    BY <1>1, <1>9, <1>10, <2>3
  <2> QED BY <1>9, <1>10, <2>1, <2>2, <2>4 DEF Living
<1>13. Known(f)
  <2>1. g.attached \cap Listeners \subseteq {g.listener} BY DEF Cared, Known
  <2>2. Control \in g.alive /\ g.fault = "none" BY DEF Cared, Living
  <2>3. g.begun \subseteq Xfers BY <1>1 DEF Heap
  <2>4. \A x \in g.begun \cap g.attached : x = g.xfer
    BY <2>2 DEF Good, Consistent
  <2> QED BY <1>8, <1>9, <2>1, <2>4 DEF Known
<1>14. Unhurried(f) BY <1>3, <1>9 DEF Unhurried
<1>15. Cared(f) BY <1>8, <1>9, <1>11, <1>12, <1>13, <1>14 DEF Cared
<1> QED BY <1>5, <1>15 DEF f, r

\* The listener l has died, and the transfers D it deletes.
Orphaned(f, g, l, D) ==
  /\ f.fault = "none" /\ f.alive = g.alive \ ({l} \cup D)
  /\ f.attached = g.attached \ ({l} \cup D) /\ f.begun = g.begun
  /\ f.kind = g.kind /\ f.in = g.in /\ f.out = g.out /\ f.buf = g.buf
  /\ f.clock = g.clock /\ f.doomed \subseteq g.doomed
  /\ f.listener = g.listener \/ l = g.listener
  /\ f.table = [g.table EXCEPT ![ListenStream(l)] = "gone"]
  /\ f.consumer[ListenStream(l)] = None
  /\ \A t \in Streams : \/ f.consumer[t] = g.consumer[t]
                        \/ g.consumer[t] \in D /\ f.consumer[t] = None
                        \/ t = ListenStream(l)
  /\ \A x \in D : Over(f, x)
  /\ \A m \in Listeners :
       f.data[m] = g.data[m] \/ (g.data[m] \in D /\ f.data[m] = None)
  /\ (\E m \in Listeners : f.data[m] # None) =>
       f.closing = g.closing /\ f.armed = g.armed

LEMMA ListenerGone ==
  ASSUME NEW g \in Heap, Cared(g), NEW l \in Listeners, NEW D \in SUBSET Xfers,
         NEW f, Orphaned(f, g, l, D)
  PROVE  Cared(f)
<1> USE DEF Orphaned
<1>1. /\ Control \notin Xfers \cup Listeners /\ None # Control
      /\ \A y \in Xfers : y # None /\ y \notin Listeners
      /\ \A m \in Listeners : m # None /\ m \notin Xfers
  BY ObjectsDistinct
<1>2. \A t \in Streams :
        f.table[t] = IF t = ListenStream(l) THEN "gone" ELSE g.table[t]
  BY DockTypes
<1>3. ASSUME NEW y \in Xfers \ D PROVE Sited(f, y)
  <2>1. Sited(g, y) BY DEF Cared
  <2>2. /\ FileStream(y) \in Streams \ {ListenStream(l)}
        /\ DataStream(y) \in Streams \ {ListenStream(l)}
    BY StreamsFacts, StreamsDiffer
  <2>3. /\ f.consumer[FileStream(y)] = y <=> g.consumer[FileStream(y)] = y
        /\ f.consumer[DataStream(y)] = y <=> g.consumer[DataStream(y)] = y
    BY <1>1, <2>2
  <2>4. /\ f.table[FileStream(y)] = "none" <=> g.table[FileStream(y)] = "none"
        /\ f.table[DataStream(y)] = "none" <=> g.table[DataStream(y)] = "none"
        /\ g.table[DataStream(y)] = "gone" => f.table[DataStream(y)] = "gone"
    BY <1>2, <2>2
  <2>5. Single(g, y) => FileStream(y) \notin f.doomed BY DEF Single
  <2>6. \A m \in Listeners : f.data[m] = y <=> g.data[m] = y BY <1>1
  <2>7. /\ y \in f.begun <=> y \in g.begun
        /\ y \in f.alive <=> y \in g.alive
        /\ y \in f.attached => y \in g.attached
        /\ f.kind[y] = g.kind[y] /\ f.buf[y] = g.buf[y]
        /\ f.in[y] = g.in[y] /\ f.out[y] = g.out[y]
    BY <1>1
  <2>8. y \in Xfers OBVIOUS
  <2> QED BY ONLY <2>1, <2>3, <2>4, <2>5, <2>6, <2>7, <2>8, FrameSited
<1>4. \A y \in Xfers : Sited(f, y) BY <1>3 DEF Sited
<1>5. Living(f)
  <2>1. /\ Ctl \in Streams \ {ListenStream(l)}
        /\ \A m \in Listeners : ListenStream(m) \in Streams
        /\ \A m \in Listeners : ListenStream(m) = ListenStream(l) => m = l
    BY StreamsFacts, StreamsDiffer
  <2>2. Living(g) BY DEF Cared
  <2>3. Control \in f.alive <=> f.consumer[Ctl] = Control
    BY <1>1, <2>1, <2>2 DEF Living
  <2>4. ASSUME NEW m \in Listeners
        PROVE  /\ m \in f.alive <=> f.consumer[ListenStream(m)] = m
               /\ \A t \in Streams : f.consumer[t] = m => t = ListenStream(m)
    BY <1>1, <2>1, <2>2, <2>4 DEF Living
  <2>5. \A t \in Streams : f.table[t] = "gone" => f.consumer[t] = None
    BY <1>2, <2>2 DEF Living
  <2> QED BY <2>3, <2>4, <2>5 DEF Living
<1>6. Known(f) BY <1>1 DEF Cared, Known
<1>7. Unhurried(f) BY DEF Cared, Unhurried
<1> QED BY <1>4, <1>5, <1>6, <1>7 DEF Cared

\* Removing the socket of a listener deletes it, and what is parked in it.
LEMMA ReapListener ==
  ASSUME NEW g, Good(g), Docked(g, {}), Cared(g), NEW s \in g.doomed,
         NEW l \in Listeners, g.consumer[s] = l
  PROVE  Cared([DeleteListener(Unplugged(g, s), l) EXCEPT !.doomed = @ \ {s}])
<1> DEFINE r == Unplugged(g, s)
           freed == FreeListener(r, l)
           n == Notify(freed, l)
           k == Bury(n, l)
           f == [k EXCEPT !.doomed = @ \ {s}]
           D == IF g.data[l] = None THEN {} ELSE {g.data[l]}
<1>1. /\ s \in Streams /\ g \in Heap /\ g.fault = "none"
      /\ g.table[s] # "none" /\ s = ListenStream(l)
  BY DEF Good, Heap, Cared, Docked, Sown, Living
<1>2. /\ r \in Heap
      /\ r.fault = "none" /\ r.alive = g.alive /\ r.attached = g.attached
      /\ r.begun = g.begun /\ r.kind = g.kind /\ r.buf = g.buf
      /\ r.in = g.in /\ r.out = g.out /\ r.data = g.data
      /\ r.listener = g.listener /\ r.clock = g.clock /\ r.xfer = g.xfer
      /\ r.doomed = g.doomed /\ r.closing = g.closing /\ r.armed = g.armed
      /\ r.table = [g.table EXCEPT ![s] = "gone"]
      /\ r.consumer = [g.consumer EXCEPT ![s] = None]
  BY <1>1, UnpluggedFields
<1> HIDE DEF r
<1>3. l # None /\ l \notin Xfers /\ l \in Controlled /\ l # Control
  BY ObjectsDistinct DEF Controlled
<1>4. \A t \in Streams : r.consumer[t] = IF t = s THEN None ELSE g.consumer[t]
  BY <1>1, <1>2, DockTypes
<1>5. freed \in Heap BY <1>2, FreeListenerType
<1>6. l \in g.attached => l = g.listener /\ Control \in g.alive
  BY <1>3, WaitFacts DEF Cared, Known
<1>7. g.data[l] # None =>
        /\ g.data[l] \in Xfers /\ g.data[l] = g.xfer /\ l = g.listener
        /\ Control \in g.alive
        /\ \A m \in Listeners : g.data[m] # None => m = l
  BY WaitFacts
<1>8. D \in SUBSET Xfers BY <1>7
<1>9. /\ freed.fault = "none" /\ freed.alive = g.alive \ D
      /\ freed.attached = g.attached \ D /\ freed.begun = g.begun
      /\ freed.kind = g.kind /\ freed.in = g.in /\ freed.out = g.out
      /\ freed.buf = g.buf /\ freed.clock = g.clock
      /\ freed.doomed = g.doomed /\ freed.table = r.table
      /\ freed.listener = g.listener \/ l = g.listener
      /\ \A t \in Streams : \/ freed.consumer[t] = r.consumer[t]
                            \/ r.consumer[t] \in D /\ freed.consumer[t] = None
      /\ \A x \in D : /\ freed.consumer[FileStream(x)] # x
                      /\ freed.consumer[DataStream(x)] # x
                      /\ x \in g.begun
      /\ \A m \in Listeners :
           freed.data[m] = g.data[m] \/ (g.data[m] \in D /\ freed.data[m] = None)
      /\ (\E m \in Listeners : freed.data[m] # None) =>
           freed.closing = g.closing /\ freed.armed = g.armed
  <2>1. CASE g.data[l] = None
    <3>1. freed = [r EXCEPT !.data[l] = None, !.finished = @ \cup {l}]
      BY <1>2, <2>1 DEF FreeListener
    <3> HIDE DEF freed
    <3>2. /\ freed.fault = r.fault /\ freed.alive = r.alive
          /\ freed.attached = r.attached /\ freed.begun = r.begun
          /\ freed.kind = r.kind /\ freed.in = r.in /\ freed.out = r.out
          /\ freed.buf = r.buf /\ freed.clock = r.clock
          /\ freed.doomed = r.doomed /\ freed.table = r.table
          /\ freed.listener = r.listener /\ freed.consumer = r.consumer
          /\ freed.data = [r.data EXCEPT ![l] = None]
          /\ freed.closing = r.closing /\ freed.armed = r.armed
      BY <1>2, <3>1 DEF Heap
    <3>3. [r.data EXCEPT ![l] = None] = g.data
      BY <1>1, <1>2, <2>1, DockTypes
    <3>4. D = {} BY <2>1
    <3>5. g.alive \ D = g.alive /\ g.attached \ D = g.attached BY <3>4
    <3> HIDE DEF D
    <3> QED BY <1>2, <3>2, <3>3, <3>4, <3>5
  <2>2. CASE g.data[l] # None
    <3> DEFINE x == g.data[l]
               q == DeleteXfer(r, x)
    <3>1. /\ x \in Xfers /\ x = g.xfer /\ l = g.listener
          /\ Control \in g.alive
          /\ \A m \in Listeners : g.data[m] # None => m = l
      BY <1>7, <2>2
    <3>2. Parked(r) /\ x = r.xfer /\ r.listener = l
      BY <1>2, <1>3, <2>2, <3>1 DEF Parked
    <3>3. D = {x} BY <2>2
    <3>4. x # None BY <3>1, ObjectsDistinct
    <3> HIDE DEF D
    <3>5. freed = [q EXCEPT !.data[l] = None, !.finished = @ \cup {l}]
      BY <1>2, <3>4 DEF FreeListener
    <3> HIDE DEF x, q, freed
    <3>6. /\ q \in Heap /\ q.fault = "none" /\ q.alive = r.alive \ {x}
          /\ q.attached = r.attached \ {x} /\ q.begun = r.begun
          /\ q.consumer = Freed(r, x) /\ q.table = r.table
          /\ q.doomed = r.doomed /\ q.kind = r.kind /\ q.in = r.in
          /\ q.out = r.out /\ q.buf = r.buf /\ q.clock = r.clock
          /\ q.data \in {r.data, [r.data EXCEPT ![l] = None]}
      BY <1>2, <3>1, <3>2, DeleteXferFields DEF q
    <3>7. /\ freed.fault = q.fault /\ freed.alive = q.alive
          /\ freed.attached = q.attached /\ freed.begun = q.begun
          /\ freed.kind = q.kind /\ freed.in = q.in /\ freed.out = q.out
          /\ freed.buf = q.buf /\ freed.clock = q.clock
          /\ freed.doomed = q.doomed /\ freed.table = q.table
          /\ freed.consumer = q.consumer
          /\ freed.data = [q.data EXCEPT ![l] = None]
      BY <3>5, <3>6 DEF Heap
    <3>8. \A m \in Listeners :
            freed.data[m] = IF m = l THEN None ELSE g.data[m]
      BY <1>1, <1>2, <3>6, <3>7, DockTypes
    <3>9. \A t \in Streams :
            freed.consumer[t] = IF t \in {r.in[x], r.out[x]}
                                   /\ r.consumer[t] = x
                                THEN None ELSE r.consumer[t]
      BY <3>6, <3>7 DEF Freed
    <3>10. x \in g.alive /\ x \in g.begun /\ Unjoined(g, x)
           /\ g.consumer[DataStream(x)] # x
      <4>1. x \in g.alive /\ Unjoined(g, x) /\ g.consumer[DataStream(x)] # x
        BY <2>2, <3>1, WaitFacts
      <4>2. ~Over(g, x) BY <4>1 DEF Over
      <4>3. ~Untried(g, x) BY DEF Untried, Waits, x
      <4> QED BY <3>1, <4>1, <4>2, <4>3 DEF Cared, Sited
    <3>11. FileStream(x) \in Streams \ {s} /\ DataStream(x) \in Streams \ {s}
      BY <1>1, <3>1, StreamsFacts, StreamsDiffer
    <3>12. freed.consumer[DataStream(x)] # x
      BY <1>4, <3>4, <3>9, <3>10, <3>11
    <3>13. freed.consumer[FileStream(x)] # x
      <4>1. CASE g.kind[x] = "list"
        <5>1. g.consumer[FileStream(x)] # x
          BY <1>1, <3>1, <3>11, <4>1, StreamsDiffer DEF Docked, Held
        <5> QED BY <1>4, <3>4, <3>9, <3>11, <5>1
      <4>2. CASE g.kind[x] # "list"
        <5>1. FileStream(x) \in {r.in[x], r.out[x]}
          BY <1>2, <3>10, <4>2 DEF Unjoined
        <5> QED BY <3>4, <3>9, <3>11, <5>1
      <4> QED BY <4>1, <4>2
    <3>14. \A m \in Listeners : freed.data[m] = None BY <3>1, <3>8
    <3>15. /\ freed.fault = "none" /\ freed.alive = g.alive \ {x}
           /\ freed.attached = g.attached \ {x} /\ freed.begun = g.begun
           /\ freed.kind = g.kind /\ freed.in = g.in /\ freed.out = g.out
           /\ freed.buf = g.buf /\ freed.clock = g.clock
           /\ freed.doomed = g.doomed /\ freed.table = r.table
      BY <1>2, <3>6, <3>7
    <3>16. \A t \in Streams : \/ freed.consumer[t] = r.consumer[t]
                              \/ r.consumer[t] = x /\ freed.consumer[t] = None
      BY <3>9
    <3>17. \A m \in Listeners :
             freed.data[m] = g.data[m] \/ (g.data[m] = x /\ freed.data[m] = None)
      <4>1. x = g.data[l] BY DEF x
      <4>2. ASSUME NEW m \in Listeners
            PROVE  freed.data[m] = g.data[m]
                     \/ (g.data[m] = x /\ freed.data[m] = None)
        BY <3>8, <4>1
      <4> QED BY <4>2
    <3> QED BY <3>1, <3>3, <3>10, <3>12, <3>13, <3>14, <3>15, <3>16, <3>17
  <2> QED BY <2>1, <2>2
<1> HIDE DEF freed, D
<1>10. l \in freed.attached => Control \in freed.alive
  BY <1>6, <1>8, <1>9, ObjectsDistinct
<1>11. /\ n.fault = "none" /\ n.begun = freed.begun /\ n.clock = freed.clock
       /\ n.attached = freed.attached \ {l}
       /\ \/ n.closing = freed.closing /\ n.armed = freed.armed
          \/ l = freed.xfer
  BY <1>3, <1>5, <1>9, <1>10, NotifyRest
<1>25. n.fault = "none" BY <1>11
<1>12. l # freed.xfer BY <1>3, <1>5, DockTypes
<1>13. /\ n.kind = freed.kind /\ n.in = freed.in /\ n.out = freed.out
       /\ n.buf = freed.buf
       /\ n.consumer = freed.consumer /\ n.table = freed.table
       /\ n.doomed = freed.doomed /\ n.alive = freed.alive
       /\ n.data = freed.data
       /\ n.listener = freed.listener \/ l = freed.listener
  BY <1>3, <1>5, <1>25, <1>12, NotifyFields
<1>14. n \in Heap BY <1>3, <1>5, NotifyType
<1> HIDE DEF n
<1>15. /\ k \in Heap /\ k.fault = n.fault /\ k.alive = n.alive \ {l}
       /\ k.attached = n.attached /\ k.begun = n.begun
       /\ k.consumer = n.consumer /\ k.table = n.table
       /\ k.doomed = n.doomed /\ k.kind = n.kind /\ k.in = n.in
       /\ k.out = n.out /\ k.buf = n.buf /\ k.clock = n.clock
       /\ k.data = n.data /\ k.listener = n.listener
       /\ k.closing = n.closing /\ k.armed = n.armed
  BY <1>14 DEF Bury, Heap
<1> HIDE DEF k
<1>16. /\ f.fault = k.fault /\ f.alive = k.alive /\ f.attached = k.attached
       /\ f.begun = k.begun /\ f.consumer = k.consumer /\ f.table = k.table
       /\ f.doomed = k.doomed \ {s} /\ f.kind = k.kind /\ f.in = k.in
       /\ f.out = k.out /\ f.buf = k.buf /\ f.clock = k.clock
       /\ f.data = k.data /\ f.listener = k.listener
       /\ f.closing = k.closing /\ f.armed = k.armed
  BY <1>15 DEF Heap
<1> HIDE DEF f
<1>17. /\ f.fault = "none" /\ f.alive = g.alive \ ({l} \cup D)
       /\ f.attached = g.attached \ ({l} \cup D) /\ f.begun = g.begun
       /\ f.kind = g.kind /\ f.in = g.in /\ f.out = g.out /\ f.buf = g.buf
       /\ f.clock = g.clock
       /\ f.listener = g.listener \/ l = g.listener
       /\ f.table = [g.table EXCEPT ![ListenStream(l)] = "gone"]
       /\ f.doomed \subseteq g.doomed
  BY <1>1, <1>2, <1>9, <1>11, <1>12, <1>13, <1>15, <1>16
<1>23. /\ f.consumer = freed.consumer /\ f.data = freed.data
       /\ f.closing = freed.closing /\ f.armed = freed.armed
  BY <1>11, <1>12, <1>13, <1>15, <1>16
<1>18. \A x \in D : Over(f, x) BY <1>9, <1>17, <1>23 DEF Over
<1>19. \A t \in Streams : \/ f.consumer[t] = g.consumer[t]
                          \/ g.consumer[t] \in D /\ f.consumer[t] = None
                          \/ t = ListenStream(l)
  BY <1>1, <1>4, <1>9, <1>23
<1>20. f.consumer[ListenStream(l)] = None
  BY <1>1, <1>4, <1>9, <1>23
<1>21. /\ \A m \in Listeners :
            f.data[m] = g.data[m] \/ (g.data[m] \in D /\ f.data[m] = None)
       /\ (\E m \in Listeners : f.data[m] # None) =>
            f.closing = g.closing /\ f.armed = g.armed
  BY <1>9, <1>23
<1>22. Orphaned(f, g, l, D)
  BY <1>17, <1>18, <1>19, <1>20, <1>21 DEF Orphaned
<1>24. Cared(f) BY <1>1, <1>8, <1>22, ListenerGone
<1> QED BY <1>24 DEF f, k, n, freed, r, DeleteListener

\* StreamTable::do_remove, whoever consumes the stream.
LEMMA ReapCared ==
  ASSUME NEW g, Good(g), Docked(g, {}), Cared(g), NEW s \in g.doomed
  PROVE  Cared(DoRemove(g, s))
<1> DEFINE d == [g EXCEPT !.table[s] = "gone"]
           c == g.consumer[s]
<1>1. /\ s \in Streams /\ g \in Heap /\ g.table[s] # "none"
      /\ c \in Contexts \cup {None}
  BY DockTypes DEF Good, Heap, Cared, Docked, Sown
<1>2. /\ d \in Heap /\ d.consumer = g.consumer /\ d.alive = g.alive
      /\ d.table = [g.table EXCEPT ![s] = "gone"]
  BY <1>1 DEF Heap
<1>3. [d EXCEPT !.consumer[s] = None] = Unplugged(g, s)
  BY <1>1 DEF Unplugged, Heap
<1>4. c # None => c \in g.alive BY <1>1, ConsumersAlive
<1>5. DoRemove(g, s) = [FreeStream(d, s) EXCEPT !.doomed = @ \ {s}]
  BY DEF DoRemove
<1>6. CASE c = None
  <2> DEFINE f == [d EXCEPT !.doomed = @ \ {s}]
  <2>1. DoRemove(g, s) = f BY <1>2, <1>5, <1>6 DEF FreeStream
  <2>2. /\ d.fault = g.fault /\ d.attached = g.attached /\ d.begun = g.begun
        /\ d.kind = g.kind /\ d.in = g.in /\ d.out = g.out /\ d.buf = g.buf
        /\ d.data = g.data /\ d.listener = g.listener /\ d.clock = g.clock
        /\ d.doomed = g.doomed /\ d.closing = g.closing /\ d.armed = g.armed
    BY <1>1 DEF Heap
  <2> HIDE DEF d
  <2>3. /\ f.fault = d.fault /\ f.attached = d.attached /\ f.begun = d.begun
        /\ f.kind = d.kind /\ f.in = d.in /\ f.out = d.out /\ f.buf = d.buf
        /\ f.data = d.data /\ f.listener = d.listener /\ f.clock = d.clock
        /\ f.doomed = d.doomed \ {s}
        /\ f.closing = d.closing /\ f.armed = d.armed
        /\ f.consumer = d.consumer /\ f.alive = d.alive /\ f.table = d.table
    BY <1>2 DEF Heap
  <2> HIDE DEF f
  <2>4. \A t \in Streams :
          f.table[t] = IF t = s THEN "gone" ELSE g.table[t]
    BY <1>1, <1>2, <2>3, DockTypes
  <2>5. ASSUME NEW x \in Xfers PROVE Sited(f, x)
    <3>1. Sited(g, x) BY DEF Cared
    <3>2. FileStream(x) \in Streams /\ DataStream(x) \in Streams
      BY StreamsFacts
    <3>3. \A t \in Streams :
            /\ f.table[t] = "none" <=> g.table[t] = "none"
            /\ g.table[t] = "gone" => f.table[t] = "gone"
      BY <1>1, <2>4
    <3>4. Single(g, x) => FileStream(x) \notin f.doomed
      BY <2>2, <2>3 DEF Single
    <3>5. /\ x \in f.begun <=> x \in g.begun
          /\ x \in f.alive <=> x \in g.alive
          /\ x \in f.attached => x \in g.attached
          /\ f.kind[x] = g.kind[x] /\ f.buf[x] = g.buf[x]
          /\ f.in[x] = g.in[x] /\ f.out[x] = g.out[x]
          /\ f.consumer = g.consumer /\ f.data = g.data
      BY <1>2, <2>2, <2>3
    <3> QED BY <3>1, <3>2, <3>3, <3>4, <3>5, FrameSited
  <2>6. Living(f) BY <1>2, <1>6, <2>3, <2>4 DEF Cared, Living
  <2>7. Known(f) /\ Unhurried(f)
    BY <1>2, <2>2, <2>3 DEF Cared, Known, Unhurried
  <2>8. f.fault = "none" /\ \A x \in Xfers : f.clock[x] = "off"
    BY <2>2, <2>3 DEF Cared
  <2>9. Cared(f) BY <2>5, <2>6, <2>7, <2>8 DEF Cared
  <2> QED BY <2>1, <2>9
<1> DEFINE r == Unplugged(g, s)
<1> HIDE DEF d, r
<1>7. c # None =>
        FreeStream(d, s) =
          IF c = Control THEN DeleteControl(r)
          ELSE IF c \in Listeners THEN DeleteListener(r, c)
          ELSE XferHungup(r, c, s)
  BY <1>2, <1>3, <1>4 DEF FreeStream, r
<1>8. CASE c = Control
  <2>1. s = Ctl BY <1>1, <1>8 DEF Cared, Docked, Held
  <2>2. Control # None BY ObjectsDistinct
  <2> QED BY <1>5, <1>7, <1>8, <2>1, <2>2, ReapControl DEF r
<1>9. CASE c \in Listeners
  <2>1. c # None /\ c # Control BY <1>9, ObjectsDistinct
  <2> QED BY <1>5, <1>7, <1>9, <2>1, ReapListener DEF r
<1>10. CASE c \in Xfers
  <2>1. c # None /\ c # Control /\ c \notin Listeners
    BY <1>10, ObjectsDistinct
  <2> QED BY <1>5, <1>7, <1>10, <2>1, ReapXfer DEF r
<1> QED BY <1>1, <1>6, <1>8, <1>9, <1>10 DEF Contexts, Controlled

---------------------------------------------------------------------------
\* The session ends only after the control stream has been served.
Prompt ==
  Ctl \in h.doomed => /\ phase # "poll"
                      /\ phase = "batch" => Ctl \notin todo

Patient == Cared(h) /\ Prompt

LEMMA InitPatient == Init => Patient
<1> SUFFICES ASSUME Init PROVE Patient
  OBVIOUS
<1>1. /\ h.alive = {Control} /\ h.attached = {} /\ h.doomed = {}
      /\ h.begun = {} /\ h.fault = "none" /\ h.listener = None
      /\ h.consumer =
           [s \in Streams |-> IF s = Ctl THEN Control ELSE None]
      /\ h.table = [s \in Streams |-> IF s = Ctl THEN "in" ELSE "none"]
      /\ h.data = [l \in Listeners |-> None]
      /\ h.kind = [x \in Xfers |-> "none"]
      /\ h.clock = [x \in Xfers |-> "off"]
  BY DEF Init, EmptyHeap
<1>2. \A x \in Xfers : Sited(h, x)
  BY <1>1, ObjectsDistinct, StreamsFacts, StreamsDiffer
  DEF Sited, Untried, Waits
<1>3. Living(h)
  <2>1. \A s \in Streams :
          /\ h.consumer[s] = IF s = Ctl THEN Control ELSE None
          /\ h.table[s] # "gone"
    BY <1>1
  <2>2. /\ Ctl \in Streams
        /\ \A l \in Listeners : ListenStream(l) \in Streams \ {Ctl}
    BY StreamsFacts, StreamsDiffer
  <2>3. \A l \in Listeners : l # Control /\ l # None BY ObjectsDistinct
  <2> QED BY <1>1, <2>1, <2>2, <2>3 DEF Living
<1>4. Known(h) /\ Unhurried(h) BY <1>1 DEF Known, Unhurried
<1>5. Prompt BY <1>1 DEF Prompt
<1> QED BY <1>1, <1>2, <1>3, <1>4, <1>5 DEF Patient, Cared

\* No transfer waits for its data connection.
Idle(g) == \A l \in Listeners : g.data[l] = None

LEMMA MinorCared ==
  ASSUME NEW g, Cared(g), NEW f, SameCare(f, g), f.doomed = g.doomed,
         (f.closing = g.closing /\ f.armed = g.armed) \/ Idle(g)
  PROVE  Cared(f)
<1>1. \A x \in Xfers : Single(g, x) => FileStream(x) \notin f.doomed
  BY DEF Single
<1>2. \A l \in Listeners : g.data[l] # None =>
        ~f.closing /\ f.armed = "off" /\ Ctl \notin f.doomed
  BY DEF Cared, Unhurried, Idle
<1> QED BY <1>1, <1>2, FrameCared

LEMMA SayCared ==
  ASSUME NEW g \in Heap, Cared(g)
  PROVE  /\ Cared(Say(g)) /\ Cared(StartClock(g))
         /\ Idle(g) => Cared(Error(g))
<1>1. SameCare(Say(g), g) /\ Say(g).doomed = g.doomed
      /\ Say(g).closing = g.closing /\ Say(g).armed = g.armed
  BY DEF Say, SameCare, Heap
<1>2. SameCare(StartClock(g), g) /\ StartClock(g).doomed = g.doomed
      /\ StartClock(g).closing = g.closing
  BY DEF StartClock, SameCare, Heap
<1>3. StartClock(g).armed = g.armed \/ g.armed = "set"
  BY DEF StartClock, Heap
<1>4. SameCare(Error(g), g) /\ Error(g).doomed = g.doomed
  BY DEF Error, Say, SameCare, Heap
<1>5. g.armed # "off" => Idle(g) BY DEF Cared, Unhurried, Idle
<1>6. Cared(Say(g)) BY <1>1, MinorCared
<1>7. Cared(StartClock(g)) BY <1>2, <1>3, <1>5, MinorCared
<1> QED BY <1>4, <1>6, <1>7, MinorCared

LEMMA LoopPatient == Inv /\ Moored /\ Patient /\ LoopStep => Patient'
<1> SUFFICES ASSUME Inv, Moored, Patient, LoopStep PROVE Patient'
  OBVIOUS
<1>1. Good(h) /\ Docked(h, {}) /\ Cared(h) /\ h \in Heap
  BY DEF Inv, TypeOK, Good, Moored, Patient
<1>2. CASE Sow
  <2>1. h' = [h EXCEPT !.table = [s \in Streams |->
                 IF h.table[s] = "added" THEN "in" ELSE h.table[s]]]
    BY <1>2 DEF Sow
  <2>2. /\ h'.fault = h.fault /\ h'.alive = h.alive
        /\ h'.attached = h.attached /\ h'.begun = h.begun
        /\ h'.consumer = h.consumer /\ h'.kind = h.kind /\ h'.in = h.in
        /\ h'.out = h.out /\ h'.buf = h.buf /\ h'.data = h.data
        /\ h'.listener = h.listener /\ h'.clock = h.clock
        /\ h'.doomed = h.doomed /\ h'.closing = h.closing
        /\ h'.armed = h.armed
    BY <1>1, <2>1 DEF Heap
  <2>3. \A s \in Streams :
          h'.table[s] = IF h.table[s] = "added" THEN "in" ELSE h.table[s]
    BY <1>1, <2>1 DEF Heap
  <2>4. ASSUME NEW x \in Xfers PROVE Sited(h', x)
    <3>1. Sited(h, x) BY <1>1 DEF Cared
    <3>2. FileStream(x) \in Streams /\ DataStream(x) \in Streams
      BY StreamsFacts
    <3>3. \A t \in Streams :
            /\ h'.table[t] = "none" <=> h.table[t] = "none"
            /\ h.table[t] = "gone" => h'.table[t] = "gone"
      BY <2>3
    <3>4. Single(h, x) => FileStream(x) \notin h'.doomed
      BY <2>2 DEF Single
    <3> QED BY <2>2, <3>1, <3>2, <3>3, <3>4, FrameSited
  <2>5. Living(h') BY <1>1, <2>2, <2>3 DEF Cared, Living
  <2>6. Known(h') /\ Unhurried(h')
    BY <1>1, <2>2 DEF Cared, Known, Unhurried
  <2>7. Cared(h') BY <1>1, <2>2, <2>4, <2>5, <2>6 DEF Cared
  <2> QED BY <1>2, <2>7 DEF Sow, Patient, Prompt
<1>3. ASSUME NEW s \in Streams, Reap(s) PROVE Patient'
  <2>1. Cared(h') BY <1>1, <1>3, ReapCared DEF Reap
  <2> QED BY <1>3, <2>1 DEF Reap, Patient, Prompt
<1>4. CASE StartPrepare BY <1>4 DEF StartPrepare, Patient, Prompt
<1>5. CASE EndPrepare
  <2>1. h' = [h EXCEPT !.clock = [x \in Xfers |->
                IF h.clock[x] = "set" THEN "on" ELSE h.clock[x]]]
    BY <1>5 DEF EndPrepare
  <2>2. [x \in Xfers |-> IF h.clock[x] = "set" THEN "on" ELSE h.clock[x]]
          = h.clock
    BY <1>1 DEF Cared, Heap
  <2>3. h' = h BY <1>1, <2>1, <2>2 DEF Heap
  <2> QED BY <1>1, <1>5, <2>3 DEF EndPrepare, Patient, Prompt
<1>6. CASE Poll BY <1>6 DEF Poll, Patient, Prompt
<1>7. CASE EndBatch BY <1>7 DEF EndBatch, Patient, Prompt
<1> QED BY <1>2, <1>3, <1>4, <1>5, <1>6, <1>7 DEF LoopStep

LEMMA PreparePatient ==
  Inv /\ Moored /\ Patient /\ ~XferTimeout /\ Prepare => Patient'
<1> SUFFICES ASSUME Inv, Moored, Patient, ~XferTimeout, Prepare
             PROVE  Patient'
  OBVIOUS
<1>1. Good(h) /\ Docked(h, {}) /\ Cared(h) /\ h \in Heap
  BY DEF Inv, TypeOK, Good, Moored, Patient
<1>2. phase = "prepare" /\ phase' = phase
  BY DEF Prepare, PrepareOrphan, PrepareListener, PrepareXfer, XferTimesOut,
         PrepareControl, ControlTimesOut, Preparing
<1>3. \A s \in todo : s \in Streams /\ h.table[s] # "none"
  BY <1>1, <1>2 DEF Moored, Running, Cared, Swept, Tabled
<1>4. \A l \in Listeners : h.data[l] # None => h.data[l] = h.xfer
  BY <1>1, WaitFacts
<1>5. Ctl \in Tabled(h) => h.consumer[Ctl] = Control BY <1>1, WaitFacts
<1>6. h.armed # "off" => Idle(h) BY <1>1 DEF Cared, Unhurried, Idle
<1>7. ASSUME NEW s \in Streams, PrepareOrphan(s) PROVE Cared(h')
  <2>1. s \in todo /\ h.consumer[s] \notin h.alive
    BY <1>7 DEF PrepareOrphan, Preparing
  <2>2. h.consumer[s] = None BY <1>1, <1>3, <2>1, ConsumersAlive
  <2> QED BY <1>1, <1>7, <2>2 DEF PrepareOrphan
<1>8. ASSUME PrepareControl PROVE Cared(h')
  BY <1>1, <1>8, SayCared DEF PrepareControl
<1>9. ASSUME ControlTimesOut PROVE Cared(h')
  <2>1. Idle(h) BY <1>6, <1>9 DEF ControlTimesOut
  <2>2. Cared(Error(h)) BY <1>1, <2>1, SayCared
  <2>3. Cared(Remove(h, Control))
    BY <1>1, <2>1, RemoveCared, ObjectsDistinct DEF Idle
  <2> QED BY <1>9, <2>2, <2>3 DEF ControlTimesOut
<1>10. ASSUME NEW s \in Streams, PrepareListener(s) PROVE Cared(h')
  <2>1. h.consumer[s] \in Listeners /\ h.consumer[s] \notin Xfers
        /\ h.consumer[s] # Control
    BY <1>10, ObjectsDistinct DEF PrepareListener
  <2>2. Cared(Remove(h, h.consumer[s]))
    BY <1>1, <1>5, <2>1, RemoveCared
  <2> QED BY <1>1, <1>10, <2>2 DEF PrepareListener
<1>11. ASSUME NEW s \in Streams, PrepareXfer(s) PROVE Cared(h')
  <2> DEFINE x == h.consumer[s]
  <2>1. x \in Xfers /\ s \in todo BY <1>11 DEF PrepareXfer, Preparing
  <2>2. /\ h.kind[x] # "list" => Cared(Adopt(h, x, s))
        /\ x \in h.begun
    BY <1>1, <1>3, <2>1, AdoptCared, ConsumingXfer
  <2>3. h.kind[x] = "list" => ~Waits(h, x) /\ ~Single(h, x)
    <3>1. ASSUME h.kind[x] = "list" PROVE s = DataStream(x)
      BY <1>1, <1>3, <2>1, <3>1, ConsumingXfer
    <3>2. ASSUME h.kind[x] = "list" PROVE ~Single(h, x)
      <4>1. h.consumer[FileStream(x)] # x
        BY <1>1, <2>1, <3>2, StreamsFacts, StreamsDiffer
        DEF Docked, Cared, Held
      <4> QED BY <4>1 DEF Single
    <3> QED BY <1>1, <1>3, <2>1, <3>1, <3>2, ConsumingXfer
  <2>4. h.kind[x] = "list" => Cared(Complete(h, x))
    BY <1>1, <1>4, <1>5, <2>2, <2>3, CompleteCared
  <2> QED BY <1>1, <1>11, <2>2, <2>4 DEF PrepareXfer
<1>12. ASSUME NEW s \in Streams, XferTimesOut(s) PROVE FALSE
  BY <1>1, <1>12 DEF XferTimesOut, Cared
<1>13. Cared(h')
  BY <1>7, <1>8, <1>9, <1>10, <1>11, <1>12 DEF Prepare
<1> QED BY <1>2, <1>13 DEF Patient, Prompt

\* A client that is not hasty interferes only when no transfer waits.
LEMMA Unhasty ==
  ASSUME Good(h), Docked(h, {}), Cared(h), ~Hasty, ClientMayInterfere
  PROVE  /\ Idle(h)
         /\ h.xfer # None =>
              \/ h.kind[h.xfer] = "list"
              \/ h.in[h.xfer] # None /\ h.out[h.xfer] # None
<1>1. h.xfer \in Xfers \cup {None} BY DockTypes DEF Good
<1>2. h.xfer # None => Flowing(h.xfer)
  BY <1>1 DEF ClientMayInterfere
<1>3. \A l \in Listeners : h.data[l] # None =>
        h.data[l] = h.xfer /\ h.table[DataStream(h.xfer)] = "none"
  BY WaitFacts
<1> QED BY <1>2, <1>3 DEF Flowing, Idle

\* What else Begin and NewXfer change.
LEMMA BeginRest ==
  ASSUME NEW g \in Heap, NEW x \in Xfers
  PROVE  LET b == Begin(g, x) IN
         /\ b.attached = g.attached /\ b.begun = g.begun \cup {x}
         /\ b.clock = g.clock /\ b.closing = g.closing /\ b.armed = "off"
         /\ g.kind[x] # "list" => b.table[FileStream(x)] = "added"
<1> DEFINE b == Begin(g, x)
           said == Say(g)
           a == [said EXCEPT !.xfer = x, !.armed = "off", !.begun = @ \cup {x}]
           in == IF g.kind[x] = "list" THEN said.table[FileStream(x)]
                 ELSE "added"
           table == [said.table EXCEPT ![FileStream(x)] = in]
<1>1. /\ said \in Heap /\ said.attached = g.attached
      /\ said.begun = g.begun /\ said.clock = g.clock
      /\ said.closing = g.closing /\ said.table = g.table
  BY DEF Say, Heap
<1> HIDE DEF said
<1>2. /\ a.attached = said.attached /\ a.begun = said.begun \cup {x}
      /\ a.clock = said.clock /\ a.closing = said.closing
      /\ a.armed = "off" /\ a.table = said.table
  BY <1>1 DEF Heap
<1>3. b = [a EXCEPT !.table = table]
  <2>1. b = [a EXCEPT !.table[FileStream(x)] =
                        IF g.kind[x] = "list" THEN @ ELSE "added"]
    BY DEF Begin, said
  <2> HIDE DEF a, b
  <2> QED BY <1>2, <2>1
<1>4. DOMAIN a = DOMAIN said BY DEF Heap
<1>5. "table" \in DOMAIN a BY <1>1, <1>4 DEF Heap
<1>6. g.kind[x] # "list" => table[FileStream(x)] = "added"
  BY <1>1, DockTypes, StreamsFacts
<1> HIDE DEF a, b, table
<1>7. /\ b.attached = a.attached /\ b.begun = a.begun /\ b.clock = a.clock
      /\ b.closing = a.closing /\ b.armed = a.armed /\ b.table = table
  BY <1>3, <1>5
<1> QED BY <1>1, <1>2, <1>6, <1>7 DEF b

LEMMA NewXferRest ==
  ASSUME NEW g \in Heap, NEW x \in Xfers, NEW kind \in Kinds \ {"none"}
  PROVE  LET n == NewXfer(g, x, kind) IN
         /\ n.attached = g.attached \cup {x} /\ n.begun = g.begun
         /\ n.clock = g.clock /\ n.closing = g.closing /\ n.armed = g.armed
BY DEF NewXfer, Heap

\* The new transfer x.
Launched(f, g, x) ==
  /\ f.fault = "none" /\ f.alive = g.alive \cup {x}
  /\ f.attached = g.attached \cup {x}
  /\ f.begun = g.begun \/ (f.begun = g.begun \cup {x} /\ Control \in g.alive)
  /\ \A t \in Streams \ {FileStream(x), DataStream(x)} :
       f.consumer[t] = g.consumer[t] /\ f.table[t] = g.table[t]
  /\ \A t \in {FileStream(x), DataStream(x)} :
       /\ f.consumer[t] \in {g.consumer[t], x}
       /\ f.table[t] \in {g.table[t], "added"}
  /\ \A y \in Xfers \ {x} :
       /\ f.kind[y] = g.kind[y] /\ f.in[y] = g.in[y]
       /\ f.out[y] = g.out[y] /\ f.buf[y] = g.buf[y]
  /\ \A l \in Listeners : f.data[l] \in {g.data[l], x}
  /\ f.clock = g.clock /\ f.doomed = g.doomed /\ f.listener = g.listener

LEMMA LaunchCared ==
  ASSUME NEW g \in Heap, Cared(g), Idle(g), NEW x \in Xfers, Untried(g, x),
         NEW f, Launched(f, g, x), Sited(f, x), Unhurried(f)
  PROVE  Cared(f)
<1> USE DEF Launched
<1>1. /\ Control \notin Xfers \cup Listeners /\ None # Control
      /\ \A y \in Xfers : y # None /\ y \notin Listeners
      /\ \A m \in Listeners : m # None /\ m \notin Xfers
  BY ObjectsDistinct
<1>2. ASSUME NEW y \in Xfers \ {x} PROVE Sited(f, y)
  <2>1. Sited(g, y) /\ y \in Xfers BY DEF Cared
  <2>2. /\ FileStream(y) \in Streams \ {FileStream(x), DataStream(x)}
        /\ DataStream(y) \in Streams \ {FileStream(x), DataStream(x)}
    BY StreamsFacts, StreamsDiffer
  <2>3. /\ f.consumer[FileStream(y)] = g.consumer[FileStream(y)]
        /\ f.consumer[DataStream(y)] = g.consumer[DataStream(y)]
        /\ f.table[FileStream(y)] = g.table[FileStream(y)]
        /\ f.table[DataStream(y)] = g.table[DataStream(y)]
    BY <2>2
  <2>4. Single(g, y) => FileStream(y) \notin f.doomed BY DEF Single
  <2>5. \A l \in Listeners : f.data[l] = y <=> g.data[l] = y
    BY <1>1 DEF Idle
  <2>6. /\ y \in f.begun <=> y \in g.begun
        /\ y \in f.alive <=> y \in g.alive
        /\ y \in f.attached => y \in g.attached
        /\ f.kind[y] = g.kind[y] /\ f.buf[y] = g.buf[y]
        /\ f.in[y] = g.in[y] /\ f.out[y] = g.out[y]
    OBVIOUS
  <2> QED BY ONLY <2>1, <2>3, <2>4, <2>5, <2>6, FrameSited
<1>3. Living(f)
  <2>1. /\ Ctl \in Streams \ {FileStream(x), DataStream(x)}
        /\ \A l \in Listeners :
             ListenStream(l) \in Streams \ {FileStream(x), DataStream(x)}
        /\ FileStream(x) \in Streams /\ DataStream(x) \in Streams
    BY StreamsFacts, StreamsDiffer
  <2>2. Living(g) BY DEF Cared
  <2>3. \A c \in {Control} \cup Listeners : \A t \in Streams :
          f.consumer[t] = c => g.consumer[t] = c
    BY <1>1, <2>1
  <2>4. \A c \in {Control} \cup Listeners : c \in f.alive <=> c \in g.alive
    BY <1>1
  <2>5. \A t \in Streams : f.table[t] = "gone" => f.consumer[t] = None
    BY <2>1, <2>2 DEF Living, Untried
  <2>6. /\ f.consumer[Ctl] = g.consumer[Ctl]
        /\ \A l \in Listeners :
             f.consumer[ListenStream(l)] = g.consumer[ListenStream(l)]
    BY <2>1
  <2> QED BY <2>2, <2>3, <2>4, <2>5, <2>6 DEF Living
<1>4. Known(f)
  <2>1. Known(g) /\ x \notin g.begun BY DEF Cared, Untried
  <2> QED BY <1>1, <2>1 DEF Known
<1>5. \A y \in Xfers : Sited(f, y) BY <1>2
<1> QED BY <1>3, <1>4, <1>5 DEF Cared

\* A transfer starts in a session that goes on.
LEMMA TransferCared ==
  ASSUME Inv, Moored, Patient, NEW kind \in Kinds \ {"none"}, Transfer(kind)
  PROVE  Cared(h')
<1>1. Good(h) /\ Cared(h) /\ h \in Heap /\ h.fault = "none"
  BY DEF Inv, TypeOK, Good, Patient, Cared
<1>2. Docked(h, {}) /\ Held(h) /\ Sown(h)
  BY <1>1 DEF Moored, Docked
<1>3. /\ phase = "batch" /\ Ctl \in todo /\ ~h.closing /\ h.xfer = None
  BY DEF Transfer, Command, Serving
<1>4. Ctl \notin h.doomed BY <1>3 DEF Patient, Prompt
<1>5. Control \in h.alive
  BY <1>1, <1>2, <1>3, WaitFacts DEF Moored, Running, Swept
<1>6. Idle(h)
  BY <1>1, <1>2, <1>3, WaitFacts, ObjectsDistinct DEF Idle
<1>7. PICK x \in Xfers :
        /\ h.kind[x] = "none"
        /\ LET new == NewXfer(h, x, kind) IN
           IF h.listener # None
           THEN h' = Begin([new EXCEPT !.data[h.listener] = x], x)
           ELSE \/ h' = Begin([new EXCEPT !.consumer[DataStream(x)] = x,
                                          !.table[DataStream(x)] = "added"], x)
                \/ h' = Error(new)
  BY DEF Transfer
<1> DEFINE new == NewXfer(h, x, kind)
           parked == [new EXCEPT !.data[h.listener] = x]
           active == [new EXCEPT !.consumer[DataStream(x)] = x,
                                 !.table[DataStream(x)] = "added"]
           F == FileStream(x)
           D == DataStream(x)
           file == IF kind = "list" THEN None ELSE F
<1>8. F \in Streams /\ D \in Streams /\ F # D /\ None \notin Streams
  BY StreamsFacts, StreamsDiffer, StreamsNotNull
<1>9. Untried(h, x)
  <2>1. x \notin h.begun
    BY <1>1, <1>5, <1>7 DEF Good, Consistent
  <2> QED BY <1>1, <1>7, <2>1 DEF Cared, Sited, Over
<1>10. /\ h.table[F] = "none" /\ h.table[D] = "none"
       /\ F \notin h.doomed /\ h.buf[x] # "full"
       /\ \A t \in Streams : h.consumer[t] # x
  BY <1>2, <1>7, <1>8, <1>9 DEF Untried, Sown, Held
<1>19. /\ new.fault = h.fault /\ new.listener = h.listener
       /\ new.xfer = h.xfer /\ new.data = h.data
       /\ new.kind = [h.kind EXCEPT ![x] = kind]
       /\ new.in = [h.in EXCEPT ![x] = IF kind = "retr" THEN file ELSE None]
       /\ new.out = [h.out EXCEPT ![x] = IF kind = "stor" THEN file ELSE None]
       /\ new.consumer =
            [s \in Streams |-> IF s = file THEN x ELSE h.consumer[s]]
       /\ new.buf = h.buf /\ new.table = h.table
       /\ new.doomed = h.doomed /\ new.alive = h.alive \cup {x}
  BY <1>1, NewXferFields
<1>11. /\ new.fault = h.fault /\ new.listener = h.listener
       /\ new.xfer = h.xfer /\ new.data = h.data
       /\ new.buf = h.buf /\ new.table = h.table
       /\ new.doomed = h.doomed /\ new.alive = h.alive \cup {x}
       /\ new.attached = h.attached \cup {x} /\ new.begun = h.begun
       /\ new.clock = h.clock /\ new.closing = h.closing
       /\ new.armed = h.armed
  <2>2. /\ new.attached = h.attached \cup {x} /\ new.begun = h.begun
        /\ new.clock = h.clock /\ new.closing = h.closing
        /\ new.armed = h.armed
    BY <1>1, NewXferRest
  <2> QED BY <1>19, <2>2
<1>12. /\ \A y \in Xfers \ {x} :
            /\ new.kind[y] = h.kind[y] /\ new.in[y] = h.in[y]
            /\ new.out[y] = h.out[y]
       /\ new.kind[x] = kind
       /\ new.in[x] = IF kind = "retr" THEN file ELSE None
       /\ new.out[x] = IF kind = "stor" THEN file ELSE None
       /\ \A t \in Streams :
            new.consumer[t] = IF t = file THEN x ELSE h.consumer[t]
  <2> HIDE DEF new, file
  <2>1. /\ h.kind \in [Xfers -> Kinds]
        /\ h.in \in [Xfers -> Streams \cup {None}]
        /\ h.out \in [Xfers -> Streams \cup {None}]
    BY <1>1, DockTypes
  <2> QED BY <1>19, <2>1
<1>13. new \in Heap
  BY <1>1, <1>7, NewXferGood DEF Good
<1> HIDE DEF new
\* What every outcome has in common.
<1> DEFINE Shared(f) ==
      /\ f.fault = "none" /\ f.alive = new.alive /\ f.attached = new.attached
      /\ f.kind = new.kind /\ f.in = new.in /\ f.out = new.out
      /\ f.buf = new.buf /\ f.clock = new.clock /\ f.doomed = new.doomed
      /\ f.listener = new.listener
      /\ \A l \in Listeners : f.data[l] \in {h.data[l], x}
      /\ \A t \in Streams \ {F, D} :
           f.consumer[t] = h.consumer[t] /\ f.table[t] = h.table[t]
      /\ \A t \in {F, D} : /\ f.consumer[t] \in {h.consumer[t], x}
                           /\ f.table[t] \in {h.table[t], "added"}
<1>14. ASSUME NEW f, Shared(f),
              f.begun = h.begun \/ f.begun = h.begun \cup {x}
       PROVE  Launched(f, h, x)
  BY <1>5, <1>11, <1>12, <1>14 DEF Launched
\* A transfer that has begun is a listing or has its file.
<1>15. ASSUME NEW f, Shared(f), f.begun = h.begun \cup {x},
              Waits(f, x) \/ f.consumer[D] = x,
              kind # "list" => f.table[F] = "added" /\ f.consumer[F] = x
       PROVE  Sited(f, x)
  <2>1. x \in f.begun \cap f.alive BY <1>11, <1>15
  <2>2. f.kind[x] = kind /\ f.in[x] = new.in[x] /\ f.out[x] = new.out[x]
        /\ F \notin f.doomed /\ f.buf[x] # "full"
    BY <1>10, <1>11, <1>12, <1>15
  <2>3. CASE kind = "list"
    <3>1. Listing(f, x) BY <1>12, <1>15, <2>2, <2>3 DEF Listing
    <3> QED BY <2>1, <3>1 DEF Sited
  <2>4. CASE kind # "list"
    <3>1. FileEnd(f, x) = F /\ DataEnd(f, x) = None
      BY <1>12, <2>2, <2>4 DEF FileEnd, DataEnd, Kinds
    <3>2. Single(f, x) BY <1>15, <2>2, <2>4, <3>1 DEF Single
    <3>3. kind \in {"retr", "stor"} BY <2>4 DEF Kinds
    <3>4. Copying(f, x) BY <1>15, <2>2, <2>4, <3>2, <3>3 DEF Copying
    <3> QED BY <2>1, <3>4 DEF Sited
  <2> QED BY <2>3, <2>4
<1> HIDE DEF parked, active
<1>16. CASE h' = Begin(parked, x) /\ h.listener # None
  <2>1. h.listener \in Listeners BY <1>1, <1>16, DockTypes
  <2>2. /\ parked \in Heap /\ parked.fault = new.fault
        /\ parked.alive = new.alive /\ parked.attached = new.attached
        /\ parked.begun = new.begun /\ parked.kind = new.kind
        /\ parked.in = new.in /\ parked.out = new.out
        /\ parked.buf = new.buf /\ parked.clock = new.clock
        /\ parked.doomed = new.doomed /\ parked.listener = new.listener
        /\ parked.consumer = new.consumer /\ parked.table = new.table
        /\ parked.data = [new.data EXCEPT ![h.listener] = x]
        /\ parked.closing = new.closing
    BY <1>13, <2>1 DEF Heap, parked
  <2>3. \A l \in Listeners :
          parked.data[l] = IF l = h.listener THEN x ELSE h.data[l]
    BY <1>1, <1>11, <2>1, <2>2, DockTypes
  <2>4. /\ h'.fault = parked.fault /\ h'.listener = parked.listener
        /\ h'.data = parked.data /\ h'.kind = parked.kind
        /\ h'.in = parked.in /\ h'.out = parked.out /\ h'.buf = parked.buf
        /\ h'.consumer = parked.consumer /\ h'.doomed = parked.doomed
        /\ h'.alive = parked.alive
        /\ \A t \in Streams : \/ h'.table[t] = parked.table[t]
                              \/ t = F /\ h'.table[t] = "added"
    BY <1>16, <2>2, BeginFields
  <2>5. /\ h'.attached = parked.attached
        /\ h'.begun = parked.begun \cup {x}
        /\ h'.clock = parked.clock /\ h'.closing = parked.closing
        /\ h'.armed = "off"
        /\ parked.kind[x] # "list" => h'.table[F] = "added"
    BY <1>16, <2>2, BeginRest
  <2>6. Shared(h')
    <3>1. \A t \in Streams : h'.consumer[t] \in {h.consumer[t], x}
      BY <1>12, <2>2, <2>4
    <3>2. \A t \in Streams \ {F, D} : h'.consumer[t] = h.consumer[t]
      BY <1>8, <1>12, <2>2, <2>4
    <3>3. \A t \in Streams : h'.table[t] = h.table[t]
                               \/ (t = F /\ h'.table[t] = "added")
      BY <1>11, <2>2, <2>4
    <3> QED BY <1>1, <1>8, <1>11, <2>2, <2>3, <2>4, <2>5, <3>1, <3>2, <3>3
  <2>7. h'.begun = h.begun \cup {x} BY <1>11, <2>2, <2>5
  <2>8. Waits(h', x) BY <2>1, <2>3, <2>4 DEF Waits
  <2>9. kind # "list" => h'.table[F] = "added" /\ h'.consumer[F] = x
    BY <1>8, <1>12, <2>2, <2>4, <2>5
  <2> HIDE DEF Shared
  <2>10. Sited(h', x) BY <1>15, <2>6, <2>7, <2>8, <2>9
  <2>11. Unhurried(h')
    BY <1>3, <1>4, <1>11, <2>2, <2>4, <2>5 DEF Unhurried
  <2>12. Launched(h', h, x) BY <1>14, <2>6, <2>7
  <2> QED BY <1>1, <1>6, <1>9, <2>10, <2>11, <2>12, LaunchCared
<1>17. CASE h' = Begin(active, x)
  <2> DEFINE consumer == [new.consumer EXCEPT ![D] = x]
             table == [new.table EXCEPT ![D] = "added"]
             met == [new EXCEPT !.consumer = consumer]
  <2>1. /\ consumer \in [Streams -> Contexts \cup {None}]
        /\ table \in [Streams -> {"none", "added", "in", "gone"}]
    BY <1>13, DockTypes DEF Contexts, Controlled
  <2>2. active = [met EXCEPT !.table = table] BY <1>13 DEF Heap, active
  <2>3. \A t \in Streams :
          /\ consumer[t] = IF t = D THEN x ELSE new.consumer[t]
          /\ table[t] = IF t = D THEN "added" ELSE h.table[t]
    BY <1>8, <1>11, <1>13, DockTypes
  <2> HIDE DEF consumer, table, met
  <2>4. met \in Heap BY <1>13, <2>1 DEF Heap, met
  <2>13. active \in Heap BY <2>1, <2>2, <2>4, HeapFields
  <2>14. /\ met.fault = new.fault
         /\ met.alive = new.alive /\ met.attached = new.attached
         /\ met.begun = new.begun /\ met.kind = new.kind
         /\ met.in = new.in /\ met.out = new.out
         /\ met.buf = new.buf /\ met.clock = new.clock
         /\ met.doomed = new.doomed /\ met.listener = new.listener
         /\ met.consumer = consumer /\ met.data = new.data
    BY <1>13 DEF Heap, met
  <2>15. /\ active.fault = met.fault
         /\ active.alive = met.alive /\ active.attached = met.attached
         /\ active.begun = met.begun /\ active.kind = met.kind
         /\ active.in = met.in /\ active.out = met.out
         /\ active.buf = met.buf /\ active.clock = met.clock
         /\ active.doomed = met.doomed /\ active.listener = met.listener
         /\ active.consumer = met.consumer /\ active.data = met.data
         /\ active.table = table
    BY <2>2, <2>4 DEF Heap
  <2>16. /\ h'.fault = active.fault /\ h'.listener = active.listener
         /\ h'.data = active.data /\ h'.kind = active.kind
         /\ h'.in = active.in /\ h'.out = active.out /\ h'.buf = active.buf
         /\ h'.consumer = active.consumer /\ h'.doomed = active.doomed
         /\ h'.alive = active.alive
         /\ \A t \in Streams : \/ h'.table[t] = active.table[t]
                               \/ t = F /\ h'.table[t] = "added"
    BY <1>17, <2>13, BeginFields
  <2>5. /\ h'.attached = active.attached
        /\ h'.begun = active.begun \cup {x}
        /\ h'.clock = active.clock
        /\ active.kind[x] # "list" => h'.table[F] = "added"
    BY <1>17, <2>13, BeginRest
  <2>6. Shared(h')
    <3>1. \A t \in Streams : h'.consumer[t] \in {h.consumer[t], x}
      BY <1>12, <2>3, <2>14, <2>15, <2>16
    <3>2. \A t \in Streams \ {F, D} : h'.consumer[t] = h.consumer[t]
      BY <1>8, <1>12, <2>3, <2>14, <2>15, <2>16
    <3>3. \A t \in Streams : h'.table[t] = h.table[t]
                               \/ (t \in {F, D} /\ h'.table[t] = "added")
      BY <2>3, <2>15, <2>16
    <3>4. h'.data = h.data BY <1>11, <2>14, <2>15, <2>16
    <3> QED BY <1>1, <1>8, <1>11, <2>5, <2>14, <2>15, <2>16,
               <3>1, <3>2, <3>3, <3>4
  <2>7. h'.begun = h.begun \cup {x} BY <1>11, <2>5, <2>14, <2>15
  <2>8. h'.consumer[D] = x BY <1>8, <2>3, <2>14, <2>15, <2>16
  <2>9. kind # "list" => h'.table[F] = "added" /\ h'.consumer[F] = x
    BY <1>8, <1>12, <2>3, <2>5, <2>14, <2>15, <2>16
  <2> HIDE DEF Shared
  <2>10. Sited(h', x) BY <1>15, <2>6, <2>7, <2>8, <2>9
  <2>11. Unhurried(h')
    BY <1>6, <1>11, <2>14, <2>15, <2>16 DEF Unhurried, Idle
  <2>12. Launched(h', h, x) BY <1>14, <2>6, <2>7
  <2> QED BY <1>1, <1>6, <1>9, <2>10, <2>11, <2>12, LaunchCared
<1>18. CASE h' = Error(new)
  <2>1. /\ h'.fault = new.fault /\ h'.alive = new.alive
        /\ h'.attached = new.attached
        /\ h'.kind = new.kind /\ h'.in = new.in /\ h'.out = new.out
        /\ h'.buf = new.buf /\ h'.clock = new.clock
        /\ h'.doomed = new.doomed /\ h'.listener = new.listener
        /\ h'.data = new.data /\ h'.consumer = new.consumer
        /\ h'.table = new.table /\ h'.begun = new.begun
    BY <1>13, <1>18 DEF Error, Say, Heap
  <2>2. Shared(h')
    <3>1. \A t \in Streams : h'.consumer[t] \in {h.consumer[t], x}
      BY <1>12, <2>1
    <3>2. \A t \in Streams \ {F, D} : h'.consumer[t] = h.consumer[t]
      BY <1>8, <1>12, <2>1
    <3> QED BY <1>1, <1>8, <1>11, <2>1, <3>1, <3>2
  <2>3. h'.begun = h.begun BY <1>11, <2>1
  <2>4. Untried(h', x)
    <3>1. h'.kind[x] # "none" BY <1>12, <2>1
    <3>2. h'.table = h.table /\ h'.data = h.data BY <1>11, <2>1
    <3> QED BY <1>9, <2>3, <3>1, <3>2 DEF Untried, Waits
  <2>5. Unhurried(h') BY <1>6, <1>11, <2>1 DEF Unhurried, Idle
  <2> HIDE DEF Shared
  <2>6. Launched(h', h, x) BY <1>14, <2>2, <2>3
  <2> QED BY <1>1, <1>6, <1>9, <2>4, <2>5, <2>6, LaunchCared DEF Sited
<1> QED BY <1>7, <1>16, <1>17, <1>18 DEF new, parked, active

\* A reply changes nothing else.
LEMMA SayRest ==
  ASSUME NEW g \in Heap
  PROVE  LET f == Say(g) IN
         /\ f \in Heap /\ f.fault = g.fault /\ f.alive = g.alive
         /\ f.attached = g.attached /\ f.begun = g.begun /\ f.kind = g.kind
         /\ f.in = g.in /\ f.out = g.out /\ f.buf = g.buf /\ f.data = g.data
         /\ f.clock = g.clock /\ f.doomed = g.doomed
         /\ f.listener = g.listener /\ f.consumer = g.consumer
         /\ f.table = g.table /\ f.xfer = g.xfer
         /\ f.closing = g.closing /\ f.armed = g.armed
<1>1. Say(g) \in Heap BY SayDock
<1> QED BY <1>1 DEF Say, Heap

\* A fresh listener takes the place of the one before.
LEMMA PasvCared ==
  ASSUME Inv, Moored, Patient, Pasv, Idle(h), Control \in h.alive
  PROVE  Cared(h')
<1> DEFINE off == PassiveOff(h)
           said == Say(off)
<1>1. h \in Heap /\ Cared(h) BY DEF Inv, TypeOK, Patient
<1>2. /\ off \in Heap /\ Cared(off) /\ off.listener = None
      /\ off.alive = h.alive /\ off.data = h.data
  BY <1>1, PassiveOffFields, PassiveOffCared DEF Idle, Cared
<1>3. \/ h' \in {said, off, Error(off)}
      \/ \E l \in Listeners :
           /\ off.table[ListenStream(l)] = "none"
           /\ h' = [said EXCEPT
                     !.alive = @ \cup {l}, !.attached = @ \cup {l},
                     !.listener = l,
                     !.consumer[ListenStream(l)] = l,
                     !.table[ListenStream(l)] = "added"]
  BY DEF Pasv
<1> HIDE DEF off
<1>4. /\ said \in Heap /\ said.fault = off.fault /\ said.alive = off.alive
      /\ said.attached = off.attached
      /\ said.begun = off.begun /\ said.kind = off.kind /\ said.in = off.in
      /\ said.out = off.out /\ said.buf = off.buf /\ said.data = off.data
      /\ said.clock = off.clock /\ said.doomed = off.doomed
      /\ said.listener = off.listener
      /\ said.consumer = off.consumer /\ said.table = off.table
  BY <1>2, SayRest
<1>5. Cared(said) BY <1>2, SayCared
<1>7. Cared(Error(off)) BY <1>2, SayCared DEF Idle
<1> HIDE DEF said
<1>6. ASSUME NEW l \in Listeners, off.table[ListenStream(l)] = "none",
             h' = [said EXCEPT
                    !.alive = @ \cup {l}, !.attached = @ \cup {l},
                    !.listener = l,
                    !.consumer[ListenStream(l)] = l,
                    !.table[ListenStream(l)] = "added"]
      PROVE  Cared(h')
  <2> DEFINE s == ListenStream(l)
  <2>1. /\ h'.fault = said.fault /\ h'.listener = l
        /\ h'.data = said.data /\ h'.kind = said.kind
        /\ h'.in = said.in /\ h'.out = said.out
        /\ h'.buf = said.buf /\ h'.begun = said.begun
        /\ h'.clock = said.clock /\ h'.doomed = said.doomed
        /\ h'.alive = said.alive \cup {l}
        /\ h'.attached = said.attached \cup {l}
    BY <1>4, <1>6 DEF Heap
  <2>2. /\ h'.consumer = [said.consumer EXCEPT ![s] = l]
        /\ h'.table = [said.table EXCEPT ![s] = "added"]
    BY <1>4, <1>6 DEF Heap
  <2>3. s \in Streams /\ s # Ctl
        /\ \A x \in Xfers : FileStream(x) # s /\ DataStream(x) # s
        /\ \A m \in Listeners : ListenStream(m) = s => m = l
    BY StreamsFacts, StreamsDiffer
  <2>4. \A t \in Streams :
          /\ h'.consumer[t] = IF t = s THEN l ELSE said.consumer[t]
          /\ h'.table[t] = IF t = s THEN "added" ELSE said.table[t]
    BY <1>4, <2>2, <2>3, DockTypes
  <2> HIDE DEF s
  <2>5. l \notin Xfers /\ l # Control /\ l # None BY ObjectsDistinct
  <2>6. ASSUME NEW x \in Xfers PROVE Sited(h', x)
    <3>1. Sited(said, x) BY <1>5 DEF Cared
    <3>2. /\ h'.consumer[FileStream(x)] = said.consumer[FileStream(x)]
          /\ h'.consumer[DataStream(x)] = said.consumer[DataStream(x)]
          /\ h'.table[FileStream(x)] = said.table[FileStream(x)]
          /\ h'.table[DataStream(x)] = said.table[DataStream(x)]
      BY <2>3, <2>4, StreamsFacts
    <3>3. Single(said, x) => FileStream(x) \notin h'.doomed
      BY <2>1 DEF Single
    <3>4. /\ x \in h'.begun <=> x \in said.begun
          /\ x \in h'.alive <=> x \in said.alive
          /\ x \in h'.attached => x \in said.attached
          /\ h'.kind[x] = said.kind[x] /\ h'.buf[x] = said.buf[x]
          /\ h'.in[x] = said.in[x] /\ h'.out[x] = said.out[x]
          /\ \A m \in Listeners : h'.data[m] = x <=> said.data[m] = x
      BY <2>1, <2>5
    <3> QED BY <3>1, <3>2, <3>3, <3>4, FrameSited
  <2>7. Living(h')
    <3>1. Living(said) BY <1>5 DEF Cared
    <3>2. Control \in h'.alive <=> h'.consumer[Ctl] = Control
      BY <2>1, <2>3, <2>4, <2>5, <3>1, StreamsFacts DEF Living
    <3>3. \A t \in Streams : h'.table[t] = "gone" => h'.consumer[t] = None
      BY <2>4, <3>1 DEF Living
    <3>4. ASSUME NEW m \in Listeners
          PROVE  /\ m \in h'.alive <=> h'.consumer[ListenStream(m)] = m
                 /\ \A t \in Streams : h'.consumer[t] = m => t = ListenStream(m)
      <4>1. CASE m = l
        BY <2>1, <2>3, <2>4, <3>1, <4>1 DEF Living, s
      <4>2. CASE m # l
        <5>1. ListenStream(m) \in Streams /\ ListenStream(m) # s
          BY <4>2, StreamsFacts, StreamsDiffer DEF s
        <5>2. h'.consumer[ListenStream(m)] = said.consumer[ListenStream(m)]
          BY <2>4, <5>1
        <5>3. m \in h'.alive <=> m \in said.alive BY <2>1, <4>2
        <5>4. /\ m \in said.alive <=> said.consumer[ListenStream(m)] = m
              /\ \A t \in Streams :
                   said.consumer[t] = m => t = ListenStream(m)
          BY <3>1 DEF Living
        <5>5. \A t \in Streams :
                h'.consumer[t] = m => said.consumer[t] = m
          BY <2>4, <4>2
        <5> QED BY <5>2, <5>3, <5>4, <5>5
      <4> QED BY <4>1, <4>2
    <3> QED BY <3>2, <3>3, <3>4 DEF Living
  <2>8. Known(h')
    <3>1. said.attached \cap Listeners \subseteq {None}
      BY <1>2, <1>4, <1>5 DEF Cared, Known
    <3>2. said.attached \cap Listeners = {} BY <3>1, ObjectsDistinct
    <3>3. Control \in h'.alive BY <1>2, <1>4, <2>1
    <3> QED BY <2>1, <3>2, <3>3 DEF Known
  <2>9. Unhurried(h') BY <1>2, <1>4, <2>1 DEF Unhurried, Idle
  <2> QED BY <1>5, <2>1, <2>6, <2>7, <2>8, <2>9 DEF Cared
<1> QED BY <1>2, <1>3, <1>5, <1>6, <1>7

LEMMA ControlPatient ==
  Inv /\ Moored /\ Patient /\ ~Hasty /\ ControlEvent => Patient'
<1> SUFFICES ASSUME Inv, Moored, Patient, ~Hasty, ControlEvent
             PROVE  Patient'
  OBVIOUS
<1>1. Good(h) /\ Docked(h, {}) /\ Cared(h) /\ h \in Heap
      /\ h.fault = "none" /\ Swept
  BY DEF Inv, TypeOK, Good, Moored, Patient, Docked, Running, Cared
<1>2. Ctl \notin todo' /\ phase' # "poll"
  <2>1. CASE Reply \/ HangUp BY <1>1, <2>1 DEF Reply, HangUp, Swept
  <2> QED
    BY <2>1
    DEF ControlEvent, Serving, Command, NoCommand, CloseAfterOutput,
       ControlLost, LineTooLong, OtherCommand, Pass, Rein, Quit, Pasv, Port,
       Abor, Transfer
<1>3. SUFFICES Cared(h') BY <1>2 DEF Patient, Prompt
<1>4. /\ \A l \in Listeners : h.data[l] # None => h.data[l] = h.xfer
      /\ Ctl \in Tabled(h) => Control \in h.alive /\ h.consumer[Ctl] = Control
  BY <1>1, WaitFacts
<1>5. ClientMayInterfere =>
        /\ Idle(h)
        /\ h.xfer # None =>
             \/ h.kind[h.xfer] = "list"
             \/ h.in[h.xfer] # None /\ h.out[h.xfer] # None
  BY <1>1, Unhasty
<1>6. h.closing \/ h.armed = "on" => Idle(h)
  BY <1>1 DEF Cared, Unhurried, Idle
<1>7. h.xfer = None => Idle(h) BY <1>4 DEF Idle
<1>8. Cared(Say(h)) /\ Cared(StartClock(h)) /\ (Idle(h) => Cared(Error(h)))
  BY <1>1, SayCared
<1>9. Idle(h) => Cared([h EXCEPT !.doomed = @ \cup {Ctl}])
  BY <1>1, DoomCared, StreamsDiffer DEF Idle
<1> DEFINE said == Say(h)
<1>10. /\ said \in Heap /\ said.fault = h.fault /\ said.alive = h.alive
       /\ said.attached = h.attached /\ said.begun = h.begun
       /\ said.kind = h.kind /\ said.in = h.in /\ said.out = h.out
       /\ said.buf = h.buf /\ said.data = h.data /\ said.clock = h.clock
       /\ said.doomed = h.doomed /\ said.listener = h.listener
       /\ said.consumer = h.consumer /\ said.table = h.table
       /\ said.xfer = h.xfer /\ said.closing = h.closing
       /\ said.armed = h.armed
  BY <1>1, SayRest
<1> HIDE DEF said
<1>11. Idle(said) <=> Idle(h) BY <1>10 DEF Idle
<1>12. CASE NoCommand BY <1>1, <1>6, <1>8, <1>12 DEF NoCommand
<1>13. CASE CloseAfterOutput
  <2>1. Idle(h) BY <1>6, <1>13 DEF CloseAfterOutput
  <2>2. Cared(Remove(h, Control))
    BY <1>1, <2>1, RemoveCared, ObjectsDistinct DEF Idle
  <2> QED BY <1>13, <2>2 DEF CloseAfterOutput
<1>14. CASE ControlLost BY <1>5, <1>9, <1>14 DEF ControlLost
<1>15. CASE LineTooLong BY <1>5, <1>8, <1>15 DEF LineTooLong
<1>16. CASE OtherCommand BY <1>8, <1>16 DEF OtherCommand
<1>17. CASE Pass
  <2>1. PICK success \in BOOLEAN :
          h' = [said EXCEPT !.auth = success,
                            !.armed = IF success THEN "set" ELSE @]
    BY <1>17 DEF Pass, said
  <2>2. SameCare(h', said) /\ h'.doomed = said.doomed
    BY <1>10, <2>1 DEF SameCare, Heap
  <2>3. Idle(said) BY <1>5, <1>11, <1>17 DEF Pass
  <2> QED BY <1>8, <2>2, <2>3, MinorCared DEF said
<1>18. CASE Rein
  <2>1. h' = [said EXCEPT !.auth = FALSE] BY <1>18 DEF Rein, said
  <2>2. SameCare(h', said) /\ h'.doomed = said.doomed
        /\ h'.closing = said.closing /\ h'.armed = said.armed
    BY <1>10, <2>1 DEF SameCare, Heap
  <2> QED BY <1>8, <2>2, MinorCared DEF said
<1>19. CASE Quit
  <2> DEFINE closes == said.closing \/ h.xfer = None
  <2>1. h' = [said EXCEPT !.auth = FALSE, !.quitting = TRUE,
                          !.closing = closes]
    BY <1>19 DEF Quit, said
  <2> HIDE DEF closes
  <2>2. SameCare(h', said) /\ h'.doomed = said.doomed
        /\ h'.closing = closes /\ h'.armed = said.armed
    BY <1>10, <2>1 DEF SameCare, Heap
  <2>3. closes = said.closing \/ Idle(said)
    BY <1>7, <1>10, <1>11 DEF closes, Heap
  <2> QED BY <1>8, <2>2, <2>3, MinorCared DEF said
<1>20. CASE Pasv
  <2>1. Idle(h) BY <1>5, <1>20 DEF Pasv
  <2>2. Control \in h.alive
    BY <1>1, <1>4, <1>20 DEF Pasv, Command, Serving, Swept
  <2> QED BY <1>20, <2>1, <2>2, PasvCared
<1>21. CASE Port
  <2> DEFINE off == PassiveOff(h)
  <2>1. Idle(h) BY <1>5, <1>21 DEF Port
  <2>2. off \in Heap /\ Cared(off)
    BY <1>1, <2>1, PassiveOffType, PassiveOffCared DEF Idle
  <2>3. Cared(Say(off)) BY <2>2, SayCared
  <2> QED BY <1>8, <1>21, <2>3 DEF Port
<1>22. CASE Abor
  <2> DEFINE x == h.xfer
  <2>1. x \in Xfers /\ x # None /\ h' = Complete(said, x) /\ ClientMayInterfere
    BY <1>1, <1>22, DockTypes, ObjectsDistinct DEF Abor, said
  <2>2. Control \in h.alive
    BY <1>1, <1>4, <1>22 DEF Abor, Command, Serving, Swept
  <2>3. x \in said.begun
    BY <1>1, <1>10, <2>1, <2>2 DEF Good, Consistent
  <2>4. ~Waits(said, x)
    BY <1>5, <1>10, <2>1 DEF Waits, Idle
  <2>5. ~Single(said, x)
    <3>1. CASE h.kind[x] = "list"
      <4>1. h.consumer[FileStream(x)] # x
        BY <1>1, <2>1, <3>1, StreamsFacts, StreamsDiffer DEF Docked, Held
      <4> QED BY <1>10, <4>1 DEF Single
    <3>2. CASE h.in[x] # None /\ h.out[x] # None
      BY <1>10, <3>2 DEF Single, DataEnd
    <3> QED BY <1>5, <2>1, <3>1, <3>2
  <2>6. Tabled(said) = Tabled(h) BY <1>10 DEF Tabled
  <2>7. Cared(said) BY <1>8 DEF said
  <2>8. Cared(Complete(said, x))
    BY <1>4, <1>10, <2>3, <2>4, <2>5, <2>6, <2>7, CompleteCared
  <2> QED BY <2>1, <2>8
<1>23. CASE Reply
  <2>1. SameCare([h EXCEPT !.resp = FALSE], h)
        /\ [h EXCEPT !.resp = FALSE].doomed = h.doomed
        /\ [h EXCEPT !.resp = FALSE].closing = h.closing
        /\ [h EXCEPT !.resp = FALSE].armed = h.armed
    BY <1>1 DEF SameCare, Heap
  <2>2. Cared([h EXCEPT !.resp = FALSE]) BY <1>1, <2>1, MinorCared
  <2> QED BY <1>1, <1>5, <1>9, <1>23, <2>2 DEF Reply
<1>24. CASE HangUp BY <1>1, <1>5, <1>9, <1>24 DEF HangUp
<1>25. CASE \E kind \in Kinds \ {"none"} : Transfer(kind)
  BY <1>25, TransferCared
<1> QED
  BY <1>12, <1>13, <1>14, <1>15, <1>16, <1>17, <1>18, <1>19, <1>20, <1>21,
     <1>22, <1>23, <1>24, <1>25
  DEF ControlEvent

\* Who is doomed with c.
LEMMA RemoveDoomed ==
  ASSUME NEW g \in Heap, NEW c
  PROVE  Remove(g, c).doomed =
           g.doomed \cup {t \in Tabled(g) : g.consumer[t] \in {None, c}}
BY DEF Remove, Heap

\* The end of a transfer leaves the control connection.
LEMMA CompleteSpares ==
  ASSUME NEW g \in Heap, NEW x \in Xfers,
         Ctl \in Tabled(g) => g.consumer[Ctl] = Control,
         Ctl \in Complete(g, x).doomed
  PROVE  Ctl \in g.doomed
<1> DEFINE n == Notify(g, x)
<1>1. x \in Controlled /\ x # Control /\ Control # None
  BY ObjectsDistinct DEF Controlled
<1>2. n \in Heap BY <1>1, NotifyType
<1>3. n.doomed = g.doomed /\ n.consumer = g.consumer /\ n.table = g.table
  BY <1>1, NotifyFields
<1>4. Complete(g, x) = Remove(n, x) BY DEF Complete
<1> HIDE DEF n
<1>5. Tabled(n) = Tabled(g) BY <1>3 DEF Tabled
<1> QED BY <1>1, <1>2, <1>3, <1>4, <1>5, RemoveDoomed

\* A connection is accepted: the waiting transfer has met its client.
LEMMA AcceptCared ==
  ASSUME Inv, Moored, Patient, NEW s \in Streams, Accept(s)
  PROVE  Cared(h') /\ (Ctl \in Tabled(h) /\ Ctl \in h'.doomed => Ctl \in h.doomed)
<1> DEFINE l == h.consumer[s]
           x == h.data[l]
           handed == [h EXCEPT !.data[l] = None, !.finished = @ \cup {l}]
           d == DataStream(x)
           consumer == [h.consumer EXCEPT ![d] = x]
           table == [h.table EXCEPT ![d] = "added"]
           taken == [[handed EXCEPT !.consumer = consumer]
                      EXCEPT !.table = table]
<1>1. /\ Good(h) /\ Docked(h, {}) /\ Cared(h) /\ h \in Heap
      /\ h.fault = "none"
  BY DEF Inv, TypeOK, Good, Moored, Patient, Cared
<1>2. l \in Listeners /\ x # None BY DEF Accept
<1>3. /\ x \in Xfers /\ x \in h.alive /\ h.table[d] = "none"
      /\ h.consumer[d] # x /\ x = h.xfer
      /\ \A m \in Listeners : h.data[m] # None => m = l
  BY <1>1, <1>2, WaitFacts
<1>4. Ctl \in Tabled(h) => h.consumer[Ctl] = Control
  BY <1>1, WaitFacts
<1>5. h' \in {taken, Remove(taken, l)}
  <2>1. handed.consumer = h.consumer /\ handed.table = h.table
        /\ handed \in Heap
    BY <1>1, <1>2, ZenonT(60) DEF Heap
  <2>2. taken = [handed EXCEPT !.consumer[d] = x, !.table[d] = "added"]
    <3> HIDE DEF handed
    <3> QED BY <2>1 DEF Heap
  <2>3. [handed EXCEPT !.consumer[d] = x, !.table[d] = "added"]
          = [h EXCEPT !.data[l] = None, !.finished = @ \cup {l},
                      !.consumer[d] = x, !.table[d] = "added"]
    OBVIOUS
  <2>4. \/ h' = [h EXCEPT !.data[l] = None, !.finished = @ \cup {l},
                          !.consumer[d] = x, !.table[d] = "added"]
        \/ h' = Remove([h EXCEPT !.data[l] = None, !.finished = @ \cup {l},
                                 !.consumer[d] = x, !.table[d] = "added"], l)
    BY DEF Accept
  <2> HIDE DEF taken, l, x, d
  <2> QED BY <2>2, <2>3, <2>4
<1>6. /\ d \in Streams /\ d # Ctl
      /\ \A m \in Listeners : ListenStream(m) # d
      /\ \A y \in Xfers : FileStream(y) # d
      /\ \A y \in Xfers : DataStream(y) = d => y = x
  BY <1>3, StreamsFacts, StreamsDiffer
<1>7. /\ consumer \in [Streams -> Contexts \cup {None}]
      /\ table \in [Streams -> {"none", "added", "in", "gone"}]
  BY <1>1, <1>3, DockTypes DEF Contexts, Controlled
<1>8. \A t \in Streams :
        /\ consumer[t] = IF t = d THEN x ELSE h.consumer[t]
        /\ table[t] = IF t = d THEN "added" ELSE h.table[t]
  BY <1>1, DockTypes
<1> HIDE DEF consumer, table
<1>9. /\ taken.fault = h.fault /\ taken.alive = h.alive
      /\ taken.attached = h.attached /\ taken.begun = h.begun
      /\ taken.kind = h.kind /\ taken.in = h.in /\ taken.out = h.out
      /\ taken.buf = h.buf /\ taken.clock = h.clock
      /\ taken.doomed = h.doomed /\ taken.listener = h.listener
      /\ taken.closing = h.closing /\ taken.armed = h.armed
      /\ taken.data = [h.data EXCEPT ![l] = None]
      /\ taken.consumer = consumer /\ taken.table = table
  BY <1>1 DEF Heap
<1>10. taken \in Heap
  <2>1. handed \in Heap BY <1>1, <1>2, ZenonT(60) DEF Heap
  <2> HIDE DEF handed
  <2>2. [handed EXCEPT !.consumer = consumer] \in Heap
    BY <1>7, <2>1 DEF Heap
  <2> QED BY <1>7, <2>2, HeapFields
<1> HIDE DEF taken, handed
<1>11. \A m \in Listeners : taken.data[m] = None
  BY <1>1, <1>3, <1>9, DockTypes
<1>12. \A m \in Listeners : m # x /\ m # None
  BY <1>3, ObjectsDistinct
<1>13. Sited(taken, x)
  <2>1. x \in h.begun \cap h.alive /\ (Listing(h, x) \/ Copying(h, x))
    <3>1. Sited(h, x) BY <1>1, <1>3 DEF Cared
    <3>2. ~Untried(h, x) BY <1>2 DEF Untried, Waits
    <3>3. ~Over(h, x) BY <1>3 DEF Over
    <3> QED BY <3>1, <3>2, <3>3 DEF Sited
  <2>2. FileStream(x) \in Streams /\ FileStream(x) # d
    BY <1>3, <1>6, StreamsFacts
  <2>3. /\ taken.consumer[d] = x
        /\ taken.consumer[FileStream(x)] = h.consumer[FileStream(x)]
        /\ taken.table[FileStream(x)] = h.table[FileStream(x)]
    BY <1>6, <1>8, <1>9, <2>2
  <2>4. FileEnd(taken, x) = FileEnd(h, x) /\ DataEnd(taken, x) = DataEnd(h, x)
    BY <1>9 DEF FileEnd, DataEnd
  <2>5. CASE Listing(h, x)
    <3>1. Listing(taken, x) BY <1>9, <2>3, <2>5 DEF Listing
    <3> QED BY <1>9, <2>1, <3>1 DEF Sited
  <2>6. CASE Copying(h, x)
    <3>1. Single(h, x)
      BY <1>3, <2>6 DEF Copying, Joined, Draining
    <3>2. Single(taken, x) BY <1>9, <2>3, <2>4, <3>1 DEF Single
    <3>3. Copying(taken, x) BY <1>9, <2>3, <2>6, <3>2 DEF Copying
    <3> QED BY <1>9, <2>1, <3>3 DEF Sited
  <2> QED BY <2>1, <2>5, <2>6
<1>14. ASSUME NEW y \in Xfers \ {x} PROVE Sited(taken, y)
  <2>1. Sited(h, y) BY <1>1 DEF Cared
  <2>2. /\ FileStream(y) \in Streams /\ DataStream(y) \in Streams
        /\ FileStream(y) # d /\ DataStream(y) # d
    BY <1>6, StreamsFacts
  <2>3. /\ taken.consumer[FileStream(y)] = h.consumer[FileStream(y)]
        /\ taken.consumer[DataStream(y)] = h.consumer[DataStream(y)]
        /\ taken.table[FileStream(y)] = h.table[FileStream(y)]
        /\ taken.table[DataStream(y)] = h.table[DataStream(y)]
    BY <1>8, <1>9, <2>2
  <2>4. y # None BY ObjectsDistinct
  <2>5. \A m \in Listeners : h.data[m] = x \/ h.data[m] = None
    BY <1>3
  <2>6. \A m \in Listeners : taken.data[m] = y <=> h.data[m] = y
    BY <1>11, <2>4, <2>5
  <2>7. Single(h, y) => FileStream(y) \notin taken.doomed
    BY <1>9 DEF Single
  <2>8. /\ y \in taken.begun <=> y \in h.begun
        /\ y \in taken.alive <=> y \in h.alive
        /\ y \in taken.attached => y \in h.attached
        /\ taken.kind[y] = h.kind[y] /\ taken.buf[y] = h.buf[y]
        /\ taken.in[y] = h.in[y] /\ taken.out[y] = h.out[y]
    BY <1>9
  <2> QED BY <2>1, <2>3, <2>6, <2>7, <2>8, FrameSited
<1>15. Living(taken)
  <2>1. Living(h) BY <1>1 DEF Cared
  <2>2. Control \in taken.alive <=> taken.consumer[Ctl] = Control
    BY <1>6, <1>8, <1>9, <2>1, StreamsFacts DEF Living
  <2>3. \A t \in Streams :
          taken.table[t] = "gone" => taken.consumer[t] = None
    BY <1>8, <1>9, <2>1 DEF Living
  <2>4. ASSUME NEW m \in Listeners
        PROVE  /\ m \in taken.alive <=> taken.consumer[ListenStream(m)] = m
               /\ \A t \in Streams :
                    taken.consumer[t] = m => t = ListenStream(m)
    <3>1. ListenStream(m) \in Streams /\ ListenStream(m) # d
      BY <1>6, StreamsFacts
    <3>2. taken.consumer[ListenStream(m)] = h.consumer[ListenStream(m)]
      BY <1>8, <1>9, <3>1
    <3>3. \A t \in Streams : taken.consumer[t] = m => h.consumer[t] = m
      BY <1>8, <1>9, <1>12
    <3> QED BY <1>9, <2>1, <3>2, <3>3 DEF Living
  <2> QED BY <2>2, <2>3, <2>4 DEF Living
<1>16. Known(taken) BY <1>1, <1>9 DEF Cared, Known
<1>17. Unhurried(taken) BY <1>11 DEF Unhurried
<1>18. Cared(taken)
  BY <1>1, <1>9, <1>13, <1>14, <1>15, <1>16, <1>17 DEF Cared
<1>19. Cared(Remove(taken, l))
  <2>1. l \notin Xfers BY <1>2, ObjectsDistinct
  <2> QED BY <1>10, <1>11, <1>18, <2>1, RemoveCared
<1>20. Ctl \in Tabled(h) => Ctl \in Tabled(taken) /\ taken.consumer[Ctl] = Control
  BY <1>4, <1>6, <1>8, <1>9 DEF Tabled
<1>21. Ctl \in Tabled(h) /\ Ctl \in Remove(taken, l).doomed => Ctl \in h.doomed
  <2>1. l # Control /\ Control # None BY <1>2, ObjectsDistinct
  <2> QED BY <1>9, <1>10, <1>20, <2>1, RemoveDoomed
<1> QED BY <1>5, <1>9, <1>18, <1>19, <1>21

\* Bytes move between the ends of a transfer that has met its client.
LEMMA MovedCared ==
  ASSUME NEW g \in Heap, Cared(g), NEW x \in g.begun \cap g.alive,
         x \in Xfers, ~Waits(g, x), Joined(g, x) \/ Draining(g, x),
         NEW b \in {"none", "empty", "full"}
  PROVE  LET f == [g EXCEPT !.buf[x] = b] IN
         /\ f \in Heap /\ Cared(f) /\ ~Single(f, x) /\ ~Waits(f, x)
         /\ f.begun = g.begun /\ f.data = g.data /\ f.doomed = g.doomed
         /\ f.consumer = g.consumer /\ f.table = g.table /\ f.xfer = g.xfer
<1> DEFINE f == [g EXCEPT !.buf[x] = b]
<1>1. f \in Heap BY DEF Heap
<1>2. /\ f.fault = g.fault /\ f.alive = g.alive /\ f.attached = g.attached
      /\ f.begun = g.begun /\ f.kind = g.kind /\ f.in = g.in
      /\ f.out = g.out /\ f.data = g.data /\ f.clock = g.clock
      /\ f.doomed = g.doomed /\ f.listener = g.listener
      /\ f.closing = g.closing /\ f.armed = g.armed
      /\ f.consumer = g.consumer /\ f.table = g.table /\ f.xfer = g.xfer
      /\ \A y \in Xfers \ {x} : f.buf[y] = g.buf[y]
  BY DEF Heap
<1> HIDE DEF f
<1>3. FileEnd(f, x) = FileEnd(g, x) /\ DataEnd(f, x) = DataEnd(g, x)
  BY <1>2 DEF FileEnd, DataEnd
<1>4. Joined(f, x) \/ Draining(f, x)
  BY <1>2, <1>3 DEF Joined, Draining
<1>5. DataStream(x) # None /\ FileStream(x) # None
  BY StreamsFacts, StreamsNotNull
<1>6. ~Waits(f, x) BY <1>2 DEF Waits
<1>7. ~Single(f, x) BY <1>4, <1>5, <1>6 DEF Joined, Draining, Single
<1>8. Sited(f, x)
  <2>1. g.kind[x] \in {"retr", "stor"} /\ g.table[FileStream(x)] # "none"
    <3>1. Sited(g, x) BY DEF Cared
    <3>2. ~Untried(g, x) /\ ~Over(g, x) BY DEF Untried, Over
    <3>3. ~Listing(g, x)
      BY <1>5 DEF Listing, Joined, Draining, FileEnd, DataEnd
    <3> QED BY <3>1, <3>2, <3>3 DEF Sited, Copying
  <2> QED BY <1>2, <1>4, <2>1 DEF Sited, Copying
<1>9. ASSUME NEW y \in Xfers \ {x} PROVE Sited(f, y)
  <2>1. Sited(g, y) BY DEF Cared
  <2>2. Single(g, y) => FileStream(y) \notin f.doomed BY <1>2 DEF Single
  <2> QED BY <1>2, <2>1, <2>2, FrameSited
<1>10. Living(f) /\ Known(f) /\ Unhurried(f)
  BY <1>2 DEF Cared, Living, Known, Unhurried
<1>11. Cared(f) BY <1>2, <1>8, <1>9, <1>10 DEF Cared
<1> QED BY <1>1, <1>2, <1>6, <1>7, <1>11 DEF f

\* The ends of a transfer are moved while it is served.
LEMMA XferIoCared ==
  ASSUME Inv, Moored, Patient, NEW s \in todo, XferIo(s)
  PROVE  Cared(h') /\ (Ctl \in todo /\ Ctl \in h'.doomed => Ctl \in h.doomed)
<1> DEFINE x == h.consumer[s]
           g == Adopt(h, x, s)
<1>1. /\ Good(h) /\ Docked(h, {}) /\ Cared(h) /\ h \in Heap
      /\ h.fault = "none" /\ todo \subseteq Tabled(h)
  BY DEF Inv, TypeOK, Good, Moored, Patient, Cared, Running, Swept
<1>2. /\ x \in Xfers /\ h.kind[x] # "list"
      /\ \/ g.in[x] # None /\ g.out[x] # None
         \/ g.in[x] = None /\ g.out[x] = s /\ g.buf[x] = "full"
  BY DEF XferIo
<1>3. s \in Streams /\ h.table[s] # "none" BY <1>1 DEF Tabled
<1>4. /\ Cared(g) /\ x \in g.begun \cap g.alive
      /\ Single(g, x) \/ Joined(g, x) \/ Draining(g, x)
  BY <1>1, <1>2, <1>3, AdoptCared
<1>5. /\ g.table = h.table /\ g.consumer = h.consumer /\ g.data = h.data
      /\ g.doomed = h.doomed /\ g.begun = h.begun /\ g.alive = h.alive
      /\ g.kind = h.kind /\ g.xfer = h.xfer
  BY <1>1, <1>2, <1>3, AdoptFields
<1>6. g \in Heap BY <1>1, <1>2, <1>3, AdoptGood DEF Good
<1>7. (s = FileStream(x) \/ s = DataStream(x)) /\ x \in h.begun
  BY <1>1, <1>2, <1>3, ConsumingXfer
<1>8. s # Ctl BY <1>2, <1>7, StreamsDiffer
<1>9. PICK o :
        /\ o \in IoOutcomes(g.buf[x]) \/ o \in FlushOutcomes
        /\ \/ h' = [g EXCEPT !.buf[x] = o[1]]
           \/ h' = [[g EXCEPT !.buf[x] = o[1]]
                     EXCEPT !.doomed = @ \cup {s}]
           \/ h' = Complete([g EXCEPT !.buf[x] = o[1]], x)
  BY DEF XferIo
<1> HIDE DEF g
<1>10. Joined(g, x) \/ Draining(g, x)
  BY <1>2, <1>3, <1>4, <1>5, StreamsNotNull
  DEF Single, FileEnd, DataEnd
<1> DEFINE b == o[1]
<1>11. b \in {"none", "empty", "full"}
  <2>1. g.buf[x] \in {"none", "empty", "full"}
    BY <1>2, <1>6, DockTypes
  <2>2. CASE o \in FlushOutcomes BY <2>2 DEF FlushOutcomes
  <2>3. CASE o \in IoOutcomes(g.buf[x]) BY <2>1, <2>3 DEF IoOutcomes
  <2> QED BY <1>9, <2>2, <2>3
<1> DEFINE moved == [g EXCEPT !.buf[x] = b]
<1>12. \/ h' = moved
       \/ h' = [moved EXCEPT !.doomed = @ \cup {s}]
       \/ h' = Complete(moved, x)
  BY <1>9
<1> HIDE DEF b, x
<1>13. ~Waits(g, x)
  <2>1. ASSUME Waits(h, x)
        PROVE  h.table[DataStream(x)] = "none" /\ h.consumer[DataStream(x)] # x
    <3>1. x # None BY <1>2, ObjectsDistinct
    <3> QED BY <1>1, <2>1, <3>1, WaitFacts DEF Waits
  <2>2. ~(Joined(g, x) /\ Waits(h, x)) BY <1>5, <2>1 DEF Joined
  <2>3. ~(Draining(g, x) /\ Waits(h, x)) BY <1>5, <2>1 DEF Draining
  <2>4. Waits(g, x) <=> Waits(h, x) BY <1>5 DEF Waits
  <2> QED BY <1>10, <2>2, <2>3, <2>4
<1>14. /\ moved \in Heap /\ Cared(moved) /\ ~Single(moved, x)
       /\ ~Waits(moved, x)
       /\ moved.begun = g.begun /\ moved.data = g.data
       /\ moved.doomed = g.doomed /\ moved.consumer = g.consumer
       /\ moved.table = g.table /\ moved.xfer = g.xfer
  BY <1>2, <1>4, <1>6, <1>10, <1>11, <1>13, MovedCared
<1> HIDE DEF moved
<1>15. /\ Tabled(moved) = Tabled(h)
       /\ Ctl \in Tabled(h) => h.consumer[Ctl] = Control
       /\ \A l \in Listeners : h.data[l] # None => h.data[l] = h.xfer
  <2>1. Tabled(moved) = Tabled(h) BY <1>5, <1>14 DEF Tabled
  <2> QED BY <1>1, <2>1, WaitFacts
<1>16. CASE h' = moved BY <1>5, <1>14, <1>16
<1>17. CASE h' = [moved EXCEPT !.doomed = @ \cup {s}]
  <2>1. h'.doomed = moved.doomed \cup {s} BY <1>14, <1>17 DEF Heap
  <2>2. \A y \in Xfers : FileStream(y) \in {s} =>
          moved.consumer[FileStream(y)] # y \/ ~Single(moved, y)
    BY <1>5, <1>14 DEF x
  <2>3. Cared(h') BY <1>8, <1>14, <1>17, <2>2, DoomCared
  <2> QED BY <1>5, <1>8, <1>14, <2>1, <2>3
<1>18. CASE h' = Complete(moved, x)
  <2>1. Cared(h')
    BY <1>4, <1>5, <1>14, <1>15, <1>18, CompleteCared
  <2>2. Ctl \in h'.doomed /\ Ctl \in todo => Ctl \in moved.doomed
    BY <1>1, <1>2, <1>5, <1>14, <1>15, <1>18, CompleteSpares
  <2> QED BY <1>5, <1>14, <2>1, <2>2
<1> QED BY <1>12, <1>16, <1>17, <1>18

LEMMA DataPatient ==
  Inv /\ Moored /\ Patient /\ ~XferTimeout /\ DataEvent => Patient'
<1> SUFFICES ASSUME Inv, Moored, Patient, ~XferTimeout, DataEvent
             PROVE  Patient'
  OBVIOUS
<1>1. /\ Good(h) /\ Docked(h, {}) /\ Cared(h) /\ h \in Heap
      /\ h.fault = "none" /\ todo \subseteq Tabled(h)
  BY DEF Inv, TypeOK, Good, Moored, Patient, Cared, Running, Swept
<1>2. /\ phase = "batch" /\ phase' = "batch" /\ todo' \subseteq todo
      /\ Ctl \in todo' => Ctl \in todo
  BY DEF DataEvent, Serving, ListenerDestroyed, Accept, XferIdle, XferIo,
         ListIo, ServeOrphan
\* A stream that is ready does not doom the control connection.
<1>3. ASSUME Cared(h'), Ctl \in todo /\ Ctl \in h'.doomed => Ctl \in h.doomed
      PROVE  Patient'
  BY <1>2, <1>3 DEF Patient, Prompt
<1>4. /\ Ctl \in todo => h.consumer[Ctl] = Control
      /\ Ctl \in Tabled(h) => h.consumer[Ctl] = Control
      /\ \A l \in Listeners : h.data[l] # None => h.data[l] = h.xfer
  BY <1>1, WaitFacts
<1>5. ASSUME NEW s \in Streams, s \in todo, s # Ctl,
             \A x \in Xfers : FileStream(x) = s =>
               h.consumer[s] # x \/ ~Single(h, x),
             h' = [h EXCEPT !.doomed = @ \cup {s}]
      PROVE  Patient'
  <2>1. Cared(h') BY <1>1, <1>5, DoomCared
  <2>2. h'.doomed = h.doomed \cup {s} BY <1>1, <1>5 DEF Heap
  <2> QED BY <1>3, <1>5, <2>1, <2>2
<1>6. ASSUME NEW s \in Streams, Serving(s)
      PROVE  s \in todo /\ h.table[s] # "none"
  BY <1>1, <1>6 DEF Serving, Tabled
<1>7. ASSUME NEW s \in Streams, ListenerDestroyed(s) PROVE Patient'
  <2> DEFINE l == h.consumer[s]
  <2>1. /\ l \in Listeners /\ Serving(s)
        /\ h' = Remove(h, l) \/ h' = [h EXCEPT !.doomed = @ \cup {s}]
    BY <1>7 DEF ListenerDestroyed
  <2>2. l \notin Xfers /\ l # Control /\ Control # None
    BY <2>1, ObjectsDistinct
  <2>3. CASE h' = Remove(h, l)
    <3>1. Cared(h') BY <1>1, <1>4, <2>2, <2>3, RemoveCared
    <3>2. Ctl \in todo /\ Ctl \in h'.doomed => Ctl \in h.doomed
      BY <1>1, <1>4, <2>2, <2>3, RemoveDoomed
    <3> QED BY <1>3, <3>1, <3>2
  <2>4. CASE h' = [h EXCEPT !.doomed = @ \cup {s}]
    <3>1. s # Ctl BY <1>4, <1>6, <2>1, <2>2
    <3> QED BY <1>5, <1>6, <2>1, <2>2, <2>4, <3>1
  <2> QED BY <2>1, <2>3, <2>4
<1>8. ASSUME NEW s \in Streams, Accept(s) PROVE Patient'
  BY <1>1, <1>3, <1>8, AcceptCared
<1>9. ASSUME NEW s \in Streams, XferIdle(s) PROVE Patient'
  <2> DEFINE x == h.consumer[s]
             g == Adopt(h, x, s)
  <2>1. /\ x \in Xfers /\ Serving(s) /\ h.kind[x] # "list"
        /\ h' = g \/ (s = DataStream(x) /\ h' = [g EXCEPT !.doomed = @ \cup {s}])
    BY <1>9 DEF XferIdle
  <2>2. s \in todo /\ h.table[s] # "none" BY <1>6, <2>1
  <2>3. Cared(g) BY <1>1, <2>1, <2>2, AdoptCared
  <2>4. g.doomed = h.doomed BY <1>1, <2>1, AdoptFields
  <2>5. g \in Heap BY <1>1, <2>1, AdoptGood DEF Good
  <2> HIDE DEF g
  <2>6. CASE h' = g BY <1>3, <2>3, <2>4, <2>6
  <2>7. CASE s = DataStream(x) /\ h' = [g EXCEPT !.doomed = @ \cup {s}]
    <3>1. s # Ctl /\ \A y \in Xfers : FileStream(y) # s
      BY <2>1, <2>7, StreamsDiffer
    <3>2. Cared(h') BY <2>3, <2>5, <2>7, <3>1, DoomCared
    <3>3. h'.doomed = g.doomed \cup {s} BY <2>5, <2>7 DEF Heap
    <3> QED BY <1>3, <2>4, <3>1, <3>2, <3>3
  <2> QED BY <2>1, <2>6, <2>7
<1>10. ASSUME NEW s \in Streams, XferIo(s) PROVE Patient'
  <2>1. s \in todo BY <1>10 DEF XferIo, Serving
  <2> QED BY <1>3, <1>10, <2>1, XferIoCared
<1>11. ASSUME NEW s \in Streams, ListIo(s) PROVE Patient'
  <2> DEFINE x == h.consumer[s]
  <2>1. /\ x \in Xfers /\ Serving(s) /\ h.kind[x] = "list"
        /\ \/ h' = h \/ h' = Complete(h, x) \/ h.clock[x] = "on"
           \/ h' = [h EXCEPT !.doomed = @ \cup {s}]
    BY <1>11 DEF ListIo
  <2>2. s \in todo /\ h.table[s] # "none" BY <1>6, <2>1
  <2>3. s = DataStream(x) /\ ~Waits(h, x) /\ x \in h.begun
    BY <1>1, <2>1, <2>2, ConsumingXfer
  <2>4. ~Single(h, x)
    <3>1. h.consumer[FileStream(x)] # x
      BY <1>1, <2>1, StreamsFacts, StreamsDiffer DEF Docked, Held
    <3> QED BY <3>1 DEF Single
  <2>5. h.clock[x] # "on" BY <1>1, <2>1 DEF Cared
  <2>6. CASE h' = h BY <1>1, <1>3, <2>6
  <2>7. CASE h' = Complete(h, x)
    <3>1. Cared(h')
      BY <1>1, <1>4, <2>3, <2>4, <2>7, CompleteCared
    <3>2. Ctl \in todo /\ Ctl \in h'.doomed => Ctl \in h.doomed
      BY <1>1, <1>4, <2>1, <2>7, CompleteSpares
    <3> QED BY <1>3, <3>1, <3>2
  <2>8. CASE h' = [h EXCEPT !.doomed = @ \cup {s}]
    <3>1. s # Ctl /\ \A y \in Xfers : FileStream(y) # s
      BY <2>1, <2>3, StreamsDiffer
    <3> QED BY <1>5, <2>2, <2>8, <3>1
  <2> QED BY <2>1, <2>5, <2>6, <2>7, <2>8
<1>12. ASSUME NEW s \in Streams, ServeOrphan(s) PROVE Patient'
  <2>1. s \in todo /\ h.table[s] # "none" /\ h.consumer[s] \notin h.alive
    BY <1>6, <1>12 DEF ServeOrphan
  <2>2. h.consumer[s] = None BY <1>1, <2>1, ConsumersAlive
  <2>3. None # Control /\ None \notin Xfers BY ObjectsDistinct
  <2>4. s # Ctl BY <1>4, <2>1, <2>2, <2>3
  <2>5. h' = [h EXCEPT !.doomed = @ \cup {s}]
    BY <1>12, <2>2 DEF ServeOrphan
  <2> QED BY <1>5, <2>1, <2>2, <2>3, <2>4, <2>5
<1> QED BY <1>7, <1>8, <1>9, <1>10, <1>11, <1>12 DEF DataEvent

LEMMA NextPatient ==
  ASSUME ~Hasty, ~XferTimeout
  PROVE  Inv /\ Moored /\ Patient /\ [Next]_vars => Patient'
<1>1. Inv /\ Moored /\ Patient /\ Next => Patient'
  BY LoopPatient, PreparePatient, ControlPatient, DataPatient DEF Next
<1>2. Patient /\ UNCHANGED vars => Patient'
  <2> SUFFICES ASSUME Patient, UNCHANGED vars PROVE Patient' OBVIOUS
  <2>1. h' = h /\ phase' = phase /\ todo' = todo BY DEF vars
  <2> QED BY <2>1 DEF Patient, Prompt
<1> QED BY <1>1, <1>2

\* Who is alive is reached through a stream, or waits in a listener that is.
LEMMA CaredReached ==
  ASSUME Good(h), Docked(h, {}), Cared(h)
  PROVE  NothingLeaks
<1>1. Reached(h, {}) /\ Sown(h) /\ Held(h) /\ Living(h) /\ h \in Heap
  BY DEF Good, Docked, Cared
<1>2. ASSUME NEW c, c # None, NEW t \in Streams, h.consumer[t] = c,
             h.table[t] # "none"
      PROVE  \E s \in Tabled(h) : h.consumer[s] = c
  <2>1. h.table[t] \in {"added", "in"}
    BY <1>1, <1>2, DockTypes DEF Living
  <2> QED BY <1>2, <2>1 DEF Tabled
<1>3. ASSUME NEW l \in Listeners \cap h.alive
      PROVE  \E s \in Tabled(h) : h.consumer[s] = l
  <2>1. h.consumer[ListenStream(l)] = l /\ ListenStream(l) \in Streams
    BY <1>1, StreamsFacts DEF Living
  <2>2. h.table[ListenStream(l)] # "none" BY <1>1, <2>1 DEF Sown
  <2>3. l # None BY ObjectsDistinct
  <2> QED BY <1>2, <2>1, <2>2, <2>3
<1>4. ASSUME NEW x \in h.begun \cap h.alive
      PROVE  \/ \E s \in Tabled(h) : h.consumer[s] = x
             \/ \E l \in Listeners \cap h.alive :
                  h.data[l] = x /\ \E s \in Tabled(h) : h.consumer[s] = l
  <2>1. x \in Xfers /\ x # None BY <1>1, ObjectsDistinct DEF Heap
  <2>2. FileStream(x) \in Streams /\ DataStream(x) \in Streams
    BY <2>1, StreamsFacts
  <2>3. Listing(h, x) \/ Copying(h, x)
    BY <2>1 DEF Cared, Sited, Untried, Over
  <2>4. CASE h.consumer[DataStream(x)] = x
    <3>1. h.table[DataStream(x)] # "none"
      BY <1>1, <2>1, <2>2, <2>4, StreamsDiffer DEF Held
    <3> QED BY <1>2, <2>1, <2>2, <2>4, <3>1
  <2>5. CASE Waits(h, x)
    <3>1. PICK l \in Listeners : h.data[l] = x BY <2>5 DEF Waits
    <3>2. l \in h.alive
      <4>1. l = h.listener /\ Control \in h.alive /\ l # None
        BY <2>1, <3>1, WaitFacts, ObjectsDistinct
      <4> QED BY <4>1 DEF Cared, Good, Consistent
    <3> QED BY <1>3, <3>1, <3>2
  <2>6. CASE Copying(h, x) /\ h.consumer[FileStream(x)] = x
    <3>1. h.table[FileStream(x)] # "none" BY <2>6 DEF Copying
    <3> QED BY <1>2, <2>1, <2>2, <2>6, <3>1
  <2> QED
    BY <2>3, <2>4, <2>5, <2>6
    DEF Listing, Copying, Single, Joined, Draining
<1> QED BY <1>3, <1>4 DEF NothingLeaks

\* As long as the client does not interfere with a transfer that waits for its
\* data connection, and transfers have no timeout, no stream is left with a
\* consumer that was deleted, no object tells a control connection that is gone,
\* and passive_off meets no null listener: the undefined behaviour that the runs
\* find needs one of the two.
THEOREM PatientNoFault ==
  ASSUME ~Hasty, ~XferTimeout
  PROVE  Spec => []NoFault
<1>1. Patient => NoFault BY DEF Patient, Cared, NoFault, Running
<1>2. Init => Inv /\ Moored /\ Patient
  BY InitInv, InitMoored, InitPatient
<1>3. Inv /\ Moored /\ Patient /\ [Next]_vars => (Inv /\ Moored /\ Patient)'
  BY NextInv, NextMoored, NextPatient
<1> QED BY <1>1, <1>2, <1>3, PTL DEF Spec

\* With the same client every listener and every transfer announced with 150 can
\* be reached by the loop until it is deleted.
THEOREM PatientLeaksNothing ==
  ASSUME ~Hasty, ~XferTimeout
  PROVE  Spec => []NothingLeaks
<1>1. Inv /\ Moored /\ Patient => NothingLeaks
  BY CaredReached DEF Inv, TypeOK, Good, Moored, Patient
<1>2. Init => Inv /\ Moored /\ Patient
  BY InitInv, InitMoored, InitPatient
<1>3. Inv /\ Moored /\ Patient /\ [Next]_vars => (Inv /\ Moored /\ Patient)'
  BY NextInv, NextMoored, NextPatient
<1> QED BY <1>1, <1>2, <1>3, PTL DEF Spec
============================================================================
