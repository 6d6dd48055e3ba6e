--------------------------- MODULE SslFilter_proofs ---------------------------
(***************************************************************************)
(* Lifetimes and SentInOrder for any records, any room in the socket and   *)
(* any number of records. The state of the filter tells which of its two   *)
(* streams are gone: "hungup" when only N is left, "shutdown" or "none"    *)
(* when only S is.                                                         *)
(***************************************************************************)
EXTENDS SslFilter, SequenceTheorems, TLAPS

States == {"none", "accept", "established", "shutdown", "hungup"}

\* The objects o and the state agree.
Agree(o, st) ==
  /\ o \subseteq {"S", "N", "F", "C"}
  /\ "N" \in o <=> "C" \in o
  /\ "F" \in o <=> ("S" \in o \/ "N" \in o)
  /\ "S" \in o /\ "N" \in o => st \in {"accept", "established"}
  /\ "S" \notin o /\ "N" \in o => st = "hungup"
  /\ "S" \in o /\ "N" \notin o => st \in {"shutdown", "none"}

FilterInv ==
  /\ state \in States
  /\ doomed \subseteq alive \cap {"S", "N"}
  /\ phase \in {"plain", "serve", "prepare", "sleep"} => doomed = {}
  /\ phase = "plain" => alive = {}
  /\ fault \in {"none", "escaped", "twice"}
  /\ fault = "twice" => twice /\ phase = "stopped"
  /\ phase # "stopped" => Agree(alive, state)
  /\ phase = "stopped" =>
       /\ "N" \in alive <=> "C" \in alive
       /\ "S" \in alive /\ "N" \in alive => state \in {"accept", "established"}

LEMMA InitInv == Init => FilterInv
BY DEF Init, FilterInv, Agree, States

LEMMA InvGives == FilterInv => Lifetimes
BY DEF FilterInv, Lifetimes, Agree

-----------------------------------------------------------------------------
\* Deleting the streams, one or both, in either order.

Trio(o) == /\ o = [alive |-> o.alive, state |-> o.state, fault |-> o.fault]
           /\ o.state \in States
           /\ Agree(o.alive, o.state)

LEMMA DeleteAgrees ==
  ASSUME NEW o, Trio(o), NEW s \in {"S", "N"}
  PROVE  LET d == Delete(o, s)
         IN  /\ Trio(d)
             /\ d.fault = o.fault
             /\ s \notin d.alive
             /\ d.alive \subseteq o.alive
<1>1. CASE s \notin o.alive
  BY <1>1 DEF Delete
<1>2. CASE s \in o.alive /\ s = "S"
  <2>1. Delete(o, s) = SocketGone(o)
    BY <1>2 DEF Delete
  <2>2. CASE o.state \in {"none", "shutdown"}
    <3>1. SocketGone(o) =
            [alive |-> o.alive \ {"S", "F"}, state |-> o.state, fault |-> o.fault]
      BY <2>2 DEF SocketGone, Trio
    <3> QED
      BY <1>2, <2>1, <2>2, <3>1 DEF Trio, Agree
  <2>3. CASE o.state \notin {"none", "shutdown"}
    <3>1. SocketGone(o) =
            [alive |-> o.alive \ {"S"}, state |-> "hungup", fault |-> o.fault]
      BY <2>3 DEF SocketGone, Trio
    <3> QED
      BY <1>2, <2>1, <2>3, <3>1 DEF Trio, Agree, States
  <2> QED
    BY <2>2, <2>3
<1>3. CASE s \in o.alive /\ s = "N"
  <2>1. Delete(o, s) = StreamGone(o)
    BY <1>3 DEF Delete
  <2>2. "F" \in o.alive
    BY <1>3 DEF Trio, Agree
  <2>3. CASE o.state = "hungup"
    <3>1. StreamGone(o) = [alive |-> (o.alive \ {"N", "C"}) \ {"F"},
                           state |-> o.state, fault |-> o.fault]
      BY <2>2, <2>3 DEF StreamGone, Trio
    <3> QED
      BY <1>3, <2>1, <2>3, <3>1 DEF Trio, Agree
  <2>4. CASE o.state # "hungup"
    <3>1. StreamGone(o) =
            [alive |-> o.alive \ {"N", "C"},
             state |-> IF o.state = "none" THEN o.state ELSE "shutdown",
             fault |-> o.fault]
      BY <2>2, <2>4 DEF StreamGone, Trio
    <3> QED
      BY <1>3, <2>1, <2>4, <3>1 DEF Trio, Agree, States
  <2> QED
    BY <2>3, <2>4
<1> QED
  BY <1>1, <1>2, <1>3

LEMMA ReapAgrees ==
  ASSUME FilterInv, phase # "stopped", Reap
  PROVE  /\ doomed' = {} /\ fault' = fault
         /\ state' \in States
         /\ Agree(alive', state')
<1> DEFINE o == [alive |-> alive, state |-> state, fault |-> fault]
<1>1. Trio(o) /\ o.fault = fault
  BY DEF FilterInv, Trio
<1> HIDE DEF o
<1>2. PICK first \in {"S", "N"} :
        LET second == IF first = "S" THEN "N" ELSE "S"
            one == IF first \in doomed THEN Delete(o, first) ELSE o
            both == IF second \in doomed THEN Delete(one, second) ELSE one
        IN  alive' = both.alive /\ state' = both.state /\ fault' = both.fault
  BY DEF Reap, o
<1> DEFINE second == IF first = "S" THEN "N" ELSE "S"
           one == IF first \in doomed THEN Delete(o, first) ELSE o
           both == IF second \in doomed THEN Delete(one, second) ELSE one
<1>3. Trio(one) /\ one.fault = fault
  BY <1>1, DeleteAgrees
<1>4. Trio(both) /\ both.fault = fault
  BY <1>3, DeleteAgrees
<1>5. alive' = both.alive /\ state' = both.state /\ fault' = both.fault
  BY <1>2
<1> QED
  BY <1>4, <1>5 DEF Trio, Reap

-----------------------------------------------------------------------------
\* What the operations of the filter may do to its state.

IsFilter(f) ==
  f = [state |-> f.state, inbio |-> f.inbio, shaken |-> f.shaken,
       outbio |-> f.outbio, len |-> f.len, pos |-> f.pos, sock |-> f.sock,
       blocked |-> f.blocked, thrown |-> f.thrown]

\* g comes after f, in one event of the socket.
After(f, g) ==
  /\ IsFilter(g)
  /\ \/ g.state = f.state
     \/ f.state = "accept" /\ g.state = "established"
     \/ f.state = "shutdown" /\ g.state = "none"
  /\ f.blocked => g.blocked

LEMMA AfterAfter ==
  ASSUME NEW f, NEW g, NEW k, After(f, g), After(g, k)
  PROVE  After(f, k)
BY DEF After

LEMMA FilterIs == IsFilter(Filter) /\ Filter.state = state
BY DEF Filter, IsFilter

LEMMA StateChangeAfter ==
  ASSUME NEW f, IsFilter(f), NEW g \in StateChange(f)
  PROVE  After(f, g)
<1>1. CASE f.state = "accept"
  <2>1. \/ g = f
        \/ g = [f EXCEPT !.state = "established", !.inbio = Tail(@),
                         !.shaken = TRUE, !.outbio = Append(@, 0)]
    BY <1>1 DEF StateChange
  <2> QED
    BY <1>1, <2>1 DEF After, IsFilter
<1>2. CASE f.state = "shutdown"
  <2>1. \/ g = f
        \/ g = [f EXCEPT !.thrown = "error"]
        \/ g = [f EXCEPT !.state = "none", !.outbio = Append(@, Bye),
                         !.thrown = "destroy"]
    BY <1>2 DEF StateChange
  <2> QED
    BY <1>2, <2>1 DEF After, IsFilter
<1>3. CASE f.state \notin {"accept", "shutdown"}
  <2>1. g = f
    BY <1>3 DEF StateChange
  <2> QED
    BY <2>1 DEF After
<1> QED
  BY <1>1, <1>2, <1>3

LEMMA FedAfter ==
  ASSUME NEW f, IsFilter(f), NEW input
  PROVE  After(f, [f EXCEPT !.inbio = input])
BY DEF After, IsFilter

LEMMA WrittenAfter ==
  ASSUME NEW f, IsFilter(f)
  PROVE  After(f, Written(f))
BY DEF Written, After, IsFilter

LEMMA IfEmptyAfter ==
  ASSUME NEW f, IsFilter(f), NEW g \in IfEmpty(f)
  PROVE  After(f, g)
<1>1. CASE g = f
  BY <1>1 DEF After
<1>2. CASE g # f
  <2>1. g \in FinishedWriting(f)
    BY <1>2 DEF IfEmpty
  <2>2. PICK k \in StateChange(f) :
          g = IF k.thrown = "no" THEN Written(k) ELSE k
    BY <2>1 DEF FinishedWriting
  <2>3. After(f, k) /\ IsFilter(k)
    BY StateChangeAfter DEF After
  <2>4. After(k, g)
    BY <2>2, <2>3, WrittenAfter DEF After
  <2> QED
    BY <2>3, <2>4, AfterAfter
<1> QED
  BY <1>1, <1>2

LEMMA PushAfter ==
  ASSUME NEW f, IsFilter(f), NEW g \in Push(f)
  PROVE  After(f, g)
BY DEF Push, After, IsFilter

LEMMA WriteOutAfter ==
  ASSUME NEW f, IsFilter(f), NEW g \in WriteOut(f)
  PROVE  After(f, g)
<1> DEFINE moved == [f EXCEPT !.len = Len(f.outbio)]
<1>1. After(f, moved) /\ IsFilter(moved)
  BY DEF After, IsFilter
<1> HIDE DEF moved
<1>2. PICK k \in IfEmpty(moved) :
        \/ g = k
        \/ \E p \in Push(k) : g \in IfEmpty(p)
  BY DEF WriteOut, moved
<1>3. After(f, k) /\ IsFilter(k)
  <2>1. After(moved, k)
    BY <1>1, IfEmptyAfter
  <2> QED
    BY <1>1, <2>1, AfterAfter DEF After
<1>4. ASSUME NEW p \in Push(k), g \in IfEmpty(p)
      PROVE  After(f, g)
  <2>1. After(k, p) /\ IsFilter(p)
    BY <1>3, PushAfter DEF After
  <2>2. After(p, g)
    BY <1>4, <2>1, IfEmptyAfter
  <2> QED
    BY <1>3, <2>1, <2>2, AfterAfter
<1> QED
  BY <1>2, <1>3, <1>4

\* A state that came after the filter's own agrees with the same objects.
LEMMA AfterAgrees ==
  ASSUME FilterInv, phase # "stopped", "S" \in alive,
         NEW f, After(Filter, f), Becomes(f)
  PROVE  state' \in States /\ Agree(alive, state')
BY FilterIs DEF FilterInv, After, Becomes, Agree, States

-----------------------------------------------------------------------------
LEMMA ServedInv ==
  ASSUME FilterInv, CloseN \/ ReadLine \/ ReadBye \/ ReadNothing
  PROVE  FilterInv'
<1>1. /\ UNCHANGED <<alive, state, fault, twice>>
      /\ phase = "serve" /\ phase' = "check" /\ "N" \in alive
      /\ doomed' \subseteq doomed \cup {"N"}
  BY DEF CloseN, ReadLine, ReadBye, ReadNothing, Served, Doom, output
<1> QED
  BY <1>1 DEF FilterInv

LEMMA PrepareInv ==
  ASSUME FilterInv, PrepareSocket
  PROVE  FilterInv'
<1>1. PICK f \in IfEmpty(Filter) :
        /\ Becomes(f)
        /\ Doom(IF f.thrown = "destroy" THEN {"S"} ELSE {})
        /\ fault' = IF f.thrown = "error" THEN "escaped" ELSE fault
        /\ phase' = CASE f.thrown = "error" -> "stopped"
                      [] f.thrown = "destroy" -> "sow"
                      [] OTHER -> "sleep"
  BY DEF PrepareSocket
<1>2. /\ phase = "prepare" /\ "S" \in alive /\ UNCHANGED <<alive, twice>>
  BY DEF PrepareSocket
<1>3. After(Filter, f)
  BY FilterIs, IfEmptyAfter
<1>4. state' \in States /\ Agree(alive, state')
  BY <1>1, <1>2, <1>3, AfterAgrees
<1>5. /\ phase' \in {"stopped", "sow", "sleep"}
      /\ doomed' \subseteq {"S"}
      /\ phase' = "sleep" => doomed' = {}
  BY <1>1, <1>2 DEF Doom, FilterInv
<1>6. fault' \in {"none", "escaped"}
  BY <1>1, <1>2 DEF FilterInv
<1> QED
  BY <1>2, <1>4, <1>5, <1>6 DEF FilterInv, Agree

LEMMA ServeSocketInv ==
  ASSUME FilterInv, ServeSocket
  PROVE  FilterInv'
<1>1. /\ phase = "sleep" /\ phase' = "sow" /\ "S" \in alive
      /\ UNCHANGED <<alive, twice, fault>>
  BY DEF ServeSocket, Ready
<1>2. PICK f : After(Filter, f) /\ Becomes(f) /\ doomed' \subseteq doomed \cup {"S"}
  <2>1. PICK g \in StateChange(Filter) :
          \/ Becomes(g) /\ Doom({"S"})
          \/ \E k \in WriteOut([g EXCEPT !.inbio = @ \o net]) :
               Becomes(k) /\ Doom(IF k.thrown = "no" THEN {} ELSE {"S"})
    BY DEF ServeSocket
  <2> DEFINE fed == [g EXCEPT !.inbio = @ \o net]
  <2>2. After(Filter, g) /\ IsFilter(g)
    BY FilterIs, StateChangeAfter DEF After
  <2>3. After(g, fed) /\ IsFilter(fed)
    BY <2>2, FedAfter DEF After
  <2> HIDE DEF fed
  <2>4. \A k \in WriteOut(fed) : After(Filter, k)
    BY <2>2, <2>3, WriteOutAfter, AfterAfter
  <2> QED
    BY <2>1, <2>2, <2>4 DEF Doom, fed
<1>3. state' \in States /\ Agree(alive, state')
  BY <1>1, <1>2, AfterAgrees
<1> QED
  BY <1>1, <1>2, <1>3 DEF FilterInv

LEMMA StopInv ==
  ASSUME FilterInv, Stop
  PROVE  FilterInv'
<1> DEFINE o == [alive |-> alive, state |-> state, fault |-> fault]
<1>1. /\ phase = "sleep" /\ phase' = "stopped" /\ doomed' = doomed
      /\ twice' = twice
  BY DEF Stop
<1>2. Trio(o) /\ o.fault = fault
  BY <1>1 DEF FilterInv, Trio
<1> HIDE DEF o
<1>3. PICK first \in {"S", "N"}, second \in {"S", "N"} :
        LET gone == Delete(Delete(o, first), second)
        IN  /\ alive' = gone.alive /\ state' = gone.state
            /\ fault' = IF twice /\ "S" \in alive THEN "twice" ELSE gone.fault
  BY DEF Stop, o
<1> DEFINE one == Delete(o, first)
           gone == Delete(one, second)
<1>4. Trio(one) /\ one.fault = fault
  BY <1>2, DeleteAgrees
<1> HIDE DEF one
<1>5. Trio(gone) /\ gone.fault = fault
  BY <1>4, DeleteAgrees
<1>6. /\ alive' = gone.alive /\ state' = gone.state
      /\ fault' = IF twice /\ "S" \in alive THEN "twice" ELSE gone.fault
  BY <1>3 DEF one
<1> HIDE DEF gone
<1> QED
  BY <1>1, <1>5, <1>6 DEF FilterInv, Trio, Agree

LEMMA StepInv == FilterInv /\ [Next]_vars => FilterInv'
<1> SUFFICES ASSUME FilterInv, [Next]_vars
             PROVE  FilterInv'
  OBVIOUS
<1>1. CASE ClientSends \/ ClientReads \/ ClientCloses \/ Idle \/ UNCHANGED vars
  BY <1>1 DEF ClientSends, ClientReads, ClientCloses, Idle, vars, objects,
              loop, FilterInv
<1>2. CASE NewStream
  BY <1>2 DEF NewStream, FilterInv, Agree, States
<1>3. CASE CloseN \/ ReadLine \/ ReadBye \/ ReadNothing
  BY <1>3, ServedInv
<1>4. CASE Restart
  BY <1>4, ReapAgrees DEF Restart, FilterInv
<1>5. CASE Check
  <2>1. CASE due
    BY <1>5, <2>1 DEF Check, FilterInv, Agree
  <2>2. CASE ~ due
    BY <1>5, <2>2, ReapAgrees DEF Check, FilterInv
  <2> QED
    BY <2>1, <2>2
<1>6. CASE Skip \/ PrepareNothing \/ Again \/ Elsewhere
  BY <1>6 DEF Skip, PrepareNothing, Again, Elsewhere, Woken, objects, FilterInv
<1>7. CASE PrepareSocket
  BY <1>7, PrepareInv
<1>8. CASE ServeSocket
  BY <1>8, ServeSocketInv
<1>9. CASE Stop
  BY <1>9, StopInv
<1> QED
  BY <1>1, <1>2, <1>3, <1>4, <1>5, <1>6, <1>7, <1>8, <1>9 DEF Next, Loop

\* The filter lives as long as one of its two streams and no longer, in
\* whatever order they are deleted, and is freed once.
THEOREM LifetimesHold == Spec => []Lifetimes
BY InitInv, StepInv, InvGives, PTL DEF Spec

-----------------------------------------------------------------------------
\* Lemmas about sequences.

\* The parts a and b, and what follows the first p of c.
Joined(a, b, c, p) == a \o b \o SubSeq(c, p + 1, Len(c))

\* A part is taken off the front of the rest and put behind what is read.
LEMMA MoveOn ==
  ASSUME NEW S, NEW a \in Seq(S), NEW b \in Seq(S), NEW c \in Seq(S),
         NEW p \in Nat, NEW q \in Nat, p <= q, q <= Len(c)
  PROVE  Joined(a, b \o SubSeq(c, p + 1, q), c, q) = Joined(a, b, c, p)
<1> DEFINE part == SubSeq(c, p + 1, q)
           rest == SubSeq(c, q + 1, Len(c))
<1>1. Len(c) \in Nat
  OBVIOUS
<1>2. part \in Seq(S) /\ rest \in Seq(S)
  OBVIOUS
<1>3. part \o rest = SubSeq(c, p + 1, Len(c))
  <2>1. p + 1 \in 1..Len(c) + 1 /\ q \in (p + 1) - 1..Len(c) /\ Len(c) \in q..Len(c)
    BY <1>1
  <2> QED
    BY <2>1, ConcatAdjacentSubSeq
<1> HIDE DEF part, rest
<1>4. a \o b \in Seq(S) /\ b \o part \in Seq(S)
  BY <1>2
<1>a. \A s, t, u \in Seq(S) : (s \o t) \o u = s \o (t \o u)
  BY ConcatAssociative, SMTT(30)
<1> DEFINE ab == a \o b
<1>5. a \o (b \o part) = ab \o part
  BY <1>2, <1>a, SMTT(30)
<1>b. ab \in Seq(S)
  BY <1>4
<1> HIDE DEF ab
<1>6. (ab \o part) \o rest = ab \o (part \o rest)
  BY <1>2, <1>b, <1>a, ZenonT(60)
<1>7. a \o (b \o part) \o rest = a \o b \o SubSeq(c, p + 1, Len(c))
  BY <1>3, <1>5, <1>6, SMTT(30) DEF ab
<1> QED
  BY <1>7, Zenon DEF part, rest, Joined

LEMMA AppendBehind ==
  ASSUME NEW S, NEW a \in Seq(S), NEW b \in Seq(S), NEW x \in S
  PROVE  Append(b, x) \in Seq(S) /\ a \o Append(b, x) = Append(a \o b, x)
<1>1. <<x>> \in Seq(S) /\ a \o b \in Seq(S) /\ Append(b, x) \in Seq(S)
  OBVIOUS
<1>2. Append(b, x) = b \o <<x>> /\ Append(a \o b, x) = (a \o b) \o <<x>>
  BY <1>1, AppendIsConcat
<1>3. (a \o b) \o <<x>> = a \o (b \o <<x>>)
  BY <1>1, ConcatAssociative
<1> QED
  BY <1>1, <1>2, <1>3

\* What is added to the buffer is added to the rest of it.
LEMMA AddedToRest ==
  ASSUME NEW S, NEW c \in Seq(S), NEW p \in Nat, p <= Len(c), NEW x \in S
  PROVE  /\ Append(c, x) \in Seq(S) /\ Len(Append(c, x)) = Len(c) + 1
         /\ SubSeq(Append(c, x), p + 1, Len(c) + 1) =
              Append(SubSeq(c, p + 1, Len(c)), x)
<1>1. Append(c, x) \in Seq(S) /\ Len(Append(c, x)) = Len(c) + 1 /\ Len(c) \in Nat
  OBVIOUS
<1>2. SubSeq(c, p + 1, Len(c)) = [i \in 1..(Len(c) - p) |-> c[i + p]]
  OBVIOUS
<1>3. SubSeq(Append(c, x), p + 1, Len(c) + 1) =
        [i \in 1..(Len(c) + 1 - p) |-> Append(c, x)[i + p]]
  BY <1>1
<1> DEFINE r == SubSeq(c, p + 1, Len(c))
           a == SubSeq(Append(c, x), p + 1, Len(c) + 1)
<1>4. r \in Seq(S) /\ Len(r) = Len(c) - p /\ \A i \in 1..Len(r) : r[i] = c[i + p]
  BY <1>1, <1>2
<1>5. /\ a \in Seq(S) /\ Len(a) = Len(c) + 1 - p
      /\ \A i \in 1..Len(a) : a[i] = Append(c, x)[i + p]
  BY <1>1, <1>3
<1> HIDE DEF r, a
<1>6. /\ Append(r, x) \in Seq(S) /\ Len(Append(r, x)) = Len(a)
      /\ \A i \in 1..Len(a) : Append(r, x)[i] = a[i]
  BY <1>1, <1>4, <1>5
<1>7. Append(r, x) = a
  BY <1>5, <1>6, SeqEqual
<1> QED
  BY <1>1, <1>7 DEF r, a

\* The rest of a buffer that has been written is empty.
LEMMA NoRest ==
  ASSUME NEW S, NEW a \in Seq(S), NEW c \in Seq(S)
  PROVE  /\ None \in Seq(S) /\ Len(None) = 0
         /\ a \o SubSeq(c, Len(c) + 1, Len(c)) = a
         /\ a \o SubSeq(None, 1, 0) = a
<1>1. None \in Seq(S) /\ Len(None) = 0
  BY DEF None
<1>2. SubSeq(c, Len(c) + 1, Len(c)) = None /\ SubSeq(None, 1, 0) = None
  BY <1>1 DEF None
<1>3. a \o None = a
  BY ConcatEmptySeq DEF None
<1> QED
  BY <1>1, <1>2, <1>3

-----------------------------------------------------------------------------
(* SentInOrder. What was said has left the filter, or is the rest of its    *)
(* buffer. A filter that has said close_notify has doomed its socket in the *)
(* same event; one that waits for the client's handshake has said nothing   *)
(* and, between two events, has nothing of the client in its input.         *)

SaidIf(done, n) == (IF done THEN <<0>> ELSE None) \o [i \in 1..n |-> i]

LEMMA SaidMore ==
  ASSUME NEW done, NEW n \in Nat
  PROVE  /\ SaidIf(done, n) \in Seq(Int)
         /\ SaidIf(done, n + 1) = Append(SaidIf(done, n), n + 1)
<1> DEFINE front == IF done THEN <<0>> ELSE None
           upto(k) == [i \in 1..k |-> i]
<1>1. front \in Seq(Int)
  BY DEF None
<1>2. upto(n) \in Seq(Int) /\ Len(upto(n)) = n /\ \A i \in 1..n : upto(n)[i] = i
  OBVIOUS
<1>3. upto(n + 1) = Append(upto(n), n + 1)
  <2>1. /\ upto(n + 1) \in Seq(Int) /\ Len(upto(n + 1)) = n + 1
        /\ \A i \in 1..(n + 1) : upto(n + 1)[i] = i
    OBVIOUS
  <2> HIDE DEF upto
  <2>2. /\ Append(upto(n), n + 1) \in Seq(Int)
        /\ Len(Append(upto(n), n + 1)) = n + 1
        /\ \A i \in 1..(n + 1) : Append(upto(n), n + 1)[i] = i
    BY <1>2
  <2> QED
    BY <2>1, <2>2, SeqEqual
<1> HIDE DEF front, upto
<1>4. front \o Append(upto(n), n + 1) = Append(front \o upto(n), n + 1)
  BY <1>1, <1>2, AppendBehind
<1>5. front \o upto(n) \in Seq(Int)
  BY <1>1, <1>2
<1> QED
  BY <1>3, <1>4, <1>5 DEF SaidIf, front, upto

LEMMA NothingSaid ==
  SaidIf(FALSE, 0) = None /\ SaidIf(TRUE, 0) = Append(None, 0)
<1> DEFINE nothing == [i \in 1..0 |-> i]
<1>1. nothing = <<>>
  OBVIOUS
<1> HIDE DEF nothing
<1>2. <<>> \in Seq(Int) /\ <<0>> \in Seq(Int)
  OBVIOUS
<1>3. <<>> \o nothing = <<>> /\ <<0>> \o nothing = <<0>>
  BY <1>1, <1>2, ConcatEmptySeq
<1>4. Append(<<>>, 0) = <<0>>
  OBVIOUS
<1> QED
  BY <1>3, <1>4 DEF SaidIf, None, nothing

OutputOf(f) == Joined(got, f.sock, f.outbio, f.pos)

Buffered(f) ==
  /\ f.outbio \in Seq(Int) /\ f.sock \in Seq(Int)
  /\ f.pos \in Nat /\ f.len \in Nat /\ f.pos <= f.len /\ f.len <= Len(f.outbio)
  /\ f.state = "accept" => ~ f.shaken /\ made = 0 /\ f.outbio = None

Kept(f)  == Buffered(f) /\ OutputOf(f) = SaidIf(f.shaken, made)
Ended(f) == /\ Buffered(f) /\ f.thrown = "destroy"
            /\ OutputOf(f) = Append(SaidIf(f.shaken, made), Bye)

Ground == got \in Seq(Int) /\ made \in Nat

LEMMA SaysMore ==
  ASSUME NEW a \in Seq(Int), NEW b \in Seq(Int), NEW c \in Seq(Int),
         NEW p \in Nat, p <= Len(c), NEW x \in Int
  PROVE  Joined(a, b, Append(c, x), p) = Append(Joined(a, b, c, p), x)
<1>1. /\ Len(Append(c, x)) = Len(c) + 1
      /\ SubSeq(Append(c, x), p + 1, Len(c) + 1) =
           Append(SubSeq(c, p + 1, Len(c)), x)
  BY AddedToRest, ZenonT(60)
<1> DEFINE ab == a \o b
           rest == SubSeq(c, p + 1, Len(c))
<1>2. ab \in Seq(Int) /\ rest \in Seq(Int)
  BY SMTT(30)
<1> HIDE DEF ab, rest
<1>3. ab \o Append(rest, x) = Append(ab \o rest, x)
  BY <1>2, AppendBehind
<1>4. SubSeq(Append(c, x), p + 1, Len(Append(c, x))) = Append(rest, x)
  BY <1>1, Zenon DEF rest
<1> QED
  BY <1>3, <1>4, Zenon DEF Joined, ab, rest

LEMMA StateChangeKeeps ==
  ASSUME Ground, NEW f, IsFilter(f), Kept(f), f.thrown = "no",
         NEW g \in StateChange(f)
  PROVE  /\ g.pos = f.pos /\ g.len = f.len
         /\ Kept(g) \/ Ended(g)
         /\ g.thrown = "no" => Kept(g)
         /\ g.state = "accept" => g.inbio = None
<1>1. /\ got \in Seq(Int) /\ f.sock \in Seq(Int) /\ f.outbio \in Seq(Int)
      /\ f.pos \in Nat /\ f.len \in Nat /\ f.pos <= f.len
      /\ f.len <= Len(f.outbio) /\ Len(f.outbio) \in Nat
  BY DEF Ground, Kept, Buffered
<1>2. ASSUME NEW x \in Int
      PROVE  /\ Append(f.outbio, x) \in Seq(Int)
             /\ f.len <= Len(Append(f.outbio, x))
             /\ Joined(got, f.sock, Append(f.outbio, x), f.pos) =
                  Append(OutputOf(f), x)
  <2>1. /\ Append(f.outbio, x) \in Seq(Int)
        /\ Len(Append(f.outbio, x)) = Len(f.outbio) + 1
    BY <1>1, AddedToRest
  <2>2. /\ got \in Seq(Int) /\ f.sock \in Seq(Int) /\ f.outbio \in Seq(Int)
        /\ f.pos \in Nat /\ f.pos <= Len(f.outbio)
    BY <1>1
  <2>3. Joined(got, f.sock, Append(f.outbio, x), f.pos) =
          Append(Joined(got, f.sock, f.outbio, f.pos), x)
    BY <2>2, SaysMore, ZenonT(60)
  <2> QED
    BY <1>1, <2>1, <2>3 DEF OutputOf
<1>3. CASE f.state = "accept" /\ f.inbio # None
  <2>1. g = [f EXCEPT !.state = "established", !.inbio = Tail(@),
                      !.shaken = TRUE, !.outbio = Append(@, 0)]
    BY <1>3 DEF StateChange
  <2>2. /\ g.state = "established" /\ g.shaken = TRUE /\ g.pos = f.pos
        /\ g.len = f.len /\ g.sock = f.sock /\ g.outbio = Append(f.outbio, 0)
        /\ g.thrown = "no"
    BY <2>1 DEF IsFilter
  <2>3. ~ f.shaken /\ made = 0 /\ OutputOf(f) = SaidIf(f.shaken, made)
    BY <1>3 DEF Kept, Buffered
  <2>4. SaidIf(f.shaken, made) = None
    <3>1. SaidIf(f.shaken, made) = SaidIf(FALSE, 0)
      BY <2>3 DEF SaidIf
    <3> QED
      BY <3>1, NothingSaid
  <2>5. OutputOf(g) = SaidIf(g.shaken, made)
    <3>1. OutputOf(g) = Append(OutputOf(f), 0)
      <4>1. 0 \in Int
        OBVIOUS
      <4> QED
        BY <1>2, <2>2, <4>1, Zenon DEF OutputOf
    <3>2. SaidIf(g.shaken, made) = SaidIf(TRUE, 0)
      BY <2>2, <2>3 DEF SaidIf
    <3> QED
      BY <2>3, <2>4, <3>1, <3>2, NothingSaid, Zenon
  <2> QED
    BY <1>1, <1>2, <2>2, <2>5 DEF Kept, Buffered
<1>4. CASE f.state = "shutdown" /\ f.shaken
  <2>1. g = [f EXCEPT !.state = "none", !.outbio = Append(@, Bye),
                      !.thrown = "destroy"]
    BY <1>4 DEF StateChange
  <2>2. /\ g.state = "none" /\ g.shaken = f.shaken /\ g.pos = f.pos
        /\ g.len = f.len /\ g.sock = f.sock /\ g.outbio = Append(f.outbio, Bye)
        /\ g.thrown = "destroy"
    BY <2>1 DEF IsFilter
  <2>3. Bye \in Int
    BY DEF Bye
  <2>4. OutputOf(g) = Append(SaidIf(g.shaken, made), Bye)
    BY <1>2, <2>2, <2>3 DEF OutputOf, Kept
  <2> QED
    BY <1>1, <1>2, <2>2, <2>3, <2>4 DEF Ended, Buffered
<1>5. CASE f.state = "shutdown" /\ ~ f.shaken
  <2>1. g = f \/ g = [f EXCEPT !.thrown = "error"]
    BY <1>5 DEF StateChange
  <2>2. /\ g.state = f.state /\ g.shaken = f.shaken /\ g.pos = f.pos
        /\ g.len = f.len /\ g.sock = f.sock /\ g.outbio = f.outbio
    BY <2>1 DEF IsFilter
  <2> QED
    BY <1>5, <2>2 DEF Kept, Buffered, OutputOf
<1>6. CASE f.state \notin {"accept", "shutdown"} \/ (f.state = "accept" /\ f.inbio = None)
  <2>1. g = f
    BY <1>6 DEF StateChange
  <2> QED
    BY <1>6, <2>1
<1> QED
  BY <1>3, <1>4, <1>5, <1>6

LEMMA WrittenKeeps ==
  ASSUME Ground, NEW f, IsFilter(f), Kept(f), f.pos >= f.len
  PROVE  Kept(Written(f))
<1>1. /\ got \in Seq(Int) /\ f.sock \in Seq(Int) /\ f.outbio \in Seq(Int)
      /\ f.pos \in Nat /\ f.len \in Nat /\ f.pos <= f.len
      /\ f.len <= Len(f.outbio) /\ Len(f.outbio) \in Nat
  BY DEF Ground, Kept, Buffered
<1> DEFINE g == Written(f)
<1>2. g.sock = f.sock /\ g.shaken = f.shaken /\ g.state = f.state
  BY DEF Written, IsFilter
<1>3. CASE f.len # Len(f.outbio)
  <2>1. g.outbio = f.outbio /\ g.pos = f.pos /\ g.len = Len(f.outbio)
    BY <1>3 DEF Written, IsFilter
  <2> HIDE DEF g
  <2>2. Buffered(g)
    BY <1>1, <1>2, <2>1 DEF Kept, Buffered
  <2>3. OutputOf(g) = OutputOf(f)
    BY <1>2, <2>1 DEF OutputOf
  <2>4. Kept(g)
    BY <1>2, <2>2, <2>3 DEF Kept
  <2> QED
    BY <2>4 DEF g
<1>4. CASE f.len = Len(f.outbio)
  <2>1. g.outbio = None /\ g.pos = 0 /\ g.len = 0
    BY <1>4 DEF Written, IsFilter
  <2> HIDE DEF g
  <2>2. f.pos = Len(f.outbio)
    BY <1>1, <1>4
  <2>3. got \o f.sock \in Seq(Int)
    BY <1>1
  <2>4. OutputOf(f) = got \o f.sock
    BY <1>1, <2>2, <2>3, NoRest DEF OutputOf, Joined
  <2>5. None \in Seq(Int) /\ Len(None) = 0
    BY <1>1, NoRest
  <2>6. OutputOf(g) = got \o f.sock
    <3>1. OutputOf(g) = (got \o f.sock) \o SubSeq(None, 0 + 1, 0)
      BY <1>2, <2>1, <2>5 DEF OutputOf, Joined
    <3>2. 0 + 1 = 1
      OBVIOUS
    <3> QED
      BY <1>1, <2>3, <3>1, <3>2, NoRest
  <2>7. Buffered(g)
    BY <1>1, <1>2, <2>1, <2>5 DEF Kept, Buffered
  <2>8. Kept(g)
    BY <1>2, <2>4, <2>6, <2>7 DEF Kept
  <2> QED
    BY <2>8 DEF g
<1> QED
  BY <1>3, <1>4

\* In an event: what was said is kept, or a write met a full socket.
Fine(f) == f.blocked \/ Kept(f) \/ Ended(f)

Heard(f) == f.state = "accept" => f.inbio = None

LEMMA IfEmptyKeeps ==
  ASSUME Ground, NEW f, IsFilter(f), Kept(f), NEW g \in IfEmpty(f)
  PROVE  /\ Kept(g) \/ Ended(g)
         /\ g.thrown = "no" => Kept(g)
         /\ f.thrown = "no" => Heard(g)
<1>1. f.pos \in Nat /\ f.len \in Nat
  BY DEF Kept, Buffered
<1>2. CASE ~ (f.thrown = "no" /\ Empty(f))
  <2>1. g = f
    BY <1>2 DEF IfEmpty
  <2>2. f.thrown = "no" => f.state # "accept"
    <3> SUFFICES ASSUME f.state = "accept" PROVE Empty(f)
      BY <1>2
    <3>1. f.outbio = None /\ f.len <= Len(f.outbio)
      BY DEF Kept, Buffered
    <3>2. f.len <= 0
      BY <3>1 DEF None
    <3> QED
      BY <1>1, <3>2 DEF Empty
  <2> QED
    BY <2>1, <2>2 DEF Heard
<1>3. CASE f.thrown = "no" /\ Empty(f)
  <2>1. f.pos >= f.len
    BY <1>1, <1>3 DEF Empty
  <2>2. PICK k \in StateChange(f) :
          g = IF k.thrown = "no" THEN Written(k) ELSE k
    BY <1>3 DEF IfEmpty, FinishedWriting
  <2>3. IsFilter(k)
    BY StateChangeAfter DEF After
  <2>4. /\ k.pos = f.pos /\ k.len = f.len
        /\ Kept(k) \/ Ended(k)
        /\ k.thrown = "no" => Kept(k)
        /\ k.state = "accept" => k.inbio = None
    BY <1>3, StateChangeKeeps
  <2>5. CASE k.thrown = "no"
    <3>1. Kept(Written(k))
      BY <2>1, <2>3, <2>4, <2>5, WrittenKeeps
    <3>2. Written(k).state = k.state /\ Written(k).inbio = k.inbio
      BY <2>3 DEF Written, IsFilter
    <3> QED
      BY <2>2, <2>4, <2>5, <3>1, <3>2 DEF Heard
  <2>6. CASE k.thrown # "no"
    BY <2>2, <2>4, <2>6 DEF Heard
  <2> QED
    BY <2>5, <2>6
<1> QED
  BY <1>2, <1>3

LEMMA PartPassed ==
  ASSUME NEW f, NEW q \in Nat, got \in Seq(Int), f.sock \in Seq(Int),
         f.outbio \in Seq(Int), f.pos \in Nat, f.pos <= q, q <= Len(f.outbio)
  PROVE  /\ f.sock \o SubSeq(f.outbio, f.pos + 1, q) \in Seq(Int)
         /\ Joined(got, f.sock \o SubSeq(f.outbio, f.pos + 1, q), f.outbio, q) =
              Joined(got, f.sock, f.outbio, f.pos)
<1>1. f.sock \o SubSeq(f.outbio, f.pos + 1, q) \in Seq(Int)
  OBVIOUS
<1>2. Joined(got, f.sock \o SubSeq(f.outbio, f.pos + 1, q), f.outbio, q) =
        Joined(got, f.sock, f.outbio, f.pos)
  BY MoveOn, ZenonT(60)
<1> QED
  BY <1>1, <1>2, Zenon

LEMMA PushKeeps ==
  ASSUME Ground, NEW f, IsFilter(f), Kept(f), ~ Empty(f), NEW g \in Push(f)
  PROVE  /\ g.blocked \/ Kept(g)
         /\ g.state = f.state /\ g.state # "accept"
<1>1. /\ got \in Seq(Int) /\ f.sock \in Seq(Int) /\ f.outbio \in Seq(Int)
      /\ f.pos \in Nat /\ f.len \in Nat /\ f.pos < f.len
      /\ f.len <= Len(f.outbio) /\ Len(f.outbio) \in Nat
  BY DEF Ground, Kept, Buffered, Empty
<1>2. f.state # "accept"
  <2>1. f.outbio # None
    BY <1>1 DEF None
  <2> QED
    BY <2>1 DEF Kept, Buffered
<1>3. CASE g = [f EXCEPT !.thrown = "error"]
  <2>1. /\ g.state = f.state /\ g.outbio = f.outbio /\ g.sock = f.sock
        /\ g.pos = f.pos /\ g.len = f.len /\ g.shaken = f.shaken
    BY <1>3 DEF IsFilter
  <2> QED
    BY <1>2, <2>1 DEF Kept, Buffered, OutputOf
<1>4. CASE g = [f EXCEPT !.pos = @ - 1, !.blocked = TRUE]
  BY <1>2, <1>4 DEF IsFilter
<1>5. ASSUME NEW n \in Nat, n <= f.len - f.pos,
             g = [f EXCEPT !.pos = @ + n,
                           !.sock = @ \o SubSeq(f.outbio, f.pos + 1, f.pos + n)]
      PROVE  Kept(g) /\ g.state = f.state
  <2>1. /\ g.state = f.state /\ g.outbio = f.outbio /\ g.len = f.len
        /\ g.shaken = f.shaken /\ g.pos = f.pos + n
        /\ g.sock = f.sock \o SubSeq(f.outbio, f.pos + 1, f.pos + n)
    BY <1>5 DEF IsFilter
  <2>2. PICK q \in Nat : q = f.pos + n /\ f.pos <= q /\ q <= f.len /\ q <= Len(f.outbio)
    BY <1>1, <1>5
  <2>3. /\ g.pos = q /\ g.sock = f.sock \o SubSeq(f.outbio, f.pos + 1, q)
    BY <2>1, <2>2
  <2>4. /\ f.sock \o SubSeq(f.outbio, f.pos + 1, q) \in Seq(Int)
        /\ Joined(got, f.sock \o SubSeq(f.outbio, f.pos + 1, q), f.outbio, q) =
             Joined(got, f.sock, f.outbio, f.pos)
    BY <1>1, <2>2, PartPassed
  <2>5. OutputOf(g) = OutputOf(f)
    BY <2>1, <2>3, <2>4, Zenon DEF OutputOf
  <2> QED
    BY <1>1, <1>2, <2>1, <2>2, <2>3, <2>4, <2>5 DEF Kept, Buffered
<1>6. \/ g = [f EXCEPT !.thrown = "error"]
      \/ g = [f EXCEPT !.pos = @ - 1, !.blocked = TRUE]
      \/ \E n \in Nat : /\ n <= f.len - f.pos
                        /\ g = [f EXCEPT !.pos = @ + n,
                                  !.sock = @ \o SubSeq(f.outbio, f.pos + 1, f.pos + n)]
  <2> DEFINE room == Room - Len(f.sock)
             left == f.len - f.pos
             most == IF room < left THEN room ELSE left
  <2>1. most \in Int /\ most <= left
    BY <1>1, SslConstants
  <2>2. \/ g = [f EXCEPT !.thrown = "error"]
        \/ g = [f EXCEPT !.pos = @ - 1, !.blocked = TRUE]
        \/ \E n \in 1..most :
             g = [f EXCEPT !.pos = @ + n,
                           !.sock = @ \o SubSeq(f.outbio, f.pos + 1, f.pos + n)]
    BY DEF Push
  <2>3. \A n \in 1..most : n \in Nat /\ n <= left
    BY <1>1, <2>1
  <2> QED
    BY <2>2, <2>3
<1> QED
  BY <1>2, <1>3, <1>4, <1>5, <1>6

LEMMA WriteOutKeeps ==
  ASSUME Ground, NEW f, IsFilter(f), Kept(f), f.thrown = "no",
         NEW g \in WriteOut(f)
  PROVE  Fine(g) /\ Heard(g)
<1> DEFINE moved == [f EXCEPT !.len = Len(f.outbio)]
<1>1. IsFilter(moved) /\ moved.thrown = "no"
  BY DEF IsFilter
<1>2. Kept(moved)
  <2>1. /\ moved.state = f.state /\ moved.outbio = f.outbio
        /\ moved.sock = f.sock /\ moved.pos = f.pos
        /\ moved.len = Len(f.outbio) /\ moved.shaken = f.shaken
    BY DEF IsFilter
  <2> HIDE DEF moved
  <2>2. Len(f.outbio) \in Nat /\ f.pos <= Len(f.outbio)
    BY DEF Kept, Buffered
  <2> QED
    BY <2>1, <2>2 DEF Kept, Buffered, OutputOf
<1> HIDE DEF moved
<1>3. PICK k \in IfEmpty(moved) :
        \/ g = k
        \/ k.thrown = "no" /\ ~ Empty(k) /\ \E p \in Push(k) : g \in IfEmpty(p)
  BY DEF WriteOut, moved
<1>4. /\ Kept(k) \/ Ended(k)
      /\ k.thrown = "no" => Kept(k)
      /\ Heard(k)
  BY <1>1, <1>2, IfEmptyKeeps
<1>5. IsFilter(k)
  BY <1>1, IfEmptyAfter DEF After
<1>6. ASSUME k.thrown = "no", ~ Empty(k), NEW p \in Push(k), g \in IfEmpty(p)
      PROVE  Fine(g) /\ Heard(g)
  <2>1. p.blocked \/ Kept(p)
    BY <1>4, <1>5, <1>6, PushKeeps
  <2>2. p.state # "accept"
    BY <1>4, <1>5, <1>6, PushKeeps
  <2>3. IsFilter(p)
    BY <1>5, <1>6, PushAfter DEF After
  <2>4. After(p, g)
    BY <1>6, <2>3, IfEmptyAfter
  <2>5. Heard(g)
    BY <2>2, <2>4 DEF After, Heard
  <2>6. CASE p.blocked
    BY <2>4, <2>5, <2>6 DEF After, Fine
  <2>7. CASE Kept(p)
    BY <1>6, <2>3, <2>5, <2>7, IfEmptyKeeps DEF Fine
  <2> QED
    BY <2>1, <2>6, <2>7
<1> QED
  BY <1>3, <1>4, <1>6 DEF Fine

-----------------------------------------------------------------------------
Fresh ==
  /\ ~ blocked /\ ~ shaken /\ made = 0 /\ len = 0 /\ pos = 0
  /\ cur = None /\ inbio = None /\ outbio = None /\ sock = None /\ got = None

Ordered ==
  /\ Ground /\ Buffered(Filter)
  /\ \/ Output = Said
     \/ Output = Append(Said, Bye) /\ phase = "sow" /\ "S" \in doomed
  /\ state = "accept" => inbio = None /\ cur = None

OrderInv ==
  /\ phase = "plain" => Fresh
  /\ ~ blocked /\ "S" \in alive => Ordered

LEMMA InitOrder == Init => OrderInv
BY DEF Init, OrderInv, Fresh

LEMMA OrderGives == OrderInv => SentInOrder
BY DEF OrderInv, Ordered, SentInOrder

LEMMA FilterOutput ==
  /\ OutputOf(Filter) = Output
  /\ SaidIf(shaken, made) = Said
  /\ Filter.state = state /\ Filter.inbio = inbio /\ Filter.blocked = blocked
  /\ Filter.thrown = "no" /\ Filter.shaken = shaken /\ IsFilter(Filter)
  /\ Buffered(Filter) <=>
       /\ outbio \in Seq(Int) /\ sock \in Seq(Int)
       /\ pos \in Nat /\ len \in Nat /\ pos <= len /\ len <= Len(outbio)
       /\ state = "accept" => ~ shaken /\ made = 0 /\ outbio = None
<1>1. /\ Filter.state = state /\ Filter.inbio = inbio /\ Filter.shaken = shaken
      /\ Filter.outbio = outbio /\ Filter.len = len /\ Filter.pos = pos
      /\ Filter.sock = sock /\ Filter.blocked = blocked /\ Filter.thrown = "no"
  BY DEF Filter
<1>2. OutputOf(Filter) = Output
  BY <1>1, Zenon DEF OutputOf, Joined, Output
<1>3. SaidIf(shaken, made) = Said
  BY DEF SaidIf, Said
<1> QED
  BY <1>1, <1>2, <1>3, FilterIs DEF Buffered

\* A step that leaves the filter, the output and what was said alone.
LEMMA Untouched ==
  ASSUME OrderInv, phase' = "plain" => phase = "plain", alive' \subseteq alive,
         UNCHANGED <<inbio, shaken, outbio, len, pos, sock, blocked, got, made, cur>>,
         "S" \in alive' /\ state' = "accept" => state = "accept",
         "S" \in alive' /\ phase = "sow" /\ "S" \in doomed =>
           phase' = "sow" /\ "S" \in doomed'
  PROVE  OrderInv'
<1>1. phase' = "plain" => Fresh'
  BY DEF OrderInv, Fresh
<1>2. ASSUME ~ blocked, "S" \in alive'
      PROVE  Ordered'
  <2>1. Ordered
    BY <1>2 DEF OrderInv
  <2>2. Output' = Output /\ Said' = Said
    BY DEF Output, Said
  <2>3. Ground'
    BY <2>1 DEF Ordered, Ground
  <2>4. Buffered(Filter)'
    <3>1. Buffered(Filter)
      BY <2>1 DEF Ordered
    <3>2. /\ outbio' \in Seq(Int) /\ sock' \in Seq(Int)
          /\ pos' \in Nat /\ len' \in Nat /\ pos' <= len' /\ len' <= Len(outbio')
          /\ state' = "accept" => ~ shaken' /\ made' = 0 /\ outbio' = None
      BY <1>2, <3>1, FilterOutput
    <3> QED
      BY <3>2 DEF Filter, Buffered
  <2>5. /\ \/ Output' = Said'
           \/ Output' = Append(Said', Bye) /\ phase' = "sow" /\ "S" \in doomed'
        /\ state' = "accept" => inbio' = None /\ cur' = None
    BY <1>2, <2>1, <2>2 DEF Ordered
  <2> QED
    BY <2>3, <2>4, <2>5 DEF Ordered, Bye
<1> QED
  BY <1>1, <1>2 DEF OrderInv

LEMMA DeletedState ==
  ASSUME NEW o, Trio(o), NEW s, Delete(o, s).state = "accept"
  PROVE  o.state = "accept"
BY DEF Delete, SocketGone, StreamGone, Trio

LEMMA ReapLeaves ==
  ASSUME FilterInv, phase # "stopped", Reap
  PROVE  /\ alive' \subseteq alive
         /\ "S" \in doomed => "S" \notin alive'
         /\ state' = "accept" => state = "accept"
<1> DEFINE o == [alive |-> alive, state |-> state, fault |-> fault]
<1>1. Trio(o) /\ o.alive = alive /\ o.state = state
  BY DEF FilterInv, Trio
<1> HIDE DEF o
<1>2. PICK first \in {"S", "N"} :
        LET second == IF first = "S" THEN "N" ELSE "S"
            one == IF first \in doomed THEN Delete(o, first) ELSE o
            both == IF second \in doomed THEN Delete(one, second) ELSE one
        IN  alive' = both.alive /\ state' = both.state /\ fault' = both.fault
  BY DEF Reap, o
<1> DEFINE second == IF first = "S" THEN "N" ELSE "S"
           one == IF first \in doomed THEN Delete(o, first) ELSE o
           both == IF second \in doomed THEN Delete(one, second) ELSE one
<1>3. /\ Trio(one) /\ one.alive \subseteq alive
      /\ first \in doomed => first \notin one.alive
      /\ one.state = "accept" => state = "accept"
  BY <1>1, DeleteAgrees, DeletedState
<1> HIDE DEF one
<1>4. /\ both.alive \subseteq one.alive
      /\ second \in doomed => second \notin both.alive
      /\ both.state = "accept" => one.state = "accept"
  BY <1>3, DeleteAgrees, DeletedState
<1>5. alive' = both.alive /\ state' = both.state
  BY <1>2 DEF one
<1>6. first = "S" \/ second = "S"
  OBVIOUS
<1> HIDE DEF both, second
<1> QED
  BY <1>3, <1>4, <1>5, <1>6

LEMMA StopLeaves ==
  ASSUME FilterInv, Stop
  PROVE  "S" \notin alive'
<1> DEFINE o == [alive |-> alive, state |-> state, fault |-> fault]
<1>1. Trio(o)
  BY DEF Stop, FilterInv, Trio
<1> HIDE DEF o
<1>2. PICK first \in {"S", "N"} :
        alive' = Delete(Delete(o, first), IF first = "S" THEN "N" ELSE "S").alive
  BY DEF Stop, o
<1> DEFINE second == IF first = "S" THEN "N" ELSE "S"
           one == Delete(o, first)
           gone == Delete(one, second)
<1>3. Trio(one) /\ first \notin one.alive
  BY <1>1, DeleteAgrees
<1> HIDE DEF one
<1>4. gone.alive \subseteq one.alive /\ second \notin gone.alive
  BY <1>3, DeleteAgrees
<1>5. alive' = gone.alive
  BY <1>2 DEF one
<1> HIDE DEF gone
<1> QED
  BY <1>3, <1>4, <1>5

LEMMA OutputMore ==
  ASSUME got \in Seq(Int), sock \in Seq(Int), outbio \in Seq(Int),
         pos \in Nat, pos <= Len(outbio), NEW x \in Int
  PROVE  Joined(got, sock, Append(outbio, x), pos) = Append(Output, x)
<1>1. Joined(got, sock, Append(outbio, x), pos) =
        Append(Joined(got, sock, outbio, pos), x)
  BY SaysMore, ZenonT(60)
<1> QED
  BY <1>1, Zenon DEF Output, Joined

LEMMA ReadLineOrder ==
  ASSUME FilterInv, OrderInv, ReadLine
  PROVE  OrderInv'
<1>1. /\ phase = "serve" /\ phase' = "check" /\ "N" \in alive
      /\ Record # None
      /\ UNCHANGED <<alive, state, shaken, len, pos, sock, got, blocked>>
      /\ \/ made' = made /\ outbio' = outbio
         \/ made' = made + 1 /\ outbio' = Append(outbio, made + 1)
  BY DEF ReadLine, Served
<1> SUFFICES ASSUME ~ blocked, "S" \in alive
             PROVE  Ordered'
  BY <1>1 DEF OrderInv
<1>2. Ordered /\ Output = Said
  BY <1>1 DEF OrderInv, Ordered
<1>3. state # "accept"
  BY <1>1, <1>2 DEF Ordered, Record
<1>4. /\ got \in Seq(Int) /\ made \in Nat /\ outbio \in Seq(Int)
      /\ sock \in Seq(Int) /\ pos \in Nat /\ len \in Nat /\ pos <= len
      /\ len <= Len(outbio) /\ Len(outbio) \in Nat
  BY <1>2, FilterOutput DEF Ordered, Ground
<1>5. CASE made' = made /\ outbio' = outbio
  <2>1. Output' = Said'
    BY <1>1, <1>2, <1>5 DEF Output, Said
  <2>2. Buffered(Filter)'
    BY <1>1, <1>3, <1>4, <1>5 DEF Buffered, Filter
  <2> QED
    BY <1>1, <1>3, <1>4, <1>5, <2>1, <2>2 DEF Ordered, Ground
<1>6. CASE made' = made + 1 /\ outbio' = Append(outbio, made + 1)
  <2>1. made + 1 \in Int /\ pos <= Len(outbio)
    BY <1>4
  <2>2. Output' = Append(Output, made + 1)
    <3>1. Joined(got, sock, Append(outbio, made + 1), pos) = Append(Output, made + 1)
      BY <1>4, <2>1, OutputMore
    <3>2. Output' = Joined(got, sock, Append(outbio, made + 1), pos)
      BY <1>1, <1>6, Zenon DEF Output, Joined
    <3> QED
      BY <3>1, <3>2, Zenon
  <2>3. Said' = Append(Said, made + 1)
    <3>1. SaidIf(shaken, made + 1) = Append(SaidIf(shaken, made), made + 1)
      BY <1>4, SaidMore
    <3>2. Said' = SaidIf(shaken, made + 1) /\ Said = SaidIf(shaken, made)
      BY <1>1, <1>6, Zenon DEF Said, SaidIf
    <3> QED
      BY <3>1, <3>2, Zenon
  <2>4. outbio' \in Seq(Int) /\ len <= Len(outbio')
    BY <1>4, <1>6, <2>1, AddedToRest
  <2>5. Buffered(Filter)'
    BY <1>1, <1>3, <1>4, <2>4 DEF Buffered, Filter
  <2>6. Output' = Said'
    BY <1>2, <2>2, <2>3
  <2> QED
    BY <1>1, <1>3, <1>4, <1>6, <2>5, <2>6 DEF Ordered, Ground
<1> QED
  BY <1>1, <1>5, <1>6

LEMMA ClientReadsOrder ==
  ASSUME OrderInv, ClientReads
  PROVE  OrderInv'
<1>1. /\ sock # None /\ got' = got \o sock /\ sock' = None
      /\ UNCHANGED <<alive, doomed, state, phase, inbio, shaken, cur, outbio,
                     len, pos, made, blocked>>
  BY DEF ClientReads, objects, loop, output, ssl, control
<1>2. phase' # "plain"
  BY <1>1 DEF OrderInv, Fresh
<1> SUFFICES ASSUME ~ blocked, "S" \in alive
             PROVE  Ordered'
  BY <1>1, <1>2 DEF OrderInv
<1>3. Ordered
  BY DEF OrderInv
<1>4. got \in Seq(Int) /\ sock \in Seq(Int)
  BY <1>3, FilterOutput DEF Ordered, Ground
<1>5. got' \in Seq(Int) /\ sock' \in Seq(Int) /\ got' \o sock' = got \o sock
  BY <1>1, <1>4, NoRest, ConcatEmptySeq DEF None
<1>6. Output' = Output /\ Said' = Said
  BY <1>1, <1>5, Zenon DEF Output, Said
<1>7. Buffered(Filter)'
  BY <1>1, <1>3, <1>5, FilterOutput DEF Ordered, Buffered, Filter
<1>8. Ground'
  BY <1>1, <1>3, <1>5 DEF Ordered, Ground
<1> QED
  BY <1>1, <1>3, <1>6, <1>7, <1>8 DEF Ordered, Bye

\* What an operation of the filter makes of its state.
LEMMA EventOrders ==
  ASSUME OrderInv, "S" \in alive, UNCHANGED <<alive, got, made, cur>>,
         NEW f, After(Filter, f), Becomes(f), Heard(f),
         ~ blocked => Ground /\ Fine(f),
         f.thrown = "destroy" => phase' = "sow" /\ "S" \in doomed',
         phase' # "plain"
  PROVE  OrderInv'
<1> SUFFICES ASSUME ~ blocked'
             PROVE  Ordered'
  BY DEF OrderInv
<1>1. /\ state' = f.state /\ inbio' = f.inbio /\ shaken' = f.shaken
      /\ outbio' = f.outbio /\ len' = f.len /\ pos' = f.pos
      /\ sock' = f.sock /\ blocked' = f.blocked
  BY DEF Becomes
<1>2. ~ f.blocked /\ ~ blocked
  BY <1>1, FilterOutput DEF After
<1>3. Ordered /\ Ground /\ (Kept(f) \/ Ended(f))
  BY <1>2 DEF OrderInv, Fine
<1>4. Output' = OutputOf(f)
  BY <1>1, Zenon DEF Output, OutputOf, Joined
<1>5. Said' = SaidIf(f.shaken, made)
  BY <1>1, Zenon DEF Said, SaidIf
<1>6. Buffered(f)
  BY <1>3 DEF Kept, Ended
<1>7. Buffered(Filter)'
  BY <1>1, <1>6 DEF Buffered, Filter
<1>8. Ground'
  BY <1>3 DEF Ground
<1>9. state' = "accept" => inbio' = None /\ cur' = None
  <2>1. f.state = "accept" => state = "accept"
    BY FilterOutput DEF After
  <2> QED
    BY <1>1, <1>3, <2>1 DEF Heard, Ordered
<1>10. \/ Output' = Said'
       \/ Output' = Append(Said', Bye) /\ phase' = "sow" /\ "S" \in doomed'
  <2>1. CASE Kept(f)
    BY <1>4, <1>5, <2>1 DEF Kept
  <2>2. CASE Ended(f)
    <3>1. OutputOf(f) = Append(SaidIf(f.shaken, made), Bye)
      BY <2>2 DEF Ended
    <3>2. Output' = Append(Said', Bye)
      BY <1>4, <1>5, <3>1, Zenon
    <3> QED
      BY <2>2, <3>2 DEF Ended
  <2> QED
    BY <1>3, <2>1, <2>2
<1> QED
  BY <1>7, <1>8, <1>9, <1>10 DEF Ordered

\* Between two events the filter keeps what was said.
LEMMA KeptAtRest ==
  ASSUME OrderInv, "S" \in alive, phase \in {"prepare", "sleep"}, ~ blocked
  PROVE  Ground /\ Kept(Filter) /\ Heard(Filter)
<1>1. Ordered /\ Output = Said
  BY DEF OrderInv, Ordered
<1> QED
  BY <1>1, FilterOutput DEF Ordered, Kept, Heard

LEMMA PrepareOrder ==
  ASSUME FilterInv, OrderInv, PrepareSocket
  PROVE  OrderInv'
<1>1. PICK f \in IfEmpty(Filter) :
        /\ Becomes(f)
        /\ Doom(IF f.thrown = "destroy" THEN {"S"} ELSE {})
        /\ phase' = CASE f.thrown = "error" -> "stopped"
                      [] f.thrown = "destroy" -> "sow"
                      [] OTHER -> "sleep"
  BY DEF PrepareSocket
<1>2. phase = "prepare" /\ "S" \in alive /\ UNCHANGED <<alive, got, made, cur>>
  BY DEF PrepareSocket, control
<1>3. After(Filter, f)
  BY FilterIs, IfEmptyAfter
<1>4. ~ blocked => Ground /\ Fine(f)
  BY <1>2, KeptAtRest, IfEmptyKeeps, FilterOutput DEF Fine
<1>5. CASE blocked
  BY <1>1, <1>2, <1>3, <1>5, FilterOutput DEF OrderInv, After, Becomes
<1>6. CASE ~ blocked
  <2>1. Heard(f)
    BY <1>2, <1>6, KeptAtRest, IfEmptyKeeps, FilterOutput
  <2>2. f.thrown = "destroy" => phase' = "sow" /\ "S" \in doomed'
    BY <1>1 DEF Doom
  <2>3. phase' # "plain"
    BY <1>1
  <2> QED
    BY <1>1, <1>2, <1>3, <1>4, <2>1, <2>2, <2>3, EventOrders
<1> QED
  BY <1>5, <1>6

LEMMA ServeOrder ==
  ASSUME FilterInv, OrderInv, ServeSocket
  PROVE  OrderInv'
<1>1. /\ phase = "sleep" /\ phase' = "sow" /\ "S" \in alive
      /\ UNCHANGED <<alive, cur, got, made>>
  BY DEF ServeSocket, Ready, control
<1>2. PICK g \in StateChange(Filter) :
        \/ Becomes(g) /\ Doom({"S"})
        \/ /\ g.thrown = "no"
           /\ \E k \in WriteOut([g EXCEPT !.inbio = @ \o net]) :
                Becomes(k) /\ Doom(IF k.thrown = "no" THEN {} ELSE {"S"})
  BY DEF ServeSocket
<1> DEFINE fed == [g EXCEPT !.inbio = @ \o net]
<1>3. After(Filter, g) /\ IsFilter(g)
  BY FilterIs, StateChangeAfter DEF After
<1>4. After(g, fed) /\ IsFilter(fed) /\ fed.thrown = g.thrown
  <2>1. After(g, fed)
    BY <1>3, FedAfter, ZenonT(60)
  <2>2. fed.thrown = g.thrown
    BY <1>3 DEF IsFilter
  <2> QED
    BY <2>1, <2>2 DEF After
<1>5. ~ blocked => (Kept(g) => Kept(fed))
  <2>1. /\ fed.state = g.state /\ fed.outbio = g.outbio /\ fed.sock = g.sock
        /\ fed.pos = g.pos /\ fed.len = g.len /\ fed.shaken = g.shaken
    BY <1>3 DEF IsFilter
  <2> HIDE DEF fed
  <2> QED
    BY <2>1 DEF Kept, Buffered, OutputOf
<1> HIDE DEF fed
<1>6. \A k \in WriteOut(fed) : After(Filter, k)
  BY <1>3, <1>4, WriteOutAfter, AfterAfter
<1>7. CASE blocked
  <2>1. PICK k : After(Filter, k) /\ Becomes(k)
    BY <1>2, <1>3, <1>6 DEF fed
  <2> QED
    BY <1>1, <1>7, <2>1, FilterOutput DEF OrderInv, After, Becomes
<1>8. CASE ~ blocked
  <2>1. Ground /\ Kept(Filter) /\ Heard(Filter)
    BY <1>1, <1>8, KeptAtRest
  <2>2. /\ Kept(g) \/ Ended(g)
        /\ g.thrown = "no" => Kept(g)
        /\ Heard(g)
    BY <2>1, StateChangeKeeps, FilterOutput DEF Heard
  <2>3. CASE Becomes(g) /\ Doom({"S"})
    <3>1. Fine(g) /\ "S" \in doomed'
      BY <2>2, <2>3 DEF Fine, Doom
    <3> QED
      BY <1>1, <1>3, <2>1, <2>2, <2>3, <3>1, EventOrders
  <2>4. ASSUME g.thrown = "no", NEW k \in WriteOut(fed), Becomes(k),
               Doom(IF k.thrown = "no" THEN {} ELSE {"S"})
        PROVE  OrderInv'
    <3>1. Kept(fed) /\ fed.thrown = "no"
      BY <1>4, <1>5, <1>8, <2>2, <2>4
    <3>2. Fine(k) /\ Heard(k)
      BY <1>4, <2>1, <2>4, <3>1, WriteOutKeeps
    <3>3. k.thrown = "destroy" => "S" \in doomed'
      BY <2>4 DEF Doom
    <3> QED
      BY <1>1, <1>6, <2>1, <2>4, <3>2, <3>3, EventOrders
  <2> QED
    BY <1>2, <2>3, <2>4 DEF fed
<1> QED
  BY <1>7, <1>8

LEMMA NewStreamOrder ==
  ASSUME FilterInv, OrderInv, NewStream
  PROVE  OrderInv'
<1>1. /\ phase = "plain" /\ phase' = "serve" /\ state' = "accept"
      /\ UNCHANGED <<inbio, shaken, outbio, len, pos, sock, blocked, got, made, cur>>
  BY DEF NewStream, ssl, output, control
<1>2. Fresh
  BY <1>1 DEF OrderInv
<1>3. None \in Seq(Int) /\ Len(None) = 0
  BY DEF None
<1>4. Ground'
  BY <1>1, <1>2, <1>3 DEF Fresh, Ground
<1>5. Buffered(Filter)'
  BY <1>1, <1>2, <1>3 DEF Fresh, Buffered, Filter
<1>6. Output' = Said'
  <2>1. Said' = None
    <3>1. Said' = SaidIf(FALSE, 0)
      BY <1>1, <1>2 DEF Fresh, Said, SaidIf
    <3> QED
      BY <3>1, NothingSaid
  <2>2. Output' = None \o None \o SubSeq(None, 1, 0)
    <3>1. Output' = None \o None \o SubSeq(None, 0 + 1, 0)
      BY <1>1, <1>2, <1>3 DEF Fresh, Output
    <3>2. 0 + 1 = 1
      OBVIOUS
    <3> QED
      BY <3>1, <3>2
  <2>3. None \o None = None
    BY ConcatEmptySeq, <1>3 DEF None
  <2>4. None \o SubSeq(None, 1, 0) = None
    BY <1>3, NoRest
  <2> QED
    BY <2>1, <2>2, <2>3, <2>4
<1> QED
  BY <1>1, <1>2, <1>4, <1>5, <1>6 DEF OrderInv, Ordered, Fresh

LEMMA StepOrder == FilterInv /\ OrderInv /\ [Next]_vars => OrderInv'
<1> SUFFICES ASSUME FilterInv, OrderInv, [Next]_vars
             PROVE  OrderInv'
  OBVIOUS
<1>1. CASE ClientSends \/ ClientCloses \/ Idle \/ UNCHANGED vars
  <2>1. UNCHANGED <<alive, doomed, state, phase, inbio, shaken, outbio, len, pos,
                    sock, blocked, got, made, cur>>
    BY <1>1 DEF ClientSends, ClientCloses, Idle, vars, objects, loop, ssl,
                output, control
  <2> QED
    BY <2>1, Untouched
<1>2. CASE CloseN \/ ReadBye \/ ReadNothing
  <2>1. /\ UNCHANGED <<alive, state, inbio, shaken, outbio, len, pos,
                       sock, blocked, got, made, cur>>
        /\ phase = "serve" /\ phase' = "check"
    BY <1>2 DEF CloseN, ReadBye, ReadNothing, Served, ssl, output, control
  <2> QED
    BY <2>1, Untouched
<1>3. CASE Restart \/ Check
  <2>1. /\ UNCHANGED <<inbio, shaken, outbio, len, pos, sock, blocked, got, made, cur>>
        /\ phase' # "plain" /\ phase # "stopped"
        /\ phase = "sow" => Reap
        /\ Reap \/ UNCHANGED <<alive, state>>
    BY <1>3 DEF Restart, Check, ssl, output, control
  <2>2. /\ alive' \subseteq alive
        /\ phase = "sow" /\ "S" \in doomed => "S" \notin alive'
        /\ state' = "accept" => state = "accept"
    BY <2>1, ReapLeaves
  <2> QED
    BY <2>1, <2>2, Untouched
<1>4. CASE Skip \/ PrepareNothing \/ Again \/ Elsewhere
  <2>1. /\ UNCHANGED <<alive, doomed, state, inbio, shaken, outbio, len, pos,
                       sock, blocked, got, made, cur>>
        /\ phase' # "plain" /\ phase # "sow"
    BY <1>4 DEF Skip, PrepareNothing, Again, Elsewhere, Woken, objects, ssl,
                output, control
  <2> QED
    BY <2>1, Untouched
<1>5. CASE Stop
  <2>1. phase' = "stopped" /\ "S" \notin alive'
    BY <1>5, StopLeaves DEF Stop
  <2> QED
    BY <2>1 DEF OrderInv
<1>6. CASE NewStream
  BY <1>6, NewStreamOrder
<1>7. CASE ReadLine
  BY <1>7, ReadLineOrder
<1>8. CASE PrepareSocket
  BY <1>8, PrepareOrder
<1>9. CASE ServeSocket
  BY <1>9, ServeOrder
<1>10. CASE ClientReads
  BY <1>10, ClientReadsOrder
<1> QED
  BY <1>1, <1>2, <1>3, <1>4, <1>5, <1>6, <1>7, <1>8, <1>9, <1>10 DEF Next, Loop

\* What the server says reaches the client once and in order, over partial
\* writes, what is added to the buffer while it is written and the end of the
\* connection, until a write meets a full socket.
THEOREM SentOnceInOrder == Spec => []SentInOrder
BY InitInv, StepInv, InitOrder, StepOrder, OrderGives, PTL DEF Spec
=============================================================================
