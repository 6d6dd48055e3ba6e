--------------------------- MODULE Responder_proofs ---------------------------
(***************************************************************************)
(* RepliesInOrder, LockStep and WholeLines of Responder, for lines and     *)
(* words of any size, replies of any length and any bounds. What a line    *)
(* consists of plays no part in the first two.                             *)
(***************************************************************************)
EXTENDS Responder, FiniteSetTheorems, WellFoundedInduction, TLAPS

\* Until a write finds the socket full: a reply under way is not finished,
\* what was sent ends where the rest of the reply begins, and a connection
\* that closed after its output has nothing left to write.
Replies ==
  /\ made \in Nat /\ resp \in 0..made /\ pos \in Nat
  /\ sent \in Seq(Nat)
  /\ resp # 0 => pos < resp
  /\ Len(sent) = made - resp + (IF resp # 0 THEN pos ELSE 0)
  /\ \A i \in 1..Len(sent) : sent[i] = i
  /\ phase = "done" => resp = 0

Inv == ~ blocked => Replies

LEMMA InitMade == Init => made \in 0..MaxMade
<1> SUFFICES ASSUME Init PROVE made \in 0..MaxMade
  OBVIOUS
<1>1. made \in {0} \cup {n \in ReplySizes : n <= MaxMade}
  BY DEF Init
<1>2. \A n \in ReplySizes : n \in Nat
  BY ResponderConstants
<1> QED
  BY <1>1, <1>2, ResponderConstants

LEMMA InitInv == Init => Inv
BY InitMade DEF Init, Inv, Replies

\* add_response: the position stays with the byte it named.
LEMMA AddResponseKeeps ==
  ASSUME Replies, NEW n \in Nat \ {0}, AddResponse(n), UNCHANGED sent,
         phase' # "done"
  PROVE  Replies'
<1>1. /\ made' = made + n /\ resp' = resp + n
      /\ pos' = IF pos >= resp THEN 0 ELSE pos
  BY DEF AddResponse, WriteBufEmpty
<1>2. CASE resp = 0
  BY <1>1, <1>2 DEF Replies
<1>3. CASE resp # 0
  BY <1>1, <1>3 DEF Replies
<1> QED
  BY <1>2, <1>3

\* A step that neither produces nor writes.
LEMMA NothingSaid ==
  ASSUME Inv, UNCHANGED <<made, resp, pos, sent, blocked>>,
         phase' = "done" => phase = "done" \/ resp = 0
  PROVE  Inv'
BY DEF Inv, Replies

\* What read_in and check_timeout may do about the reply.
LEMMA Says ==
  ASSUME NEW next \in {"wait", "write"}, Answer \/ MakeError(next)
  PROVE  /\ phase' \in {"wait", "write", "lost"}
         /\ (\E n \in ReplySizes : AddResponse(n)) \/ UNCHANGED <<made, resp, pos>>
BY DEF Answer, MakeError

LEMMA ReadInv ==
  ASSUME Inv, ReadIn
  PROVE  Inv'
<1>0. UNCHANGED <<sent, blocked>>
  BY DEF ReadIn
<1>1. /\ phase' \in {"wait", "write", "lost"}
      /\ (\E n \in ReplySizes : AddResponse(n)) \/ UNCHANGED <<made, resp, pos>>
  <2>1. CASE Answer \/ MakeError("write")
    BY <2>1, Says
  <2>2. CASE phase' = "write" /\ UNCHANGED <<made, resp, pos>>
    BY <2>2
  <2> QED
    BY <2>1, <2>2 DEF ReadIn
<1>2. ASSUME NEW n \in ReplySizes, AddResponse(n)
      PROVE  Inv'
  BY <1>0, <1>1, <1>2, AddResponseKeeps, ResponderConstants DEF Inv
<1>3. CASE UNCHANGED <<made, resp, pos>>
  BY <1>0, <1>1, <1>3, NothingSaid
<1> QED
  BY <1>1, <1>2, <1>3

LEMMA TimedOutInv ==
  ASSUME Inv, TimedOut
  PROVE  Inv'
<1>1. /\ phase' \in {"wait", "write", "lost"} /\ UNCHANGED <<sent, blocked>>
      /\ (\E n \in ReplySizes : AddResponse(n)) \/ UNCHANGED <<made, resp, pos>>
  BY Says DEF TimedOut
<1>2. ASSUME NEW n \in ReplySizes, AddResponse(n)
      PROVE  Inv'
  BY <1>1, <1>2, AddResponseKeeps, ResponderConstants DEF Inv
<1>3. CASE UNCHANGED <<made, resp, pos>>
  BY <1>1, <1>3, NothingSaid
<1> QED
  BY <1>1, <1>2, <1>3

\* Appending the numbers that follow.
LEMMA Continued ==
  ASSUME NEW s \in Seq(Nat), NEW t \in Seq(Nat)
  PROVE  /\ s \o t \in Seq(Nat) /\ Len(s \o t) = Len(s) + Len(t)
         /\ \A i \in 1..Len(s) : (s \o t)[i] = s[i]
         /\ \A i \in (Len(s) + 1)..(Len(s) + Len(t)) : (s \o t)[i] = t[i - Len(s)]
OBVIOUS

\* What is written continues what was sent.
LEMMA WrittenInOrder ==
  ASSUME Replies, resp # 0, NEW k \in Nat, Written(k)
  PROVE  /\ k \in 1..(resp - pos) /\ pos' = pos + k
         /\ sent' \in Seq(Nat)
         /\ Len(sent') = Len(sent) + k
         /\ \A i \in 1..Len(sent') : sent'[i] = i
<1>1. /\ k \in 1..(resp - pos) /\ pos' = pos + k
      /\ sent' = sent \o Unwritten(k)
  BY DEF Written
<1>2. /\ sent \in Seq(Nat) /\ Len(sent) = made - resp + pos
      /\ Len(sent) \in Nat
      /\ \A i \in 1..Len(sent) : sent[i] = i
  BY DEF Replies
<1>3. /\ Unwritten(k) \in Seq(Nat) /\ Len(Unwritten(k)) = k
      /\ \A i \in 1..k : Unwritten(k)[i] = Len(sent) + i
  <2>1. Unwritten(k) = [i \in 1..k |-> Len(sent) + i]
    BY <1>2 DEF Unwritten
  <2>2. \A i \in 1..k : Len(sent) + i \in Nat
    BY <1>2
  <2> QED
    BY <2>1, <2>2
<1>4. PICK s \in Seq(Nat), t \in Seq(Nat) :
        /\ s = sent /\ t = Unwritten(k) /\ sent' = s \o t
        /\ Len(t) = k /\ Len(s) \in Nat
        /\ \A i \in 1..Len(s) : s[i] = i
        /\ \A i \in 1..k : t[i] = Len(s) + i
  BY <1>1, <1>2, <1>3
<1>5. sent' \in Seq(Nat) /\ Len(sent') = Len(s) + k
  <2>1. s \o t \in Seq(Nat) /\ Len(s \o t) = Len(s) + Len(t)
    BY Continued
  <2> QED
    BY <1>4, <2>1
<1>6. ASSUME NEW i \in 1..Len(sent')
      PROVE  sent'[i] = i
  <2>1. CASE i <= Len(s)
    <3>1. i \in 1..Len(s)
      BY <1>4, <1>5, <2>1
    <3>2. (s \o t)[i] = s[i]
      BY <3>1, Continued
    <3> QED
      BY <1>4, <3>1, <3>2
  <2>2. CASE i > Len(s)
    <3>1. i - Len(s) \in 1..k /\ i \in (Len(s) + 1)..(Len(s) + Len(t))
      BY <1>4, <1>5, <2>2
    <3>2. (s \o t)[i] = t[i - Len(s)]
      BY <3>1, Continued
    <3>3. t[i - Len(s)] = Len(s) + (i - Len(s))
      BY <1>4, <3>1
    <3> QED
      BY <1>4, <1>5, <3>2, <3>3
  <2> QED
    BY <1>4, <1>5, <2>1, <2>2
<1> QED
  BY <1>1, <1>4, <1>5, <1>6

LEMMA WriteInv ==
  ASSUME Inv, WriteOut
  PROVE  Inv'
<1> SUFFICES ASSUME ~ blocked, ~ blocked' PROVE Replies'
  <2>1. blocked => blocked'
    BY DEF WriteOut, Blocked, Written
  <2> QED
    BY <2>1 DEF Inv
<1>1. /\ Replies /\ resp # 0 /\ pos < resp /\ phase' = "wait"
      /\ UNCHANGED made
  BY DEF Inv, Replies, WriteOut, ResponseReady
<1>2. ~ WriteBufEmpty
  BY <1>1 DEF WriteBufEmpty, Replies
<1>3. PICK k \in Nat :
        /\ Written(k)
        /\ IF pos' >= resp THEN resp' = 0 ELSE UNCHANGED resp
  BY <1>2, ResponderConstants DEF WriteOut, Blocked, FinishedWriting
<1>4. /\ k \in 1..(resp - pos) /\ pos' = pos + k
      /\ sent' \in Seq(Nat)
      /\ Len(sent') = Len(sent) + k
      /\ \A i \in 1..Len(sent') : sent'[i] = i
  BY <1>1, <1>3, WrittenInOrder
<1>5. /\ made \in Nat /\ resp \in 0..made /\ pos \in Nat
      /\ Len(sent) = made - resp + pos
  BY <1>1 DEF Replies
<1>6. CASE pos' >= resp /\ resp' = 0
  BY <1>1, <1>4, <1>5, <1>6 DEF Replies
<1>7. CASE ~ (pos' >= resp) /\ resp' = resp
  BY <1>1, <1>4, <1>5, <1>7 DEF Replies
<1> QED
  BY <1>3, <1>6, <1>7

LEMMA StepInv == Inv /\ [Next]_vars => Inv'
<1> SUFFICES ASSUME Inv, [Next]_vars PROVE Inv'
  OBVIOUS
<1>1. ASSUME NEW last \in BOOLEAN, Type(last) PROVE Inv'
  BY <1>1, NothingSaid DEF Type
<1>2. ASSUME NEW n \in ReplySizes, Intrude(n) PROVE Inv'
  BY <1>2, AddResponseKeeps, ResponderConstants DEF Intrude, Inv
<1>3. CASE Ignore
  BY <1>3, NothingSaid DEF Ignore
<1>4. CASE Part
  BY <1>4, NothingSaid DEF Part, ResponseReady
<1>5. CASE ReadIn
  BY <1>5, ReadInv
<1>6. CASE WriteOut
  BY <1>6, WriteInv
<1>7. CASE NothingToWrite
  BY <1>7, NothingSaid DEF NothingToWrite
<1>8. CASE TimedOut
  BY <1>8, TimedOutInv
<1>9. CASE Lost
  BY <1>9, NothingSaid DEF Lost
<1>10. CASE UNCHANGED vars
  BY <1>10, NothingSaid DEF vars
<1> QED
  BY <1>1, <1>2, <1>3, <1>4, <1>5, <1>6, <1>7, <1>8, <1>9, <1>10 DEF Next

\* IOContextWriter and IOContextResponder (lib/iocontextwriter.cc,
\* lib/iocontextresponder.hh): replies are sent once and in order, over
\* partial writes and replies that grow meanwhile.
THEOREM SentOnce == Spec => []RepliesInOrder
<1>1. Inv => RepliesInOrder
  BY DEF Inv, Replies, RepliesInOrder, ResponseReady
<1> QED
  BY <1>1, InitInv, StepInv, PTL DEF Spec

\* A line is taken up, and the connection closed after output, only when
\* nothing is left to be written.
LEMMA Locked ==
  ASSUME Inv, [Next]_vars, heard' # heard \/ phase' = "done", ~ blocked
  PROVE  Len(sent) = made
<1>1. resp = 0
  <2>1. CASE phase = "done"
    BY <2>1 DEF Inv, Replies
  <2>2. CASE phase # "done"
    <3>1. CASE ReadIn
      BY <3>1 DEF ReadIn, ResponseReady
    <3>2. CASE Part
      BY <3>2 DEF Part, ResponseReady
    <3>3. CASE UNCHANGED heard /\ phase' # "done"
      BY <3>3
    <3>4. ReadIn \/ Part \/ (heard' = heard /\ phase' # "done")
      <4>1. CASE \E last \in BOOLEAN : Type(last)
        BY <2>2, <4>1 DEF Type
      <4>2. CASE \E n \in ReplySizes : Intrude(n)
        BY <2>2, <4>2 DEF Intrude
      <4>3. CASE Ignore \/ WriteOut \/ NothingToWrite
        BY <2>2, <4>3 DEF Ignore, WriteOut, NothingToWrite
      <4>4. CASE TimedOut
        BY <2>2, <4>4, Says DEF TimedOut
      <4>5. CASE Lost
        BY <2>2, <4>5 DEF Lost
      <4>6. CASE UNCHANGED vars
        BY <2>2, <4>6 DEF vars
      <4> QED
        BY <4>1, <4>2, <4>3, <4>4, <4>5, <4>6 DEF Next
    <3> QED
      BY <3>1, <3>2, <3>3, <3>4
  <2> QED
    BY <2>1, <2>2
<1> QED
  BY <1>1 DEF Inv, Replies

\* IOContextResponder::read_in: the lock step of reading and answering, and of
\* closing, among timeouts, failures and exceptions that end the connection at
\* any other time.
THEOREM OneByOne == Spec => LockStep
<1>1. Inv /\ [Next]_vars =>
        [(heard' # heard \/ phase' = "done") /\ ~blocked => Len(sent) = made]_vars
  BY Locked
<1> QED
  BY <1>1, InitInv, StepInv, PTL DEF Spec, LockStep
-----------------------------------------------------------------------------
\* A set of numbers has a least member: the intervals up to its members are
\* finite sets, and so one of them contains no other.
LEMMA LeastOf ==
  ASSUME NEW A \in SUBSET Nat, A # {}
  PROVE  \E n \in A : \A m \in A : n <= m
<1> DEFINE T == {0..n : n \in A}
           R == StrictSubsetOrdering(Nat)
           F == FiniteSubsetsOf(Nat)
<1>1. IsWellFoundedOn(R, F)
  BY FS_StrictSubsetOrderingWellFounded
<1>2. T \subseteq F /\ T # {}
  <2>1. \A n \in A : 0..n \in SUBSET Nat /\ IsFiniteSet(0..n)
    BY FS_Interval
  <2> QED
    BY <2>1 DEF FiniteSubsetsOf
<1> HIDE DEF R, F
<1>3. PICK x \in T : \A y \in T : ~ (<<y, x>> \in R)
  <2> HIDE DEF T
  <2> QED
    BY <1>1, <1>2, WFMin
<1>4. PICK n \in A : x = 0..n
  BY <1>3
<1>5. ASSUME NEW m \in A, ~ (n <= m)
      PROVE  FALSE
  <2>1. m \in Nat /\ n \in Nat /\ m < n
    BY <1>5
  <2>2. (0..m) \subseteq (0..n) /\ n \in 0..n /\ n \notin 0..m
    BY <2>1
  <2>3. 0..m \in SUBSET Nat /\ 0..n \in SUBSET Nat
    BY <2>1
  <2>4. <<0..m, 0..n>> \in R
    BY <2>2, <2>3 DEF R, StrictSubsetOrdering
  <2> QED
    BY <1>3, <1>4, <2>4
<1> QED
  BY <1>5

\* Induction, for a set of numbers in place of a predicate.
LEMMA Counting ==
  ASSUME NEW A, 0 \in A, \A n \in Nat : n \in A => n + 1 \in A
  PROVE  Nat \subseteq A
<1> SUFFICES ASSUME NEW n0 \in Nat, n0 \notin A PROVE FALSE
  OBVIOUS
<1> DEFINE B == {n \in Nat : n \notin A}
<1>1. B \in SUBSET Nat /\ B # {}
  OBVIOUS
<1>2. PICK n \in B : \A m \in B : n <= m
  <2> HIDE DEF B
  <2> QED BY <1>1, LeastOf
<1>3. n # 0 /\ n \in Nat
  BY <1>2
<1>4. n - 1 \in Nat /\ n - 1 \notin B /\ (n - 1) + 1 = n
  BY <1>2, <1>3
<1> QED
  BY <1>2, <1>4

\* What appending, and taking the first n bytes, make of a sequence.
LEMMA Sequenced ==
  ASSUME NEW S, NEW s \in Seq(S), NEW t \in Seq(S)
  PROVE  /\ s \o t \in Seq(S) /\ Len(s \o t) = Len(s) + Len(t)
         /\ \A i \in 1..Len(s) : (s \o t)[i] = s[i]
         /\ \A i \in 1..Len(t) : (s \o t)[Len(s) + i] = t[i]
OBVIOUS

LEMMA Split ==
  ASSUME NEW S, NEW s \in Seq(S), NEW n \in 0..Len(s)
  PROVE  /\ SubSeq(s, 1, n) \in Seq(S) /\ Len(SubSeq(s, 1, n)) = n
         /\ \A i \in 1..n : SubSeq(s, 1, n)[i] = s[i]
         /\ SubSeq(s, n + 1, Len(s)) \in Seq(S)
         /\ Len(SubSeq(s, n + 1, Len(s))) = Len(s) - n
         /\ \A i \in 1..(Len(s) - n) : SubSeq(s, n + 1, Len(s))[i] = s[n + i]
<1>1. \A i \in 1..n : s[i] \in S
  OBVIOUS
<1>2. \A i \in (n+1)..Len(s) : s[i] \in S
  OBVIOUS
<1> QED
  BY <1>1, <1>2

LEMMA Grown ==
  ASSUME NEW S, NEW s \in Seq(S), NEW e \in S
  PROVE  /\ Append(s, e) \in Seq(S) /\ Len(Append(s, e)) = Len(s) + 1
         /\ \A i \in 1..Len(s) : Append(s, e)[i] = s[i]
         /\ Append(s, e)[Len(s) + 1] = e
OBVIOUS

LEMMA Empty ==
  ASSUME NEW S
  PROVE  <<>> \in Seq(S) /\ Len(<<>>) = 0
OBVIOUS

\* What is in the line buffer never fills it: read_in empties a full one.
TypeInv == TypeOK /\ Len(line) < LineMax

LEMMA InitType == Init => TypeInv
<1> SUFFICES ASSUME Init PROVE TypeInv
  OBVIOUS
<1>1. /\ typed \in Seq(Bytes) /\ inq \in Seq(Bytes) /\ line \in Seq(Bytes)
      /\ heard \in Seq(Seq(Bytes)) /\ sent \in Seq(1..MaxMade)
      /\ Len(line) = 0
  BY Empty DEF Init
<1>2. made \in 0..MaxMade /\ resp \in 0..made /\ pos \in 0..(WordSize - 1)
  BY InitMade, ResponderConstants DEF Init
<1>3. /\ closing \in BOOLEAN /\ quitting \in BOOLEAN /\ cut \in BOOLEAN /\ blocked \in BOOLEAN
      /\ phase = "wait"
  BY DEF Init
<1>4. Len(line) < LineMax
  BY <1>1, ResponderConstants
<1> QED
  BY <1>1, <1>2, <1>3, <1>4 DEF TypeInv, TypeOK

\* read_in stops at the first newline, at a full buffer or for want of bytes.
LEMMA TakenFacts ==
  ASSUME TypeInv
  PROVE  /\ Taken \in 0..Len(inq) /\ Taken <= LineMax - Len(line)
         /\ \A i \in 1..Len(inq) : i < Taken => ~ inq[i].last
<1> DEFINE ends == {i \in 1..Len(inq) : inq[i].last}
           full == LineMax - Len(line)
           stops == ends \cup {full, Len(inq)}
<1>1. full \in Nat /\ Len(inq) \in Nat /\ stops \in SUBSET Nat
  BY ResponderConstants DEF TypeInv, TypeOK
<1>2. PICK n \in stops : \A m \in stops : n <= m
  <2> HIDE DEF ends, full
  <2> QED BY <1>1, LeastOf
<1>3. Taken \in stops /\ \A m \in stops : Taken <= m
  BY <1>2 DEF Taken
<1>4. Taken \in Nat /\ Taken <= full /\ Taken <= Len(inq)
  BY <1>1, <1>3
<1>5. ASSUME NEW i \in 1..Len(inq), i < Taken, inq[i].last
      PROVE  FALSE
  BY <1>3, <1>4, <1>5
<1> QED
  BY <1>1, <1>4, <1>5

\* What read_in has once it has taken those bytes, and what it leaves.
LEMMA TakenType ==
  ASSUME TypeInv
  PROVE  /\ line \o SubSeq(inq, 1, Taken) \in Seq(Bytes)
         /\ SubSeq(inq, Taken + 1, Len(inq)) \in Seq(Bytes)
         /\ Len(line \o SubSeq(inq, 1, Taken)) = Len(line) + Taken
<1>1. line \in Seq(Bytes) /\ inq \in Seq(Bytes) /\ Taken \in 0..Len(inq)
  BY TakenFacts DEF TypeInv, TypeOK
<1>2. /\ SubSeq(inq, 1, Taken) \in Seq(Bytes) /\ Len(SubSeq(inq, 1, Taken)) = Taken
      /\ SubSeq(inq, Taken + 1, Len(inq)) \in Seq(Bytes)
  BY <1>1, Split
<1> QED
  BY <1>1, <1>2, Sequenced

LEMMA AddResponseType ==
  ASSUME TypeInv, NEW n \in ReplySizes, AddResponse(n)
  PROVE  /\ made' \in 0..MaxMade /\ resp' \in 0..made'
         /\ pos' \in 0..(WordSize - 1)
BY ResponderConstants DEF TypeInv, TypeOK, AddResponse

LEMMA TypedByte ==
  ASSUME TypeInv, NEW last \in BOOLEAN, Type(last)
  PROVE  typed' \in Seq(Bytes) /\ inq' \in Seq(Bytes)
<1> DEFINE before == typed[Len(typed)]
           byte == IF typed = <<>> THEN Byte(1, 1, last)
                   ELSE IF before.last THEN Byte(before.line + 1, 1, last)
                   ELSE Byte(before.line, before.col + 1, last)
<1>1. typed \in Seq(Bytes) /\ inq \in Seq(Bytes)
  BY DEF TypeInv, TypeOK
<1>2. typed # <<>> => before \in Bytes
  BY <1>1
<1>3. byte \in Bytes
  BY <1>2 DEF Bytes, Byte
<1> QED
  BY <1>1, <1>3 DEF Type

\* What finished_reading and make_error leave.
LEMMA SaysType ==
  ASSUME TypeInv, NEW next \in {"wait", "write"},
         Answer \/ (MakeError(next) /\ UNCHANGED quitting)
  PROVE  /\ made' \in 0..MaxMade /\ resp' \in 0..made'
         /\ pos' \in 0..(WordSize - 1)
         /\ closing' \in BOOLEAN /\ quitting' \in BOOLEAN
         /\ phase' \in {"wait", "write", "lost"}
<1>1. /\ (\E n \in ReplySizes : AddResponse(n)) \/ UNCHANGED <<made, resp, pos>>
      /\ phase' \in {"wait", "write", "lost"}
  BY Says
<1>2. closing' \in BOOLEAN /\ quitting' \in BOOLEAN
  BY DEF Answer, MakeError, TypeInv, TypeOK
<1>3. /\ made' \in 0..MaxMade /\ resp' \in 0..made'
      /\ pos' \in 0..(WordSize - 1)
  <2>1. ASSUME NEW n \in ReplySizes, AddResponse(n)
        PROVE  /\ made' \in 0..MaxMade /\ resp' \in 0..made'
               /\ pos' \in 0..(WordSize - 1)
    BY <2>1, AddResponseType
  <2>2. CASE UNCHANGED <<made, resp, pos>>
    BY <2>2 DEF TypeInv, TypeOK
  <2> QED
    BY <1>1, <2>1, <2>2
<1> QED
  BY <1>1, <1>2, <1>3

LEMMA ReadType ==
  ASSUME TypeInv, ReadIn
  PROVE  TypeInv'
<1> DEFINE got == line \o SubSeq(inq, 1, Taken)
<1>1. /\ got \in Seq(Bytes) /\ Len(got) \in Nat
      /\ inq' \in Seq(Bytes)
  BY TakenType DEF ReadIn
<1>2. UNCHANGED <<typed, sent, cut, blocked>>
  BY DEF ReadIn
<1> DEFINE Said == /\ made' \in 0..MaxMade /\ resp' \in 0..made'
                   /\ pos' \in 0..(WordSize - 1)
                   /\ closing' \in BOOLEAN /\ quitting' \in BOOLEAN
                   /\ phase' \in {"wait", "write", "lost"}
<1>3. ASSUME Said, line' = <<>>,
             heard' = Append(heard, got) \/ heard' = heard
      PROVE  TypeInv'
  <2>1. heard' \in Seq(Seq(Bytes))
    <3>1. heard \in Seq(Seq(Bytes))
      BY DEF TypeInv, TypeOK
    <3>2. Append(heard, got) \in Seq(Seq(Bytes))
      BY <1>1, <3>1, Grown
    <3> QED
      BY <1>3, <3>1, <3>2
  <2>2. line' \in Seq(Bytes) /\ Len(line') < LineMax
    <3>1. line' \in Seq(Bytes) /\ Len(line') = 0
      BY <1>3, Empty
    <3> QED
      BY <3>1, ResponderConstants
  <2> QED
    BY <1>1, <1>2, <1>3, <2>1, <2>2 DEF TypeInv, TypeOK
<1>4. ASSUME Said, Len(got) < LineMax, line' = got, UNCHANGED heard
      PROVE  TypeInv'
  BY <1>1, <1>2, <1>4 DEF TypeInv, TypeOK
<1>5. CASE heard' = Append(heard, got) /\ line' = <<>> /\ Answer
  <2>1. Said
    BY <1>5, SaysType
  <2> HIDE DEF Said, got
  <2> QED
    BY <1>3, <1>5, <2>1
<1>6. CASE line' = <<>> /\ MakeError("write") /\ UNCHANGED <<heard, quitting>>
  <2>1. Said
    BY <1>6, SaysType
  <2> HIDE DEF Said, got
  <2> QED
    BY <1>3, <1>6, <2>1
<1>7. CASE /\ Len(got) < LineMax /\ line' = got /\ UNCHANGED <<heard, quitting>>
           /\ \/ phase' = "write" /\ UNCHANGED <<made, resp, pos, closing>>
              \/ MakeError("write")
  <2>1. CASE MakeError("write")
    <3>1. Said
      BY <1>7, <2>1, SaysType
    <3> HIDE DEF Said, got
    <3> QED
      BY <1>4, <1>7, <3>1
  <2>2. CASE phase' = "write" /\ UNCHANGED <<made, resp, pos, closing>>
    <3>1. Said
      BY <1>7, <2>2 DEF TypeInv, TypeOK
    <3> HIDE DEF Said, got
    <3> QED
      BY <1>4, <1>7, <3>1
  <2> QED
    BY <1>7, <2>1, <2>2
<1> HIDE DEF Said, got
<1> QED
  BY <1>5, <1>6, <1>7 DEF ReadIn, got

LEMMA WriteType ==
  ASSUME TypeInv, WriteOut
  PROVE  TypeInv'
<1>1. /\ UNCHANGED <<typed, inq, heard, made, closing, quitting, cut>>
      /\ phase' = "wait"
      /\ \/ resp' = 0 /\ line' = <<>>
         \/ UNCHANGED <<resp, line>>
  BY DEF WriteOut, FinishedWriting
<1>2. made \in 0..MaxMade /\ resp \in 0..made /\ pos \in 0..(WordSize - 1)
  BY DEF TypeInv, TypeOK
<1>3. /\ resp' \in 0..made' /\ line' \in Seq(Bytes) /\ Len(line') < LineMax
  <2>1. CASE resp' = 0 /\ line' = <<>>
    <3>1. line' \in Seq(Bytes) /\ Len(line') = 0
      BY <2>1, Empty
    <3> QED
      BY <1>1, <1>2, <2>1, <3>1, ResponderConstants
  <2>2. CASE UNCHANGED <<resp, line>>
    BY <1>1, <1>2, <2>2 DEF TypeInv, TypeOK
  <2> QED
    BY <1>1, <2>1, <2>2
<1>4. CASE UNCHANGED <<pos, sent, blocked>>
  BY <1>1, <1>3, <1>4 DEF TypeInv, TypeOK
<1>5. CASE Blocked
  <2>1. pos' \in 0..(WordSize - 1)
    BY <1>2, <1>5, ResponderConstants DEF Blocked
  <2> QED
    BY <1>1, <1>3, <1>5, <2>1 DEF TypeInv, TypeOK, Blocked
<1>6. ASSUME NEW k \in 1..MaxMade, Written(k)
      PROVE  TypeInv'
  <2>1. k \in 1..(resp - pos) /\ pos' = pos + k /\ UNCHANGED blocked
    BY <1>6 DEF Written
  <2>2. pos' \in 0..(WordSize - 1)
    BY <1>2, <2>1, ResponderConstants
  <2>3. Unwritten(k) \in Seq(1..MaxMade)
    <3>1. \A i \in 1..k : made - resp + pos + i \in 1..MaxMade
      BY <1>2, <2>1, ResponderConstants
    <3> QED
      BY <2>1, <3>1 DEF Unwritten
  <2>4. sent' \in Seq(1..MaxMade)
    BY <1>6, <2>3 DEF TypeInv, TypeOK, Written
  <2> QED
    BY <1>1, <1>3, <2>1, <2>2, <2>4 DEF TypeInv, TypeOK
<1> QED
  BY <1>4, <1>5, <1>6 DEF WriteOut

LEMMA StepType == TypeInv /\ [Next]_vars => TypeInv'
<1> SUFFICES ASSUME TypeInv, [Next]_vars PROVE TypeInv'
  OBVIOUS
<1>1. ASSUME NEW last \in BOOLEAN, Type(last) PROVE TypeInv'
  BY <1>1, TypedByte DEF Type, TypeInv, TypeOK
<1>2. ASSUME NEW n \in ReplySizes, Intrude(n) PROVE TypeInv'
  <2>1. cut' \in BOOLEAN /\ closing' \in BOOLEAN
    BY <1>2 DEF Intrude, TypeInv, TypeOK
  <2>2. /\ made' \in 0..MaxMade /\ resp' \in 0..made'
        /\ pos' \in 0..(WordSize - 1)
    BY <1>2, AddResponseType DEF Intrude
  <2> QED
    BY <1>2, <2>1, <2>2 DEF Intrude, TypeInv, TypeOK
<1>3. CASE Ignore \/ Part \/ Lost \/ NothingToWrite
  BY <1>3 DEF Ignore, Part, Lost, NothingToWrite, TypeInv, TypeOK
<1>4. CASE ReadIn
  BY <1>4, ReadType
<1>5. CASE WriteOut
  BY <1>5, WriteType
<1>6. CASE TimedOut
  <2>1. /\ made' \in 0..MaxMade /\ resp' \in 0..made'
        /\ pos' \in 0..(WordSize - 1)
        /\ closing' \in BOOLEAN /\ quitting' \in BOOLEAN
        /\ phase' \in {"wait", "write", "lost"}
    BY <1>6, SaysType DEF TimedOut
  <2> QED
    BY <1>6, <2>1 DEF TimedOut, TypeInv, TypeOK
<1>7. CASE UNCHANGED vars
  BY <1>7 DEF vars, TypeInv, TypeOK
<1> QED
  BY <1>1, <1>2, <1>3, <1>4, <1>5, <1>6, <1>7 DEF Next

\* The buffers, the counters and the positions keep their types; in
\* particular a position that wrapped round still is an unsigned number.
THEOREM TypeCorrect == Spec => []TypeOK
<1>1. TypeInv => TypeOK
  BY DEF TypeInv
<1> QED
  BY <1>1, InitType, StepType, PTL DEF Spec

---------------------------------------------------------------------------

\* Where a byte is in what the client types, and where the next one is.
At(b) == <<b.line, b.col>>
After(b) == IF b.last THEN <<b.line + 1, 1>> ELSE <<b.line, b.col + 1>>

\* Where the byte is that the client types next, and the one the server is to
\* read next.
Due == IF typed = <<>> THEN <<1, 1>> ELSE After(typed[Len(typed)])
Here == <<Len(heard) + 1, Len(line) + 1>>

\* What is in the line buffer and what has not been read are the client's
\* current line and what follows it, byte after byte.
InStep ==
  /\ \A i \in 1..Len(line) : line[i] = Byte(Len(heard) + 1, i, FALSE)
  /\ inq = <<>> => Here = Due
  /\ inq # <<>> => At(inq[1]) = Here /\ After(inq[Len(inq)]) = Due
  /\ \A i \in 1..Len(inq) : i < Len(inq) => At(inq[i + 1]) = After(inq[i])

\* More lines are to be read.
Reading == ~ closing /\ phase # "lost"

LinesInv ==
  ~ cut =>
    /\ WholeLines
    /\ Reading => InStep /\ (line # <<>> => resp = 0)

LEMMA InitLines == Init => LinesInv
<1> SUFFICES ASSUME Init PROVE LinesInv
  OBVIOUS
<1>1. line = <<>> /\ inq = <<>> /\ heard = <<>> /\ typed = <<>>
  BY DEF Init
<1>2. Len(line) = 0 /\ Len(heard) = 0 /\ Len(inq) = 0
  BY <1>1
<1>3. WholeLines
  BY <1>2 DEF WholeLines
<1>4. InStep
  BY <1>1, <1>2 DEF InStep, Here, Due
<1> QED
  BY <1>1, <1>3, <1>4 DEF LinesInv

LEMMA TypeLines ==
  ASSUME TypeInv, LinesInv, NEW last \in BOOLEAN, Type(last)
  PROVE  LinesInv'
<1> DEFINE before == typed[Len(typed)]
           byte == IF typed = <<>> THEN Byte(1, 1, last)
                   ELSE IF before.last THEN Byte(before.line + 1, 1, last)
                   ELSE Byte(before.line, before.col + 1, last)
<1>1. typed \in Seq(Bytes) /\ inq \in Seq(Bytes)
  BY DEF TypeInv, TypeOK
<1>2. At(byte) = Due /\ byte \in Bytes
  <2>1. typed # <<>> => before \in Bytes
    BY <1>1
  <2> QED
    BY <2>1 DEF At, After, Due, Byte, Bytes
<1>3. /\ typed' = Append(typed, byte) /\ inq' = Append(inq, byte)
      /\ UNCHANGED <<line, heard, made, resp, pos, sent, closing, phase, cut,
                     blocked>>
  BY DEF Type
<1> HIDE DEF byte
<1>4. /\ Len(typed') = Len(typed) + 1 /\ typed'[Len(typed')] = byte
      /\ Len(inq') = Len(inq) + 1 /\ inq'[Len(inq')] = byte
      /\ \A i \in 1..Len(inq) : inq'[i] = inq[i]
      /\ Len(typed) \in Nat /\ Len(inq) \in Nat
      /\ typed' # <<>> /\ inq' # <<>>
      /\ inq = <<>> <=> Len(inq) = 0
  BY <1>1, <1>2, <1>3, Grown
<1>5. Due' = After(byte) /\ Here' = Here
  BY <1>3, <1>4 DEF Due, Here
<1>6. WholeLines => WholeLines'
  BY <1>3 DEF WholeLines
<1>7. ASSUME InStep PROVE InStep'
  <2>1. At(inq'[1]) = Here'
    <3>1. CASE inq = <<>>
      BY <1>2, <1>4, <1>5, <1>7, <3>1 DEF InStep
    <3>2. CASE inq # <<>>
      BY <1>4, <1>5, <1>7, <3>2 DEF InStep
    <3> QED
      BY <3>1, <3>2
  <2>2. After(inq'[Len(inq')]) = Due'
    BY <1>4, <1>5
  <2>3. ASSUME NEW i \in 1..Len(inq'), i < Len(inq')
        PROVE  At(inq'[i + 1]) = After(inq'[i])
    <3>1. i \in 1..Len(inq) /\ inq'[i] = inq[i]
      BY <1>4, <2>3
    <3>2. CASE i < Len(inq)
      <4>1. i + 1 \in 1..Len(inq) /\ inq'[i + 1] = inq[i + 1]
        BY <1>4, <3>1, <3>2
      <4> QED
        BY <1>7, <3>1, <3>2, <4>1 DEF InStep
    <3>3. CASE i = Len(inq)
      <4>1. inq'[i + 1] = byte /\ inq # <<>>
        BY <1>4, <3>1, <3>3
      <4> QED
        BY <1>2, <1>7, <3>1, <3>3, <4>1 DEF InStep
    <3> QED
      BY <1>4, <3>1, <3>2, <3>3
  <2>4. \A i \in 1..Len(line') : line'[i] = Byte(Len(heard') + 1, i, FALSE)
    BY <1>3, <1>7 DEF InStep
  <2> QED
    BY <1>4, <2>1, <2>2, <2>3, <2>4 DEF InStep
<1> QED
  BY <1>3, <1>6, <1>7 DEF LinesInv, Reading

\* The bytes that are taken up to the first newline are the next ones of the
\* current line.
LEMMA TakenInStep ==
  ASSUME TypeInv, InStep
  PROVE  \A i \in 1..Taken : At(inq[i]) = <<Len(heard) + 1, Len(line) + i>>
<1>1. /\ Taken \in 0..Len(inq)
      /\ \A i \in 1..Len(inq) : i < Taken => ~ inq[i].last
  BY TakenFacts
<1>2. Len(line) \in Nat /\ Len(inq) \in Nat /\ inq \in Seq(Bytes)
  BY DEF TypeInv, TypeOK
<1> DEFINE A == {n \in Nat : n + 1 \in 1..Taken =>
                   At(inq[n + 1]) = <<Len(heard) + 1, Len(line) + (n + 1)>>}
<1>3. 0 \in A
  <2>1. ASSUME 1 \in 1..Taken PROVE At(inq[1]) = <<Len(heard) + 1, Len(line) + 1>>
    <3>1. inq # <<>>
      BY <1>1, <1>2, <2>1
    <3> QED
      BY <3>1 DEF InStep, Here
  <2> QED
    BY <2>1
<1>4. ASSUME NEW n \in Nat, n \in A PROVE n + 1 \in A
  <2>1. ASSUME (n + 1) + 1 \in 1..Taken
        PROVE  At(inq[(n + 1) + 1]) = <<Len(heard) + 1, Len(line) + ((n + 1) + 1)>>
    <3>1. n + 1 \in 1..Taken /\ n + 1 \in 1..Len(inq) /\ n + 1 < Taken
          /\ n + 1 < Len(inq)
      BY <1>1, <1>2, <2>1
    <3>2. At(inq[n + 1]) = <<Len(heard) + 1, Len(line) + (n + 1)>>
      BY <1>4, <3>1
    <3>3. ~ inq[n + 1].last
      BY <1>1, <3>1
    <3>4. At(inq[(n + 1) + 1]) = After(inq[n + 1])
      BY <3>1 DEF InStep
    <3>5. After(inq[n + 1]) = <<inq[n + 1].line, inq[n + 1].col + 1>>
      BY <3>3 DEF After
    <3>6. inq[n + 1].line = Len(heard) + 1 /\ inq[n + 1].col = Len(line) + (n + 1)
      BY <3>2 DEF At
    <3>7. Len(line) + (n + 1) + 1 = Len(line) + ((n + 1) + 1)
      BY <1>2
    <3> QED
      BY <3>4, <3>5, <3>6, <3>7
  <2> QED
    BY <2>1
<1> HIDE DEF A
<1>5. Nat \subseteq A
  BY <1>3, <1>4, Counting
<1>6. ASSUME NEW i \in 1..Taken
      PROVE  At(inq[i]) = <<Len(heard) + 1, Len(line) + i>>
  <2>1. i - 1 \in Nat /\ (i - 1) + 1 = i
    BY <1>1
  <2>2. i - 1 \in A
    BY <1>5, <2>1
  <2> QED
    BY <2>1, <2>2 DEF A
<1> QED
  BY <1>6

LEMMA ByteFields ==
  ASSUME NEW b \in Bytes
  PROVE  b = Byte(b.line, b.col, b.last)
BY DEF Bytes, Byte

\* Taking up a line, or a part of one.
LEMMA ReadLines ==
  ASSUME TypeInv, LinesInv, ReadIn
  PROVE  LinesInv'
<1> SUFFICES ASSUME ~ cut PROVE LinesInv'
  BY DEF LinesInv, ReadIn
<1> DEFINE got == line \o SubSeq(inq, 1, Taken)
           rest == SubSeq(inq, Taken + 1, Len(inq))
<1>1. /\ WholeLines /\ InStep /\ resp = 0 /\ ~ cut'
      /\ UNCHANGED typed /\ inq' = rest
  BY DEF LinesInv, Reading, ReadIn, ResponseReady
<1>2. /\ line \in Seq(Bytes) /\ inq \in Seq(Bytes) /\ heard \in Seq(Seq(Bytes))
      /\ Len(line) \in Nat /\ Len(inq) \in Nat /\ Len(heard) \in Nat
  BY DEF TypeInv, TypeOK
<1>3. PICK t \in 0..Len(inq) :
        /\ t = Taken
        /\ \A i \in 1..Len(inq) : i < t => ~ inq[i].last
        /\ \A i \in 1..t : At(inq[i]) = <<Len(heard) + 1, Len(line) + i>>
  BY <1>1, TakenFacts, TakenInStep
<1>4. /\ got \in Seq(Bytes) /\ Len(got) = Len(line) + t
      /\ \A i \in 1..Len(line) : got[i] = line[i]
      /\ \A i \in 1..t : got[Len(line) + i] = inq[i]
      /\ rest \in Seq(Bytes) /\ Len(rest) = Len(inq) - t
      /\ \A i \in 1..(Len(inq) - t) : rest[i] = inq[t + i]
  <2>1. /\ SubSeq(inq, 1, t) \in Seq(Bytes) /\ Len(SubSeq(inq, 1, t)) = t
        /\ \A i \in 1..t : SubSeq(inq, 1, t)[i] = inq[i]
        /\ SubSeq(inq, t + 1, Len(inq)) \in Seq(Bytes)
        /\ Len(SubSeq(inq, t + 1, Len(inq))) = Len(inq) - t
        /\ \A i \in 1..(Len(inq) - t) : SubSeq(inq, t + 1, Len(inq))[i] = inq[t + i]
    BY <1>2, Split
  <2>2. /\ got \in Seq(Bytes) /\ Len(got) = Len(line) + Len(SubSeq(inq, 1, t))
        /\ \A i \in 1..Len(line) : got[i] = line[i]
        /\ \A i \in 1..Len(SubSeq(inq, 1, t)) :
             got[Len(line) + i] = SubSeq(inq, 1, t)[i]
    BY <1>2, <1>3, <2>1, Sequenced
  <2> QED
    BY <1>3, <2>1, <2>2
<1> HIDE DEF got, rest
<1>5. \A i \in 1..Len(got) :
        /\ got[i].line = Len(heard) + 1 /\ got[i].col = i
        /\ i < Len(got) => ~ got[i].last
  <2> SUFFICES ASSUME NEW i \in 1..Len(got)
               PROVE  /\ got[i].line = Len(heard) + 1 /\ got[i].col = i
                      /\ i < Len(got) => ~ got[i].last
    OBVIOUS
  <2>1. CASE i <= Len(line)
    <3>1. i \in 1..Len(line)
      BY <1>2, <2>1
    <3>2. line[i] = Byte(Len(heard) + 1, i, FALSE)
      BY <1>1, <3>1 DEF InStep
    <3>3. got[i] = Byte(Len(heard) + 1, i, FALSE)
      BY <1>4, <3>1, <3>2
    <3> QED
      BY <3>3 DEF Byte
  <2>2. CASE i > Len(line)
    <3>1. /\ i - Len(line) \in 1..t /\ Len(line) + (i - Len(line)) = i
          /\ i - Len(line) \in 1..Len(inq)
          /\ i < Len(got) => i - Len(line) < t
      BY <1>2, <1>3, <1>4, <2>2
    <3>2. got[i] = inq[i - Len(line)]
      BY <1>4, <3>1
    <3>3. At(inq[i - Len(line)]) = <<Len(heard) + 1, i>>
      BY <1>3, <3>1
    <3>5. i < Len(got) => ~ inq[i - Len(line)].last
      BY <1>3, <3>1
    <3>6. got[i].line = Len(heard) + 1 /\ got[i].col = i
      BY <3>2, <3>3 DEF At
    <3> QED
      BY <3>2, <3>5, <3>6
  <2>3. i <= Len(line) \/ i > Len(line)
    BY <1>2
  <2> QED
    BY <2>1, <2>2, <2>3
<1>6. \A i \in 1..Len(got) : got[i] = Byte(Len(heard) + 1, i, got[i].last)
  <2> SUFFICES ASSUME NEW i \in 1..Len(got)
               PROVE  got[i] = Byte(Len(heard) + 1, i, got[i].last)
    OBVIOUS
  <2>1. got[i] \in Bytes
    BY <1>4
  <2>2. got[i].line = Len(heard) + 1 /\ got[i].col = i
    BY <1>5
  <2> QED
    BY <2>1, <2>2, ByteFields
\* What is left is in step with what follows what was taken.
<1>7. ASSUME t > 0, Len(heard') \in Nat, Len(line') \in Nat,
             Here' = After(inq[t])
      PROVE  /\ inq' = <<>> => Here' = Due'
             /\ inq' # <<>> => At(inq'[1]) = Here' /\ After(inq'[Len(inq')]) = Due'
  <2>1. t \in 1..Len(inq) /\ inq # <<>>
    BY <1>2, <1>3, <1>7
  <2>2. After(inq[Len(inq)]) = Due /\ Due' = Due
    BY <1>1, <2>1 DEF InStep, Due
  <2>3. CASE t = Len(inq)
    <3>1. inq' = <<>>
      BY <1>1, <1>2, <1>4, <2>3
    <3> QED
      BY <1>7, <2>2, <2>3, <3>1
  <2>4. CASE t < Len(inq)
    <3>1. /\ inq' # <<>> /\ inq'[1] = inq[t + 1]
          /\ inq'[Len(inq')] = inq[Len(inq)]
      <4>1. /\ 1 \in 1..(Len(inq) - t) /\ Len(inq) - t \in 1..(Len(inq) - t)
            /\ t + (Len(inq) - t) = Len(inq)
        BY <1>2, <1>3, <2>4
      <4>2. rest[1] = inq[t + 1] /\ rest[Len(rest)] = inq[Len(inq)]
        BY <1>4, <4>1
      <4>3. rest # <<>>
        BY <1>2, <1>3, <1>4, <2>4
      <4> QED
        BY <1>1, <4>2, <4>3
    <3>2. At(inq[t + 1]) = After(inq[t])
      BY <1>1, <2>1, <2>4 DEF InStep
    <3> QED
      BY <1>7, <2>2, <3>1, <3>2
  <2> QED
    BY <1>2, <1>3, <2>3, <2>4
<1>8. \A i \in 1..Len(inq') : i < Len(inq') => At(inq'[i + 1]) = After(inq'[i])
  <2> SUFFICES ASSUME NEW i \in 1..Len(inq'), i < Len(inq')
               PROVE  At(inq'[i + 1]) = After(inq'[i])
    OBVIOUS
  <2>1. /\ i \in 1..(Len(inq) - t) /\ i + 1 \in 1..(Len(inq) - t)
        /\ t + i \in 1..Len(inq) /\ t + i < Len(inq) /\ t + (i + 1) = (t + i) + 1
    BY <1>1, <1>2, <1>3, <1>4
  <2>2. inq'[i] = inq[t + i] /\ inq'[i + 1] = inq[(t + i) + 1]
    BY <1>1, <1>4, <2>1
  <2> QED
    BY <1>1, <2>1, <2>2 DEF InStep
<1>9. CASE /\ got # <<>> /\ got[Len(got)].last
           /\ heard' = Append(heard, got) /\ line' = <<>>
  <2>1. Len(got) \in 1..Len(got) /\ Len(got) \in Nat
    BY <1>4, <1>9
  <2>2. t > 0 /\ got[Len(got)] = inq[t]
    <3>1. CASE t = 0
      <4>1. Len(got) \in 1..Len(line)
        BY <1>2, <1>4, <2>1, <3>1
      <4>2. got[Len(got)] = Byte(Len(heard) + 1, Len(got), FALSE)
        BY <1>1, <1>4, <4>1 DEF InStep
      <4> QED
        BY <1>9, <4>2 DEF Byte
    <3>2. CASE t > 0
      <4>1. t \in 1..t /\ Len(got) = Len(line) + t
        BY <1>3, <1>4, <3>2
      <4> QED
        BY <1>4, <3>2, <4>1
    <3> QED
      BY <1>3, <3>1, <3>2
  <2>3. /\ Len(heard') = Len(heard) + 1 /\ heard'[Len(heard) + 1] = got
        /\ \A n \in 1..Len(heard) : heard'[n] = heard[n]
    BY <1>2, <1>4, <1>9, Grown
  <2>4. got = [col \in 1..Len(got) |->
                 Byte(Len(heard) + 1, col, col = Len(got))]
    <3>1. \A i \in 1..Len(got) :
            got[i] = Byte(Len(heard) + 1, i, i = Len(got))
      <4> SUFFICES ASSUME NEW i \in 1..Len(got)
                   PROVE  got[i] = Byte(Len(heard) + 1, i, i = Len(got))
        OBVIOUS
      <4>1. got[i] \in Bytes /\ i <= Len(got)
        BY <1>4, <2>1
      <4>2. got[i].last = (i = Len(got))
        <5>0. got[i].last \in BOOLEAN
          BY <4>1 DEF Bytes
        <5>1. CASE i = Len(got)
          BY <1>9, <5>0, <5>1
        <5>2. CASE i < Len(got)
          <6>1. ~ got[i].last /\ i # Len(got)
            BY <1>5, <2>1, <5>2
          <6> QED
            BY <5>0, <6>1
        <5> QED
          BY <2>1, <4>1, <5>1, <5>2
      <4> QED
        BY <1>6, <4>2
    <3>2. got = [col \in 1..Len(got) |-> got[col]]
      BY <1>4
    <3> QED
      BY <3>1, <3>2
  <2>5. WholeLines'
    <3> SUFFICES ASSUME NEW n \in 1..Len(heard')
                 PROVE  heard'[n] = [col \in 1..Len(heard'[n]) |->
                                       Byte(n, col, col = Len(heard'[n]))]
      BY DEF WholeLines
    <3>1. CASE n = Len(heard) + 1
      <4>1. heard'[n] = got
        BY <2>3, <3>1
      <4> QED
        BY <2>4, <3>1, <4>1
    <3>2. CASE n \in 1..Len(heard)
      <4>1. heard'[n] = heard[n]
        BY <2>3, <3>2
      <4>2. heard[n] = [col \in 1..Len(heard[n]) |->
                          Byte(n, col, col = Len(heard[n]))]
        BY <1>1, <3>2 DEF WholeLines
      <4> QED
        BY <4>1, <4>2
    <3>3. n = Len(heard) + 1 \/ n \in 1..Len(heard)
      BY <1>2, <2>3
    <3> QED
      BY <3>1, <3>2, <3>3
  <2>6. Len(line') = 0
    BY <1>9
  <2>7. Here' = After(inq[t])
    <3>1. Here' = <<Len(heard) + 1 + 1, 0 + 1>>
      BY <2>3, <2>6 DEF Here
    <3>2. inq[t].line = Len(heard) + 1 /\ inq[t].last
      BY <1>5, <1>9, <2>1, <2>2
    <3> QED
      BY <3>1, <3>2 DEF After
  <2>8. InStep'
    <3>1. \A i \in 1..Len(line') : line'[i] = Byte(Len(heard') + 1, i, FALSE)
      BY <2>6
    <3> QED
      BY <1>2, <1>7, <1>8, <2>2, <2>3, <2>6, <2>7, <3>1 DEF InStep
  <2> QED
    BY <1>9, <2>5, <2>8 DEF LinesInv
<1>10. CASE (closing' = TRUE \/ phase' = "lost") /\ UNCHANGED heard
  BY <1>1, <1>10 DEF LinesInv, Reading, WholeLines
<1>11. CASE /\ ~ (got # <<>> /\ got[Len(got)].last) /\ line' = got
            /\ UNCHANGED <<heard, resp, closing>>
  <2>1. WholeLines'
    BY <1>1, <1>11 DEF WholeLines
  <2>2. \A i \in 1..Len(line') : line'[i] = Byte(Len(heard') + 1, i, FALSE)
    <3> SUFFICES ASSUME NEW i \in 1..Len(got)
                 PROVE  got[i] = Byte(Len(heard) + 1, i, FALSE)
      BY <1>11
    <3>1. got # <<>> /\ Len(got) \in Nat /\ i <= Len(got) /\ got[i] \in Bytes
      BY <1>4
    <3>2. ~ got[i].last
      <4>1. CASE i = Len(got)
        BY <1>11, <3>1, <4>1
      <4>2. CASE i < Len(got)
        BY <1>5, <4>2
      <4>3. i \in Nat /\ i <= Len(got) /\ Len(got) \in Nat
        BY <3>1
      <4> QED
        BY <4>1, <4>2, <4>3
    <3>3. got[i].last = FALSE
      BY <3>1, <3>2 DEF Bytes
    <3> QED
      BY <1>6, <3>3
  <2>3. CASE t = 0
    <3>1. inq' = inq /\ Len(line') = Len(line)
      <4>1. Len(rest) = Len(inq) /\ \A i \in 1..Len(inq) : rest[i] = inq[i]
        BY <1>2, <1>4, <2>3
      <4>2. rest = inq
        BY <1>2, <1>4, <4>1
      <4> QED
        BY <1>1, <1>2, <1>4, <1>11, <2>3, <4>2
    <3>2. Here' = Here /\ Due' = Due
      BY <1>1, <1>11, <3>1 DEF Here, Due
    <3>3. InStep'
      BY <1>1, <2>2, <3>1, <3>2 DEF InStep
    <3> QED
      BY <1>1, <1>11, <2>1, <3>3 DEF LinesInv
  <2>4. CASE t > 0
    <3>1. Len(line') = Len(line) + t /\ t \in 1..t
      BY <1>3, <1>4, <1>11, <2>4
    <3>2. Here' = After(inq[t])
      <4>1. t \in 1..t /\ Len(got) \in 1..Len(got) /\ got[Len(got)] = inq[t]
        BY <1>2, <1>4, <3>1
      <4>2. /\ inq[t].line = Len(heard) + 1 /\ inq[t].col = Len(got)
            /\ ~ inq[t].last
        BY <1>4, <1>5, <1>11, <4>1
      <4>3. After(inq[t]) = <<Len(heard) + 1, Len(got) + 1>>
        BY <4>2 DEF After
      <4> QED
        BY <1>11, <4>3 DEF Here
    <3>3. Len(heard') \in Nat /\ Len(line') \in Nat
      BY <1>2, <1>3, <1>11, <3>1
    <3>4. InStep'
      BY <1>7, <1>8, <2>2, <2>4, <3>2, <3>3 DEF InStep
    <3> QED
      BY <1>1, <1>11, <2>1, <3>4 DEF LinesInv
  <2> QED
    BY <1>3, <2>3, <2>4
<1> QED
  BY <1>9, <1>10, <1>11 DEF ReadIn, MakeError, got

\* Steps that leave what is read alone.
LEMMA NothingRead ==
  ASSUME LinesInv, UNCHANGED <<typed, inq, heard, cut>>, Reading' => Reading,
         ~ cut /\ Reading' =>
           UNCHANGED line /\ (UNCHANGED resp \/ line = <<>> \/ resp' = 0)
  PROVE  LinesInv'
<1>1. WholeLines => WholeLines'
  BY DEF WholeLines
<1>2. UNCHANGED line /\ InStep => InStep'
  BY DEF InStep, Here, Due
<1> QED
  BY <1>1, <1>2 DEF LinesInv

LEMMA StepLines == TypeInv /\ LinesInv /\ [Next]_vars => LinesInv'
<1> SUFFICES ASSUME TypeInv, LinesInv, [Next]_vars PROVE LinesInv'
  OBVIOUS
<1>1. ASSUME NEW last \in BOOLEAN, Type(last) PROVE LinesInv'
  BY <1>1, TypeLines
<1>2. ASSUME NEW n \in ReplySizes, Intrude(n) PROVE LinesInv'
  <2>1. CASE cut'
    BY <2>1 DEF LinesInv
  <2>2. CASE ~ cut'
    <3>1. ~ cut /\ line = <<>> /\ cut' = cut
      BY <1>2, <2>2 DEF Intrude, TypeInv, TypeOK
    <3> QED
      BY <1>2, <3>1, NothingRead DEF Intrude, Reading
  <2> QED
    BY <2>1, <2>2
<1>3. CASE Ignore \/ Part \/ Lost \/ NothingToWrite
  BY <1>3, NothingRead DEF Ignore, Part, Lost, NothingToWrite, Reading
<1>4. CASE ReadIn
  BY <1>4, ReadLines
<1>5. CASE WriteOut
  <2>1. CASE cut
    BY <1>5, <2>1 DEF LinesInv, WriteOut
  <2>2. CASE ~ cut
    <3>1. /\ Reading => line = <<>>
          /\ UNCHANGED <<typed, inq, heard, closing, cut>>
      BY <1>5, <2>2 DEF LinesInv, WriteOut, ResponseReady
    <3>2. Reading => line' = <<>>
      BY <1>5, <3>1 DEF WriteOut, FinishedWriting
    <3> QED
      BY <1>5, <3>1, <3>2, NothingRead DEF Reading, WriteOut
  <2> QED
    BY <2>1, <2>2
<1>6. CASE TimedOut
  BY <1>6, NothingRead DEF TimedOut, MakeError, Reading
<1>7. CASE UNCHANGED vars
  BY <1>7, NothingRead DEF vars, Reading
<1> QED
  BY <1>1, <1>2, <1>3, <1>4, <1>5, <1>6, <1>7 DEF Next

\* IOContextResponder::read_in: each line handed on is one line of the client,
\* whole, however its bytes arrive, as long as no reply of another connection
\* comes while half a line is in the buffer.
THEOREM LinesWhole == Spec => []WholeLines
<1>1. LinesInv => WholeLines
  BY DEF LinesInv, WholeLines
<1> QED
  BY <1>1, InitType, StepType, InitLines, StepLines, PTL DEF Spec
=============================================================================
