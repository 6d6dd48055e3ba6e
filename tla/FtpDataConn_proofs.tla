------------------------ MODULE FtpDataConn_proofs ------------------------
(***************************************************************************)
(* Proofs about FtpDataConn, for any sets of listeners and transfers and   *)
(* any client.                                                             *)
(***************************************************************************)
EXTENDS FtpDataConn, TLAPS

LEMMA StreamsFacts ==
  /\ Ctl \in Streams
  /\ \A l \in Listeners : ListenStream(l) \in Streams
  /\ \A x \in Xfers : FileStream(x) \in Streams /\ DataStream(x) \in Streams
BY DEF Streams

\* One field of a heap is replaced: what the longer updates are made of.
LEMMA HeapFields ==
  ASSUME NEW g \in Heap
  PROVE  /\ \A v \in SUBSET Contexts : [g EXCEPT !.alive = v] \in Heap
         /\ \A v \in SUBSET Controlled : [g EXCEPT !.attached = v] \in Heap
         /\ \A v \in Listeners \cup {None} : [g EXCEPT !.listener = v] \in Heap
         /\ \A v \in [Listeners -> Xfers \cup {None}] :
              [g EXCEPT !.data = v] \in Heap
         /\ \A v \in SUBSET Listeners : [g EXCEPT !.finished = v] \in Heap
         /\ \A v \in [Xfers -> Kinds] : [g EXCEPT !.kind = v] \in Heap
         /\ \A v \in [Streams -> {"none", "added", "in", "gone"}] :
              [g EXCEPT !.table = v] \in Heap
<1>1. ASSUME NEW v \in SUBSET Contexts PROVE [g EXCEPT !.alive = v] \in Heap
  BY DEF Heap
<1>2. ASSUME NEW v \in SUBSET Controlled
      PROVE  [g EXCEPT !.attached = v] \in Heap
  BY DEF Heap
<1>3. ASSUME NEW v \in Listeners \cup {None}
      PROVE  [g EXCEPT !.listener = v] \in Heap
  BY DEF Heap
<1>4. ASSUME NEW v \in [Listeners -> Xfers \cup {None}]
      PROVE  [g EXCEPT !.data = v] \in Heap
  BY DEF Heap
<1>5. ASSUME NEW v \in SUBSET Listeners
      PROVE  [g EXCEPT !.finished = v] \in Heap
  BY DEF Heap
<1>6. ASSUME NEW v \in [Xfers -> Kinds] PROVE [g EXCEPT !.kind = v] \in Heap
  BY DEF Heap
<1>7. ASSUME NEW v \in [Streams -> {"none", "added", "in", "gone"}]
      PROVE  [g EXCEPT !.table = v] \in Heap
  BY DEF Heap
<1> QED BY <1>1, <1>2, <1>3, <1>4, <1>5, <1>6, <1>7

\* A listener that forgets its transfer is forgotten, and nothing else is.
LEMMA ForgetParkedFacts ==
  ASSUME NEW g \in Heap
  PROVE  LET f == ForgetParked(g) IN
         /\ f \in Heap /\ f.listener \in {g.listener, None}
         /\ f.attached = g.attached /\ f.alive = g.alive
         /\ f.answers = g.answers /\ f.begun = g.begun /\ f.kind = g.kind
         /\ f.fault = g.fault
<1>1. CASE ~Parked(g) BY <1>1 DEF ForgetParked
<1>2. CASE Parked(g)
  <2> DEFINE l == g.listener
             emptied == [g.data EXCEPT ![l] = None]
             over == g.finished \cup {l}
             f == [g EXCEPT !.data = emptied, !.finished = over,
                            !.listener = None]
  <2>1. l \in Listeners BY <1>2 DEF Heap, Parked
  <2>2. emptied \in [Listeners -> Xfers \cup {None}] BY DEF Heap
  <2>3. over \in SUBSET Listeners BY <2>1 DEF Heap
  <2>4. ForgetParked(g) = f BY <1>2 DEF ForgetParked
  <2> HIDE DEF emptied, over
  <2> DEFINE a == [g EXCEPT !.data = emptied]
             b == [a EXCEPT !.finished = over]
  <2>5. f = [b EXCEPT !.listener = None] BY DEF Heap
  <2>6. a \in Heap BY <2>2, HeapFields
  <2> HIDE DEF a
  <2>7. b \in Heap BY <2>3, <2>6, HeapFields
  <2> HIDE DEF b
  <2>8. f \in Heap BY <2>5, <2>7, HeapFields
  <2>9. /\ f.listener = None
        /\ f.attached = g.attached /\ f.alive = g.alive
        /\ f.answers = g.answers /\ f.begun = g.begun /\ f.kind = g.kind
        /\ f.fault = g.fault
    BY DEF Heap
  <2> QED BY <2>4, <2>8, <2>9
<1> QED BY <1>1, <1>2

LEMMA AnswerType ==
  ASSUME NEW g \in Heap, NEW x \in Xfers
  PROVE  Answer(g, x) \in Heap
<1> DEFINE closes == g.closing \/ g.quitting
           counted == [g.answers EXCEPT ![x] = @ + 1]
<1>1. closes \in BOOLEAN OBVIOUS
<1>2. counted \in [Xfers -> Nat] BY DEF Heap
<1>3. Say(g) \in Heap /\ Say(g).closing = g.closing
                      /\ Say(g).answers = g.answers
  BY DEF Heap, Say
<1>4. Answer(g, x) = [Say(g) EXCEPT !.xfer = None, !.closing = closes,
                                    !.answers = counted, !.armed = "set"]
  BY <1>3 DEF Answer
<1> HIDE DEF closes, counted
<1>5. [Say(g) EXCEPT !.xfer = None, !.closing = closes] \in Heap
  BY <1>1, <1>3 DEF Heap
<1>6. [[Say(g) EXCEPT !.xfer = None, !.closing = closes]
         EXCEPT !.answers = counted, !.armed = "set"] \in Heap
  BY <1>2, <1>5 DEF Heap
<1> QED BY <1>4, <1>6

LEMMA XferDoneType ==
  ASSUME NEW g \in Heap, NEW c \in Controlled
  PROVE  XferDone(g, c) \in Heap
<1>1. ForgetParked(g) \in Heap BY ForgetParkedFacts
<1>2. [g EXCEPT !.listener = None] \in Heap BY DEF Heap
<1>3. c = g.xfer => c \in Xfers BY ObjectsDistinct DEF Heap, Controlled
<1> QED BY <1>1, <1>2, <1>3, AnswerType DEF XferDone

LEMMA NotifyType ==
  ASSUME NEW g \in Heap, NEW c \in Controlled
  PROVE  Notify(g, c) \in Heap
<1>1. [g EXCEPT !.attached = @ \ {c}] \in Heap BY DEF Heap
<1>2. [g EXCEPT !.fault = "controller"] \in Heap BY DEF Heap, Faults
<1> QED BY <1>1, <1>2, XferDoneType DEF Notify

LEMMA ReleaseType ==
  ASSUME NEW g \in Heap, NEW x \in Xfers, NEW S
  PROVE  ReleaseStreams(g, x, S) \in Heap
BY DEF Heap, ReleaseStreams

LEMMA DeleteXferType ==
  ASSUME NEW g \in Heap, NEW x \in Xfers
  PROVE  DeleteXfer(g, x) \in Heap
<1>1. ReleaseStreams(g, x, Streams) \in Heap BY ReleaseType
<1>2. Notify(ReleaseStreams(g, x, Streams), x) \in Heap
  BY <1>1, NotifyType DEF Controlled
<1> QED BY <1>2 DEF DeleteXfer, Bury, Heap

LEMMA FreeListenerType ==
  ASSUME NEW g \in Heap, NEW l \in Listeners
  PROVE  FreeListener(g, l) \in Heap
<1> DEFINE freed == IF g.data[l] = None THEN g ELSE DeleteXfer(g, g.data[l])
<1>1. g.data[l] = None \/ g.data[l] \in Xfers BY DEF Heap
<1>2. freed \in Heap BY <1>1, DeleteXferType
<1> HIDE DEF freed
<1>3. freed.finished \cup {l} \in SUBSET Listeners BY <1>2 DEF Heap
<1>4. [freed.data EXCEPT ![l] = None] \in [Listeners -> Xfers \cup {None}]
  BY <1>2 DEF Heap
<1>5. [freed EXCEPT !.data = [freed.data EXCEPT ![l] = None],
                    !.finished = freed.finished \cup {l}] \in Heap
  BY <1>2, <1>3, <1>4 DEF Heap
<1> QED BY <1>5 DEF FreeListener, freed

LEMMA DeleteListenerType ==
  ASSUME NEW g \in Heap, NEW l \in Listeners
  PROVE  DeleteListener(g, l) \in Heap
<1>1. Notify(FreeListener(g, l), l) \in Heap
  BY FreeListenerType, NotifyType DEF Controlled
<1> QED BY <1>1 DEF DeleteListener, Bury, Heap

LEMMA PassiveOffType ==
  ASSUME NEW g \in Heap
  PROVE  PassiveOff(g) \in Heap
<1>1. CASE g.listener = None BY <1>1 DEF PassiveOff
<1>2. CASE g.listener # None
  <2> DEFINE freed == FreeListener(g, g.listener)
  <2>1. freed \in Heap BY <1>2, FreeListenerType DEF Heap
  <2> HIDE DEF freed
  <2>2. [freed EXCEPT !.fault = "null"] \in Heap BY <2>1 DEF Heap, Faults
  <2>3. [freed EXCEPT !.attached = @ \ {g.listener}, !.listener = None]
          \in Heap
    BY <2>1 DEF Heap
  <2> QED BY <1>2, <2>2, <2>3 DEF PassiveOff, freed
<1> QED BY <1>1, <1>2

LEMMA DeleteControlType ==
  ASSUME NEW g \in Heap
  PROVE  DeleteControl(g) \in Heap
<1> DEFINE off == PassiveOff(g)
<1>1. off \in Heap BY PassiveOffType
<1> HIDE DEF off
<1>2. Bury([off EXCEPT !.attached = @ \ {g.xfer}, !.xfer = None], Control)
        \in Heap
  BY <1>1 DEF Heap, Bury
<1> QED BY <1>1, <1>2 DEF DeleteControl, off

LEMMA XferHungupType ==
  ASSUME NEW g \in Heap, NEW x \in Xfers, NEW s \in Streams
  PROVE  XferHungup(g, x, s) \in Heap
<1> DEFINE inFree == ReleaseStreams(g, x, {g.in[x]})
           allFree == ReleaseStreams(g, x, Streams)
<1>1. inFree \in Heap /\ allFree \in Heap BY ReleaseType
<1> HIDE DEF inFree, allFree
<1>2. [inFree EXCEPT !.in[x] = None] \in Heap BY <1>1 DEF Heap
<1>3. [allFree EXCEPT !.in[x] = None, !.out[x] = None] \in Heap
  BY <1>1 DEF Heap
<1>4. DeleteXfer(g, x) \in Heap BY DeleteXferType
<1>5. DeleteXfer([allFree EXCEPT !.in[x] = None, !.out[x] = None], x) \in Heap
  BY <1>3, DeleteXferType
<1> QED BY <1>2, <1>4, <1>5 DEF XferHungup, inFree, allFree

LEMMA FreeStreamType ==
  ASSUME NEW g \in Heap, NEW s \in Streams
  PROVE  FreeStream(g, s) \in Heap
<1> DEFINE released == [g EXCEPT !.consumer[s] = None]
<1>1. released \in Heap BY DEF Heap
<1>2. g.consumer[s] \in {None, Control} \cup Listeners \cup Xfers
  BY DEF Heap, Contexts, Controlled
<1>3. [g EXCEPT !.fault = "consumer"] \in Heap BY DEF Heap, Faults
<1> HIDE DEF released
<1>4. DeleteControl(released) \in Heap BY <1>1, DeleteControlType
<1>5. \A l \in Listeners : DeleteListener(released, l) \in Heap
  BY <1>1, DeleteListenerType
<1>6. \A x \in Xfers : XferHungup(released, x, s) \in Heap
  BY <1>1, XferHungupType
<1> QED BY <1>2, <1>3, <1>4, <1>5, <1>6 DEF FreeStream, released

LEMMA DoRemoveType ==
  ASSUME NEW g \in Heap, NEW s \in Streams
  PROVE  DoRemove(g, s) \in Heap
<1> DEFINE gone == [g EXCEPT !.table[s] = "gone"]
           freed == FreeStream(gone, s)
<1>1. gone \in Heap BY DEF Heap
<1> HIDE DEF gone
<1>2. freed \in Heap BY <1>1, FreeStreamType
<1> HIDE DEF freed
<1>3. [freed EXCEPT !.doomed = @ \ {s}] \in Heap BY <1>2 DEF Heap
<1> QED BY <1>3 DEF DoRemove, freed, gone

LEMMA RemoveType ==
  ASSUME NEW g \in Heap, NEW c
  PROVE  Remove(g, c) \in Heap
BY DEF Remove, Heap, Tabled

LEMMA CompleteType ==
  ASSUME NEW g \in Heap, NEW x \in Xfers
  PROVE  Complete(g, x) \in Heap
BY NotifyType, RemoveType DEF Complete, Controlled

---------------------------------------------------------------------------
(***************************************************************************)
(* What the cascade of destructors keeps true of a heap while the control  *)
(* connection lives.  The last conjuncts are what makes the invariant      *)
(* inductive: only the current transfer is still attached, so that no      *)
(* other one can reach xfer_done, and an identity is not used twice.       *)
(***************************************************************************)
Consistent(g) ==
  g.fault = "none" /\ Control \in g.alive =>
    /\ g.listener # None => g.listener \in g.alive \cap g.attached
    /\ g.xfer # None => g.xfer \in g.alive \cap g.attached
    /\ \A x \in Xfers :
         g.answers[x] = IF x \in g.begun /\ x # g.xfer THEN 1 ELSE 0
    /\ \A x \in g.begun \cap g.attached : x = g.xfer
    /\ g.xfer # None => g.xfer \in g.begun
    /\ \A x \in g.begun : g.kind[x] # "none"

\* No pointer of the control connection leads to c.
Unlinked(g, c) ==
  g.fault = "none" /\ Control \in g.alive => g.xfer # c /\ g.listener # c

Good(g) == g \in Heap /\ Consistent(g)

\* The fields that decide whether a heap is consistent.
SameLinks(f, g) ==
  /\ f.fault = g.fault /\ f.alive = g.alive /\ f.attached = g.attached
  /\ f.listener = g.listener /\ f.xfer = g.xfer
  /\ f.answers = g.answers /\ f.begun = g.begun /\ f.kind = g.kind

LEMMA FrameGood ==
  ASSUME NEW g, Good(g), NEW f \in Heap, SameLinks(f, g)
  PROVE  Good(f)
BY DEF Good, Consistent, SameLinks

\* Notify keeps a heap consistent and unlinks the object that notifies.
LEMMA NotifyGood ==
  ASSUME NEW g, Good(g), NEW c \in Controlled
  PROVE  Good(Notify(g, c)) /\ Unlinked(Notify(g, c), c)
<1>0. c # None BY ObjectsDistinct DEF Controlled
<1>1. Notify(g, c) \in Heap BY NotifyType DEF Good
<1>2. CASE c \notin g.attached
  <2>1. Notify(g, c) = g BY <1>2 DEF Notify
  <2>2. Unlinked(g, c) BY <1>0, <1>2 DEF Good, Consistent, Unlinked
  <2> QED BY <2>1, <2>2 DEF Good
<1>3. CASE c \in g.attached /\ Control \notin g.alive
  <2>1. Notify(g, c) = [g EXCEPT !.fault = "controller"] BY <1>3 DEF Notify
  <2>2. Notify(g, c).fault = "controller" BY <2>1 DEF Good, Heap
  <2> QED BY <1>1, <2>2 DEF Good, Consistent, Unlinked
<1>4. CASE c \in g.attached /\ Control \in g.alive
  <2> DEFINE d == [g EXCEPT !.attached = @ \ {c}]
  <2>1. Notify(g, c) = XferDone(d, c) BY <1>4 DEF Notify
  <2>2. /\ d \in Heap /\ d.attached = g.attached \ {c}
        /\ d.alive = g.alive /\ d.listener = g.listener /\ d.xfer = g.xfer
        /\ d.answers = g.answers /\ d.begun = g.begun /\ d.kind = g.kind
        /\ d.fault = g.fault
    BY DEF Good, Heap
  <2> HIDE DEF d
  <2>3. CASE c = g.xfer
    <3> DEFINE f == ForgetParked(d)
    <3>1. /\ f.listener \in {d.listener, None}
          /\ f.attached = d.attached /\ f.alive = d.alive
          /\ f.answers = d.answers /\ f.begun = d.begun /\ f.kind = d.kind
          /\ f.fault = d.fault /\ f \in Heap
      BY <2>2, ForgetParkedFacts
    <3>2. Notify(g, c) = Answer(f, c) BY <2>1, <2>2, <2>3 DEF XferDone
    <3> HIDE DEF f
    <3>3. /\ Answer(f, c).xfer = None
          /\ Answer(f, c).listener = f.listener
          /\ Answer(f, c).attached = f.attached
          /\ Answer(f, c).alive = f.alive
          /\ Answer(f, c).begun = f.begun
          /\ Answer(f, c).kind = f.kind
          /\ Answer(f, c).fault = f.fault
          /\ Answer(f, c).answers = [f.answers EXCEPT ![c] = @ + 1]
      BY <3>1 DEF Answer, Say, Heap
    <3>4. c \in Xfers /\ c # None /\ c # g.listener
      BY <2>3, ObjectsDistinct DEF Good, Heap, Controlled
    <3> DEFINE n == Notify(g, c)
    <3>5. /\ n.xfer = None /\ n.listener \in {g.listener, None}
          /\ n.attached = g.attached \ {c} /\ n.alive = g.alive
          /\ n.begun = g.begun /\ n.kind = g.kind /\ n.fault = g.fault
          /\ n.answers = [g.answers EXCEPT ![c] = @ + 1]
      BY <2>2, <3>1, <3>2, <3>3
    <3> HIDE DEF n
    <3> SUFFICES ASSUME n.fault = "none", Control \in n.alive
                 PROVE  Consistent(n) /\ n.xfer # c /\ n.listener # c
      BY <1>1 DEF Good, Consistent, Unlinked, n
    <3>6. Consistent(g) /\ g.fault = "none" /\ Control \in g.alive
      BY <3>5 DEF Good
    <3>7. n.listener # None => n.listener \in n.alive \cap n.attached
      BY <3>4, <3>5, <3>6 DEF Consistent
    <3>8. \A x \in Xfers :
            n.answers[x] = IF x \in n.begun /\ x # n.xfer THEN 1 ELSE 0
      <4>1. g.answers[c] = 0 /\ c \in g.begun
        BY <2>3, <3>4, <3>6 DEF Consistent
      <4>2. n.answers[c] = 1 BY <3>4, <3>5, <4>1 DEF Good, Heap
      <4>3. \A x \in Xfers \ {c} : n.answers[x] = g.answers[x]
        BY <3>5 DEF Good, Heap
      <4> QED
        BY <2>3, <3>4, <3>5, <3>6, <4>1, <4>2, <4>3, ObjectsDistinct
        DEF Consistent
    <3>9. \A x \in n.begun \cap n.attached : x = n.xfer
      BY <2>3, <3>5, <3>6 DEF Consistent
    <3>10. \A x \in n.begun : n.kind[x] # "none"
      BY <3>5, <3>6 DEF Consistent
    <3> QED
      BY <3>4, <3>5, <3>7, <3>8, <3>9, <3>10 DEF Consistent
  <2>4. CASE c # g.xfer /\ c = g.listener
    <3>1. Notify(g, c) = [d EXCEPT !.listener = None]
      BY <2>1, <2>2, <2>4 DEF XferDone
    <3>2. c # None /\ c \notin Xfers
      BY <2>4, ObjectsDistinct DEF Good, Heap, Controlled
    <3> DEFINE n == Notify(g, c)
    <3>3. /\ n.xfer = g.xfer /\ n.listener = None
          /\ n.attached = g.attached \ {c} /\ n.alive = g.alive
          /\ n.begun = g.begun /\ n.kind = g.kind /\ n.fault = g.fault
          /\ n.answers = g.answers
      BY <2>2, <3>1 DEF Heap
    <3> HIDE DEF n
    <3>4. Consistent(n) BY <2>4, <3>2, <3>3 DEF Good, Consistent
    <3> QED BY <1>1, <2>4, <3>2, <3>3, <3>4 DEF Good, Unlinked, n
  <2>5. CASE c # g.xfer /\ c # g.listener
    <3>1. Notify(g, c) = d BY <2>1, <2>2, <2>5 DEF XferDone
    <3> QED
      BY <1>1, <1>4, <2>2, <2>5, <3>1 DEF Good, Consistent, Unlinked, Heap
  <2> QED BY <2>3, <2>4, <2>5
<1> QED BY <1>2, <1>3, <1>4

\* Deleting an unlinked object leaves no dangling pointer.
LEMMA BuryGood ==
  ASSUME NEW g, Good(g), NEW c \in Controlled, Unlinked(g, c)
  PROVE  Good(Bury(g, c)) /\ Unlinked(Bury(g, c), c)
BY DEF Good, Consistent, Unlinked, Bury, Heap

LEMMA ReleaseGood ==
  ASSUME NEW g, Good(g), NEW x \in Xfers, NEW S
  PROVE  Good(ReleaseStreams(g, x, S))
<1>1. ReleaseStreams(g, x, S) \in Heap BY ReleaseType DEF Good
<1> DEFINE freed == [s \in Streams |->
                       IF /\ s \in S /\ s \in {g.in[x], g.out[x]}
                          /\ g.consumer[s] = x
                       THEN None ELSE g.consumer[s]]
<1>2. ReleaseStreams(g, x, S) = [g EXCEPT !.consumer = freed]
  BY DEF ReleaseStreams
<1> HIDE DEF freed
<1>3. SameLinks(ReleaseStreams(g, x, S), g) BY <1>2 DEF Good, Heap, SameLinks
<1> QED BY <1>1, <1>3, FrameGood

LEMMA DeleteXferGood ==
  ASSUME NEW g, Good(g), NEW x \in Xfers
  PROVE  Good(DeleteXfer(g, x))
<1>1. Good(ReleaseStreams(g, x, Streams)) BY ReleaseGood
<1> QED BY <1>1, NotifyGood, BuryGood DEF DeleteXfer, Controlled

LEMMA FreeListenerGood ==
  ASSUME NEW g, Good(g), NEW l \in Listeners
  PROVE  Good(FreeListener(g, l))
<1> DEFINE freed == IF g.data[l] = None THEN g ELSE DeleteXfer(g, g.data[l])
<1>1. g.data[l] = None \/ g.data[l] \in Xfers BY DEF Good, Heap
<1>2. Good(freed) BY <1>1, DeleteXferGood
<1>3. FreeListener(g, l) = [freed EXCEPT !.data[l] = None,
                                         !.finished = @ \cup {l}]
  BY DEF FreeListener
<1>4. FreeListener(g, l) \in Heap BY FreeListenerType DEF Good
<1> HIDE DEF freed
<1>5. SameLinks(FreeListener(g, l), freed)
  BY <1>2, <1>3 DEF Good, Heap, SameLinks
<1> QED BY <1>2, <1>4, <1>5, FrameGood

LEMMA DeleteListenerGood ==
  ASSUME NEW g, Good(g), NEW l \in Listeners
  PROVE  Good(DeleteListener(g, l))
BY FreeListenerGood, NotifyGood, BuryGood DEF DeleteListener, Controlled

LEMMA PassiveOffGood ==
  ASSUME NEW g, Good(g)
  PROVE  Good(PassiveOff(g))
<1>1. CASE g.listener = None BY <1>1 DEF PassiveOff
<1>2. CASE g.listener # None
  <2> DEFINE l == g.listener
             freed == FreeListener(g, l)
  <2>1. l \in Listeners BY <1>2 DEF Good, Heap
  <2>2. Good(freed) BY <2>1, FreeListenerGood
  <2>3. PassiveOff(g) \in Heap BY PassiveOffType DEF Good
  <2>4. PassiveOff(g) = IF freed.listener = None
                        THEN [freed EXCEPT !.fault = "null"]
                        ELSE [freed EXCEPT !.attached = @ \ {l},
                                           !.listener = None]
    BY <1>2 DEF PassiveOff
  <2> HIDE DEF freed
  <2>5. CASE freed.listener = None
    <3>1. PassiveOff(g).fault = "null" BY <2>2, <2>4, <2>5 DEF Good, Heap
    <3> QED BY <2>3, <3>1 DEF Good, Consistent
  <2>6. CASE freed.listener # None
    <3>1. l \notin Xfers BY <2>1, ObjectsDistinct
    <3> QED BY <2>2, <2>3, <2>4, <2>6, <3>1 DEF Good, Consistent, Heap
  <2> QED BY <2>5, <2>6
<1> QED BY <1>1, <1>2

LEMMA DeleteControlGood ==
  ASSUME NEW g, Good(g)
  PROVE  Good(DeleteControl(g))
<1> DEFINE off == PassiveOff(g)
<1>1. Good(off) BY PassiveOffGood
<1>2. DeleteControl(g) \in Heap BY DeleteControlType DEF Good
<1> HIDE DEF off
<1>3. CASE off.fault # "none" BY <1>1, <1>3 DEF DeleteControl, off
<1>4. CASE off.fault = "none"
  <2>1. Control \notin DeleteControl(g).alive
    BY <1>1, <1>4 DEF DeleteControl, Bury, off, Good, Heap
  <2> QED BY <1>2, <2>1 DEF Good, Consistent
<1> QED BY <1>3, <1>4

LEMMA XferHungupGood ==
  ASSUME NEW g, Good(g), NEW x \in Xfers, NEW s \in Streams
  PROVE  Good(XferHungup(g, x, s))
<1> DEFINE inFree == ReleaseStreams(g, x, {g.in[x]})
           allFree == ReleaseStreams(g, x, Streams)
           flushing == [inFree EXCEPT !.in[x] = None]
           cut == [allFree EXCEPT !.in[x] = None, !.out[x] = None]
<1>1. Good(inFree) /\ Good(allFree) BY ReleaseGood
<1> HIDE DEF inFree, allFree
<1>2. Good(flushing)
  <2>1. flushing \in Heap BY <1>1 DEF Good, Heap
  <2>2. SameLinks(flushing, inFree) BY <1>1 DEF Good, Heap, SameLinks
  <2> QED BY <1>1, <2>1, <2>2, FrameGood
<1>3. Good(cut)
  <2>1. cut \in Heap BY <1>1 DEF Good, Heap
  <2>2. SameLinks(cut, allFree) BY <1>1 DEF Good, Heap, SameLinks
  <2> QED BY <1>1, <2>1, <2>2, FrameGood
<1> HIDE DEF flushing, cut
<1>4. Good(DeleteXfer(g, x)) /\ Good(DeleteXfer(cut, x))
  BY <1>3, DeleteXferGood
<1> QED BY <1>2, <1>4 DEF XferHungup, flushing, cut, inFree, allFree

LEMMA FreeStreamGood ==
  ASSUME NEW g, Good(g), NEW s \in Streams
  PROVE  Good(FreeStream(g, s))
<1> DEFINE released == [g EXCEPT !.consumer[s] = None]
           faulty == [g EXCEPT !.fault = "consumer"]
<1>1. Good(released)
  <2> DEFINE loose == [g.consumer EXCEPT ![s] = None]
  <2>1. released = [g EXCEPT !.consumer = loose]
    BY DEF Good, Heap
  <2>2. loose \in [Streams -> Contexts \cup {None}] BY DEF Good, Heap
  <2> HIDE DEF loose, released
  <2>3. released \in Heap BY <2>1, <2>2 DEF Good, Heap
  <2>4. SameLinks(released, g) BY <2>1 DEF Good, Heap, SameLinks
  <2> QED BY <2>3, <2>4, FrameGood
<1>2. g.consumer[s] \in {None, Control} \cup Listeners \cup Xfers
  BY DEF Good, Heap, Contexts, Controlled
<1>3. Good(faulty)
  <2>1. faulty \in Heap BY DEF Good, Heap, Faults
  <2>2. faulty.fault = "consumer" BY DEF Good, Heap
  <2> QED BY <2>1, <2>2 DEF Good, Consistent
<1> HIDE DEF released, faulty
<1>4. Good(DeleteControl(released)) BY <1>1, DeleteControlGood
<1>5. \A l \in Listeners : Good(DeleteListener(released, l))
  BY <1>1, DeleteListenerGood
<1>6. \A x \in Xfers : Good(XferHungup(released, x, s))
  BY <1>1, XferHungupGood
<1> QED BY <1>2, <1>3, <1>4, <1>5, <1>6 DEF FreeStream, released, faulty

LEMMA DoRemoveGood ==
  ASSUME NEW g, Good(g), NEW s \in Streams
  PROVE  Good(DoRemove(g, s))
<1> DEFINE gone == [g EXCEPT !.table[s] = "gone"]
           freed == FreeStream(gone, s)
<1>1. Good(gone)
  <2> DEFINE table == [g.table EXCEPT ![s] = "gone"]
  <2>1. gone = [g EXCEPT !.table = table] BY DEF Good, Heap
  <2>2. table \in [Streams -> {"none", "added", "in", "gone"}]
    BY DEF Good, Heap
  <2> HIDE DEF table, gone
  <2>3. gone \in Heap BY <2>1, <2>2, HeapFields DEF Good
  <2>4. SameLinks(gone, g) BY <2>1 DEF Good, Heap, SameLinks
  <2> QED BY <2>3, <2>4, FrameGood
<1> HIDE DEF gone
<1>2. Good(freed) BY <1>1, FreeStreamGood
<1> HIDE DEF freed
<1> DEFINE done == [freed EXCEPT !.doomed = @ \ {s}]
<1>3. Good(done)
  <2>1. done \in Heap BY <1>2 DEF Good, Heap
  <2>2. SameLinks(done, freed) BY <1>2 DEF Good, Heap, SameLinks
  <2> QED BY <1>2, <2>1, <2>2, FrameGood
<1> QED BY <1>3 DEF DoRemove, freed, gone

LEMMA RemoveGood ==
  ASSUME NEW g, Good(g), NEW c
  PROVE  Good(Remove(g, c))
<1>1. Remove(g, c) \in Heap BY RemoveType DEF Good
<1>2. SameLinks(Remove(g, c), g) BY DEF Good, Heap, Remove, SameLinks
<1> QED BY <1>1, <1>2, FrameGood

LEMMA CompleteGood ==
  ASSUME NEW g, Good(g), NEW x \in Xfers
  PROVE  Good(Complete(g, x))
BY NotifyGood, RemoveGood DEF Complete, Controlled

LEMMA SayGood ==
  ASSUME NEW g, Good(g)
  PROVE  Good(Say(g)) /\ Good(Error(g))
<1>1. Good(Say(g))
  <2>1. Say(g) \in Heap BY DEF Good, Say, Heap
  <2>2. SameLinks(Say(g), g) BY DEF Good, Heap, Say, SameLinks
  <2> QED BY <2>1, <2>2, FrameGood
<1>2. ASSUME NEW f, Good(f) PROVE Good([f EXCEPT !.closing = TRUE])
  <2> DEFINE e == [f EXCEPT !.closing = TRUE]
  <2>1. e \in Heap BY <1>2 DEF Good, Heap
  <2>2. SameLinks(e, f) BY <1>2 DEF Good, Heap, SameLinks
  <2> QED BY <1>2, <2>1, <2>2, FrameGood
<1> QED BY <1>1, <1>2 DEF Error

LEMMA DoomGood ==
  ASSUME NEW g, Good(g), NEW s \in Streams
  PROVE  Good([g EXCEPT !.doomed = @ \cup {s}])
<1> DEFINE e == [g EXCEPT !.doomed = @ \cup {s}]
<1>1. e \in Heap BY DEF Good, Heap
<1>2. SameLinks(e, g) BY DEF Good, Heap, SameLinks
<1> QED BY <1>1, <1>2, FrameGood

\* Undefined behaviour ends what is claimed.
LEMMA FaultGood ==
  ASSUME NEW g, Good(g) PROVE Good([g EXCEPT !.fault = "consumer"])
<1> DEFINE e == [g EXCEPT !.fault = "consumer"]
<1>1. e \in Heap BY DEF Good, Heap, Faults
<1>2. e.fault = "consumer" BY DEF Good, Heap
<1> QED BY <1>1, <1>2 DEF Good, Consistent

LEMMA AdoptGood ==
  ASSUME NEW g, Good(g), NEW x \in Xfers, NEW s \in Streams
  PROVE  Good(Adopt(g, x, s))
<1>1. ASSUME NEW f, Good(f) PROVE Good([f EXCEPT !.in[x] = s])
  <2> DEFINE e == [f EXCEPT !.in[x] = s]
  <2>1. e \in Heap BY <1>1 DEF Good, Heap
  <2>2. SameLinks(e, f) BY <1>1 DEF Good, Heap, SameLinks
  <2> QED BY <1>1, <2>1, <2>2, FrameGood
<1>2. ASSUME NEW f, Good(f) PROVE Good([f EXCEPT !.out[x] = s])
  <2> DEFINE e == [f EXCEPT !.out[x] = s]
  <2>1. e \in Heap BY <1>2 DEF Good, Heap
  <2>2. SameLinks(e, f) BY <1>2 DEF Good, Heap, SameLinks
  <2> QED BY <1>2, <2>1, <2>2, FrameGood
<1> QED BY <1>1, <1>2 DEF Adopt

LEMMA StartClockGood ==
  ASSUME NEW g, Good(g)
  PROVE  Good(StartClock(g))
<1> DEFINE e == [g EXCEPT !.armed = "on"]
<1>1. e \in Heap /\ SameLinks(e, g) BY DEF Good, Heap, SameLinks
<1> QED BY <1>1, FrameGood DEF StartClock

---------------------------------------------------------------------------
Inv == TypeOK /\ Consistent(h)

LEMMA InitInv == Init => Inv
<1> SUFFICES ASSUME Init PROVE Inv OBVIOUS
<1>1. h = EmptyHeap /\ phase = "sow" /\ todo = {} BY DEF Init
<1>2. EmptyHeap \in Heap
  BY ObjectsDistinct DEF EmptyHeap, Heap, Contexts, Kinds, Faults
<1>3. Consistent(EmptyHeap) BY DEF Consistent, EmptyHeap
<1> QED BY <1>1, <1>2, <1>3 DEF Inv, TypeOK, Phases

LEMMA LoopInv == Inv /\ LoopStep => Inv'
<1> SUFFICES ASSUME Inv, LoopStep PROVE Inv' OBVIOUS
<1>1. Good(h) /\ phase \in Phases /\ todo \in SUBSET Streams
  BY DEF Inv, TypeOK, Good
<1> SUFFICES Good(h') /\ phase' \in Phases /\ todo' \in SUBSET Streams
  BY DEF Inv, TypeOK, Good
<1>2. CASE Sow
  <2>1. h' \in Heap BY <1>1, <1>2 DEF Sow, Good, Heap
  <2>2. Consistent(h') BY <1>1, <1>2 DEF Sow, Good, Heap, Consistent
  <2> QED BY <1>1, <1>2, <2>1, <2>2 DEF Sow, Good, Phases
<1>3. CASE \E s \in Streams : Reap(s)
  BY <1>1, <1>3, DoRemoveGood DEF Reap
<1>4. CASE StartPrepare BY <1>1, <1>4 DEF StartPrepare, InTable, Phases
<1>5. CASE EndPrepare
  <2>1. Good(h') BY <1>1, <1>5 DEF EndPrepare, Good, Heap, Consistent
  <2> QED BY <1>1, <1>5, <2>1 DEF EndPrepare, Phases
<1>6. CASE Poll BY <1>1, <1>6 DEF Poll, InTable, Phases
<1>7. CASE EndBatch BY <1>1, <1>7 DEF EndBatch, Phases
<1> QED BY <1>2, <1>3, <1>4, <1>5, <1>6, <1>7 DEF LoopStep

LEMMA PrepareInv == Inv /\ Prepare => Inv'
<1> SUFFICES ASSUME Inv, Prepare PROVE Inv' OBVIOUS
<1>1. Good(h) /\ phase \in Phases /\ todo \in SUBSET Streams
  BY DEF Inv, TypeOK, Good
<1>2. phase' \in Phases /\ todo' \in SUBSET Streams
  BY <1>1 DEF Prepare, Preparing, PrepareOrphan, PrepareListener,
       PrepareXfer, XferTimesOut, PrepareControl, ControlTimesOut
<1> SUFFICES Good(h') BY <1>2 DEF Inv, TypeOK, Good
<1>3. ASSUME NEW s \in Streams, PrepareOrphan(s) PROVE Good(h')
  BY <1>1, <1>3, FaultGood DEF PrepareOrphan
<1>4. ASSUME NEW s \in Streams, PrepareListener(s) PROVE Good(h')
  BY <1>1, <1>4, RemoveGood DEF PrepareListener
<1>5. ASSUME NEW s \in Streams, PrepareXfer(s) PROVE Good(h')
  <2> DEFINE x == h.consumer[s]
             started == [h EXCEPT !.clock[x] = "set"]
             checked == IF XferTimeout /\ h.clock[x] = "off"
                        THEN started ELSE h
  <2>1. x \in Xfers BY <1>5 DEF PrepareXfer
  <2>2. started \in Heap /\ SameLinks(started, h)
    BY <1>1, <2>1 DEF Good, Heap, SameLinks
  <2>3. Good(checked) BY <1>1, <2>2, FrameGood
  <2>4. h' \in {Adopt(checked, x, s), checked, Complete(checked, x)}
    BY <1>5 DEF PrepareXfer
  <2> HIDE DEF checked
  <2> QED BY <2>1, <2>3, <2>4, AdoptGood, CompleteGood
<1>6. ASSUME NEW s \in Streams, XferTimesOut(s) PROVE Good(h')
  <2> DEFINE x == h.consumer[s]
             off == [h EXCEPT !.clock[x] = "off"]
  <2>1. x \in Xfers BY <1>6 DEF XferTimesOut
  <2>2. off \in Heap /\ SameLinks(off, h)
    BY <1>1, <2>1 DEF Good, Heap, SameLinks
  <2> QED BY <1>1, <1>6, <2>2, FrameGood, RemoveGood DEF XferTimesOut
<1>7. CASE PrepareControl BY <1>1, <1>7, StartClockGood DEF PrepareControl
<1>8. CASE ControlTimesOut
  BY <1>1, <1>8, RemoveGood, SayGood DEF ControlTimesOut
<1> QED BY <1>3, <1>4, <1>5, <1>6, <1>7, <1>8 DEF Prepare

LEMMA DataInv == Inv /\ DataEvent => Inv'
<1> SUFFICES ASSUME Inv, DataEvent PROVE Inv' OBVIOUS
<1>1. Good(h) /\ phase \in Phases /\ todo \in SUBSET Streams
  BY DEF Inv, TypeOK, Good
<1>2. phase' \in Phases /\ todo' \in SUBSET Streams
  BY <1>1 DEF DataEvent, Serving, ListenerDestroyed, Accept, XferIdle,
       XferIo, ListIo, ServeOrphan
<1> SUFFICES Good(h') BY <1>2 DEF Inv, TypeOK, Good
<1>3. ASSUME NEW s \in Streams, ListenerDestroyed(s) PROVE Good(h')
  BY <1>1, <1>3, RemoveGood, DoomGood DEF ListenerDestroyed
<1>4. ASSUME NEW s \in Streams, Accept(s) PROVE Good(h')
  <2> DEFINE l == h.consumer[s]
             x == h.data[l]
             handed == [h EXCEPT !.data[l] = None, !.finished = @ \cup {l}]
             taken == [handed EXCEPT !.consumer[DataStream(x)] = x,
                                     !.table[DataStream(x)] = "added"]
  <2>1. l \in Listeners /\ x \in Xfers
    BY <1>1, <1>4 DEF Accept, Good, Heap
  <2>2. handed \in Heap /\ SameLinks(handed, h)
    BY <1>1, <2>1 DEF Good, Heap, SameLinks
  <2> HIDE DEF handed
  <2>3. taken \in Heap /\ SameLinks(taken, handed)
    BY <2>1, <2>2, StreamsFacts DEF Heap, SameLinks, Contexts, Controlled
  <2>4. Good(taken) BY <1>1, <2>2, <2>3, FrameGood
  <2>5. h' \in {taken, Remove(taken, l)}
    BY <1>4 DEF Accept, handed
  <2> HIDE DEF taken
  <2> QED BY <2>4, <2>5, RemoveGood
<1>5. ASSUME NEW s \in Streams, XferIdle(s) PROVE Good(h')
  BY <1>1, <1>5, AdoptGood, DoomGood DEF XferIdle
<1>6. ASSUME NEW s \in Streams, XferIo(s) PROVE Good(h')
  <2> DEFINE x == h.consumer[s]
             g == Adopt(h, x, s)
  <2>1. x \in Xfers BY <1>6 DEF XferIo
  <2>2. Good(g) BY <1>1, <2>1, AdoptGood
  <2> HIDE DEF g
  <2>3. PICK o :
          /\ o \in IoOutcomes(g.buf[x]) \/ o \in FlushOutcomes
          /\ \/ h' = [g EXCEPT !.buf[x] = o[1]]
             \/ h' = [[g EXCEPT !.buf[x] = o[1]]
                       EXCEPT !.doomed = @ \cup {s}]
             \/ h' = Complete([g EXCEPT !.buf[x] = o[1]], x)
    BY <1>6 DEF XferIo, g
  <2> DEFINE b == o[1]
             moved == [g EXCEPT !.buf[x] = b]
  <2>4. b \in {"none", "empty", "full"}
    <3>1. g.buf[x] \in {"none", "empty", "full"}
      BY <2>1, <2>2 DEF Good, Heap
    <3>2. CASE o \in FlushOutcomes BY <3>2 DEF FlushOutcomes
    <3>3. CASE o \in IoOutcomes(g.buf[x]) BY <3>1, <3>3 DEF IoOutcomes
    <3> QED BY <2>3, <3>2, <3>3
  <2>5. \/ h' = moved
        \/ h' = [moved EXCEPT !.doomed = @ \cup {s}]
        \/ h' = Complete(moved, x)
    BY <2>3
  <2> HIDE DEF b
  <2>6. moved \in Heap /\ SameLinks(moved, g)
    BY <2>1, <2>2, <2>4 DEF Good, Heap, SameLinks
  <2>7. Good(moved) BY <2>2, <2>6, FrameGood
  <2> HIDE DEF moved
  <2> QED BY <2>1, <2>5, <2>7, DoomGood, CompleteGood
<1>7. ASSUME NEW s \in Streams, ListIo(s) PROVE Good(h')
  BY <1>1, <1>7, CompleteGood, RemoveGood, DoomGood DEF ListIo
<1>8. ASSUME NEW s \in Streams, ServeOrphan(s) PROVE Good(h')
  BY <1>1, <1>8, DoomGood, FaultGood DEF ServeOrphan
<1> QED BY <1>3, <1>4, <1>5, <1>6, <1>7, <1>8 DEF DataEvent

\* A transfer that starts becomes the session's transfer.
LEMMA BeginGood ==
  ASSUME NEW g, Good(g), NEW x \in Xfers, g.xfer = None, g.kind[x] # "none",
         x \in g.alive \cap g.attached,
         g.fault = "none" /\ Control \in g.alive => x \notin g.begun
  PROVE  Good(Begin(g, x))
<1> DEFINE said == Say(g)
           first == [said EXCEPT !.xfer = x, !.begun = @ \cup {x}]
           timed == [first EXCEPT !.armed = "off"]
           in == IF g.kind[x] = "list" THEN g.table[FileStream(x)]
                 ELSE "added"
<1>1. said \in Heap /\ said.table = g.table /\ said.begun = g.begun
  <2>1. said \in Heap BY SayGood DEF Good
  <2>2. g \in Heap BY DEF Good
  <2> QED BY <2>1, <2>2 DEF Heap, Say
<1>2. SameLinks(said, g) BY DEF Good, Heap, Say, SameLinks
<1>3. Begin(g, x) = [timed EXCEPT !.table[FileStream(x)] = in]
  BY <1>1, <1>2 DEF Begin, Heap, SameLinks
<1> HIDE DEF said
<1>4. first \in Heap
  <2>1. [said EXCEPT !.xfer = x] \in Heap BY <1>1 DEF Heap
  <2>2. said.begun \cup {x} \in SUBSET Xfers BY <1>1 DEF Heap
  <2>3. first = [[said EXCEPT !.xfer = x]
                  EXCEPT !.begun = said.begun \cup {x}]
    BY <1>1 DEF Heap
  <2> HIDE DEF first
  <2> DEFINE linked == [said EXCEPT !.xfer = x]
  <2> HIDE DEF linked
  <2>4. linked \in Heap /\ first = [linked EXCEPT !.begun = said.begun \cup {x}]
    BY <2>1, <2>3 DEF linked
  <2> QED BY <2>2, <2>4 DEF Heap
<1>5. /\ first.xfer = x /\ first.begun = g.begun \cup {x}
      /\ first.listener = g.listener /\ first.attached = g.attached
      /\ first.alive = g.alive /\ first.answers = g.answers
      /\ first.kind = g.kind /\ first.fault = g.fault
  BY <1>1, <1>2 DEF Heap, SameLinks
<1> HIDE DEF first
<1>6. Consistent(first)
  <2> SUFFICES ASSUME g.fault = "none", Control \in g.alive
               PROVE  Consistent(first)
    BY <1>5 DEF Consistent
  <2>1. x # None BY ObjectsDistinct
  <2>2. g.begun \cap g.attached = {} BY ObjectsDistinct DEF Good, Consistent,
          Heap
  <2>3. \A y \in Xfers :
          first.answers[y] = IF y \in first.begun /\ y # first.xfer THEN 1
                             ELSE 0
    BY <1>5, ObjectsDistinct DEF Good, Consistent
  <2>4. first.listener # None =>
          first.listener \in first.alive \cap first.attached
    BY <1>5 DEF Good, Consistent
  <2>5. \A y \in first.begun : first.kind[y] # "none"
    BY <1>5 DEF Good, Consistent
  <2>6. \A y \in first.begun \cap first.attached : y = first.xfer
    BY <1>5, <2>2
  <2> QED BY <1>5, <2>3, <2>4, <2>5, <2>6 DEF Consistent
<1>7. timed \in Heap /\ SameLinks(timed, first)
  BY <1>4 DEF Heap, SameLinks
<1> HIDE DEF timed
<1>8. in \in {"none", "added", "in", "gone"}
  BY StreamsFacts DEF Good, Heap
<1> HIDE DEF in
<1> DEFINE table == [timed.table EXCEPT ![FileStream(x)] = in]
           shown == [timed EXCEPT !.table = table]
<1>9. shown \in Heap
  <2>1. table \in [Streams -> {"none", "added", "in", "gone"}]
    BY <1>7, <1>8 DEF Heap
  <2> HIDE DEF table
  <2> QED BY <1>7, <2>1, HeapFields
<1>10. SameLinks(shown, timed)
  <2> HIDE DEF table
  <2> QED BY <1>7 DEF Heap, SameLinks
<1>11. Begin(g, x) = shown BY <1>3
<1> HIDE DEF shown
<1> QED
  BY <1>4, <1>6, <1>7, <1>9, <1>10, <1>11, FrameGood DEF Good

\* A new transfer is linked to its session, and begun by no one yet.
LEMMA NewXferGood ==
  ASSUME NEW g, Good(g), NEW x \in Xfers, g.kind[x] = "none",
         NEW kind \in Kinds \ {"none"}
  PROVE  LET new == NewXfer(g, x, kind) IN
         /\ Good(new) /\ new.kind[x] # "none" /\ new.xfer = g.xfer
         /\ x \in new.alive \cap new.attached /\ new.begun = g.begun
         /\ new.listener = g.listener /\ new.fault = g.fault
         /\ (Control \in new.alive <=> Control \in g.alive)
<1> DEFINE new == NewXfer(g, x, kind)
           file == IF kind = "list" THEN None ELSE FileStream(x)
           from == IF kind = "retr" THEN file ELSE None
           to == IF kind = "stor" THEN file ELSE None
           made == [g EXCEPT !.alive = @ \cup {x}, !.attached = @ \cup {x},
                             !.kind[x] = kind]
           held == [s \in Streams |-> IF s = file THEN x ELSE g.consumer[s]]
<1>1. file \in Streams \cup {None} BY StreamsFacts
<1>2. from \in Streams \cup {None} /\ to \in Streams \cup {None} BY <1>1
<1>3. held \in [Streams -> Contexts \cup {None}]
  BY DEF Good, Heap, Contexts, Controlled
<1>4. new = [[[made EXCEPT !.in[x] = from] EXCEPT !.out[x] = to]
               EXCEPT !.consumer = held]
  BY DEF NewXfer
<1>5. made \in Heap
  <2> DEFINE living == g.alive \cup {x}
             linked == g.attached \cup {x}
             named == [g.kind EXCEPT ![x] = kind]
             a == [g EXCEPT !.alive = living]
             b == [a EXCEPT !.attached = linked]
  <2>1. /\ living \in SUBSET Contexts /\ linked \in SUBSET Controlled
        /\ named \in [Xfers -> Kinds]
    BY DEF Good, Heap, Contexts, Controlled
  <2>2. made = [b EXCEPT !.kind = named] BY DEF Good, Heap
  <2> HIDE DEF living, linked, named, made
  <2>3. a \in Heap BY <2>1, HeapFields DEF Good
  <2> HIDE DEF a
  <2>4. b \in Heap BY <2>1, <2>3, HeapFields
  <2> HIDE DEF b
  <2> QED BY <2>1, <2>2, <2>4, HeapFields
<1>6. /\ made.alive = g.alive \cup {x} /\ made.attached = g.attached \cup {x}
      /\ made.kind = [g.kind EXCEPT ![x] = kind] /\ made.xfer = g.xfer
      /\ made.begun = g.begun /\ made.listener = g.listener
      /\ made.fault = g.fault /\ made.answers = g.answers
  BY DEF Good, Heap
<1> HIDE DEF file, from, to, made, held
<1>7. /\ [made EXCEPT !.in[x] = from] \in Heap
      /\ SameLinks([made EXCEPT !.in[x] = from], made)
  BY <1>2, <1>5 DEF Heap, SameLinks
<1> DEFINE fromSet == [made EXCEPT !.in[x] = from]
<1> HIDE DEF fromSet
<1>8. /\ [fromSet EXCEPT !.out[x] = to] \in Heap
      /\ SameLinks([fromSet EXCEPT !.out[x] = to], fromSet)
  BY <1>2, <1>7 DEF Heap, SameLinks, fromSet
<1> DEFINE toSet == [fromSet EXCEPT !.out[x] = to]
<1> HIDE DEF toSet
<1>9. /\ [toSet EXCEPT !.consumer = held] \in Heap
      /\ SameLinks([toSet EXCEPT !.consumer = held], toSet)
  BY <1>3, <1>8 DEF Heap, SameLinks, toSet
<1>10. new \in Heap /\ SameLinks(new, made)
  BY <1>4, <1>7, <1>8, <1>9 DEF fromSet, toSet, SameLinks
<1> HIDE DEF new
<1>11. Control # x BY ObjectsDistinct
<1>12. new.kind[x] # "none" BY <1>6, <1>10 DEF SameLinks, Good, Heap, Kinds
<1>13. Consistent(new)
  <2> SUFFICES ASSUME g.fault = "none", Control \in g.alive
               PROVE  Consistent(new)
    BY <1>6, <1>10, <1>11 DEF Consistent, SameLinks
  <2>1. x \notin g.begun BY DEF Good, Consistent
  <2>2. \A y \in new.begun : new.kind[y] # "none"
    BY <2>1, <1>6, <1>10 DEF Good, Consistent, SameLinks, Heap
  <2>3. \A y \in new.begun \cap new.attached : y = new.xfer
    BY <2>1, <1>6, <1>10 DEF Good, Consistent, SameLinks
  <2> QED BY <1>6, <1>10, <2>2, <2>3 DEF Good, Consistent, SameLinks
<1> QED BY <1>6, <1>10, <1>11, <1>12, <1>13 DEF Good, SameLinks, new

LEMMA TransferGood ==
  ASSUME Inv, NEW kind \in Kinds \ {"none"}, Transfer(kind)
  PROVE  Good(h')
<1>1. Good(h) BY DEF Inv, TypeOK, Good
<1>2. PICK x \in Xfers :
        /\ h.kind[x] = "none"
        /\ LET new == NewXfer(h, x, kind) IN
           IF h.listener # None
           THEN h' = Begin([new EXCEPT !.data[h.listener] = x], x)
           ELSE \/ h' = Begin([new EXCEPT
                                 !.consumer[DataStream(x)] = x,
                                 !.table[DataStream(x)] = "added"], x)
                \/ h' = Error(new)
  BY DEF Transfer
<1> DEFINE new == NewXfer(h, x, kind)
           parked == [new EXCEPT !.data[h.listener] = x]
           joined == [new EXCEPT !.consumer[DataStream(x)] = x,
                                 !.table[DataStream(x)] = "added"]
<1>3. /\ Good(new) /\ new.kind[x] # "none" /\ new.xfer = h.xfer
      /\ x \in new.alive \cap new.attached /\ new.begun = h.begun
      /\ new.fault = h.fault
      /\ (Control \in new.alive <=> Control \in h.alive)
  BY <1>1, <1>2, NewXferGood
<1> HIDE DEF new
<1>4. h.xfer = None /\ Running BY DEF Transfer, Command, Serving
<1>8. h.fault = "none" /\ Control \in h.alive => x \notin h.begun
  BY <1>1, <1>2 DEF Good, Consistent
<1>5. CASE h.listener # None
  <2>1. h.listener \in Listeners BY <1>1, <1>5 DEF Good, Heap
  <2>2. parked \in Heap /\ SameLinks(parked, new)
    BY <1>3, <2>1 DEF Good, Heap, SameLinks
  <2>3. Good(parked) BY <1>3, <2>2, FrameGood
  <2>4. h' = Begin(parked, x) BY <1>2, <1>5 DEF new
  <2> HIDE DEF parked
  <2>5. /\ parked.xfer = None /\ parked.kind[x] # "none"
        /\ x \in parked.alive \cap parked.attached
    BY <1>3, <1>4, <2>2 DEF SameLinks
  <2>6. parked.fault = "none" /\ Control \in parked.alive
          => x \notin parked.begun
    BY <1>3, <1>8, <2>2 DEF SameLinks
  <2> QED BY <2>3, <2>4, <2>5, <2>6, BeginGood
<1>6. ASSUME h.listener = None, h' = Begin(joined, x) PROVE Good(h')
  <2>1. joined \in Heap /\ SameLinks(joined, new)
    BY <1>3, StreamsFacts DEF Good, Heap, SameLinks, Contexts, Controlled
  <2>2. Good(joined) BY <1>3, <2>1, FrameGood
  <2>3. h' = Begin(joined, x) BY <1>6
  <2> HIDE DEF joined
  <2>4. /\ joined.xfer = None /\ joined.kind[x] # "none"
        /\ x \in joined.alive \cap joined.attached
    BY <1>3, <1>4, <2>1 DEF SameLinks
  <2>5. joined.fault = "none" /\ Control \in joined.alive
          => x \notin joined.begun
    BY <1>3, <1>8, <2>1 DEF SameLinks
  <2> QED BY <2>2, <2>3, <2>4, <2>5, BeginGood
<1>7. ASSUME h' = Error(new) PROVE Good(h') BY <1>3, <1>7, SayGood
<1> QED BY <1>2, <1>5, <1>6, <1>7 DEF new

LEMMA PasvGood ==
  ASSUME Inv, Pasv
  PROVE  Good(h')
<1> DEFINE off == PassiveOff(h)
<1>1. Good(off) BY PassiveOffGood DEF Inv, TypeOK, Good
<1> HIDE DEF off
<1>2. Good(Say(off)) /\ Good(Error(off)) BY <1>1, SayGood
<1>3. SUFFICES ASSUME NEW l \in Listeners,
                      h' = [Say(off) EXCEPT
                             !.alive = @ \cup {l}, !.attached = @ \cup {l},
                             !.listener = l,
                             !.consumer[ListenStream(l)] = l,
                             !.table[ListenStream(l)] = "added"]
               PROVE  Good(h')
  BY <1>1, <1>2 DEF Pasv, off
<1> DEFINE g == Say(off)
           made == [g EXCEPT !.alive = @ \cup {l}, !.attached = @ \cup {l},
                             !.listener = l]
<1> HIDE DEF g
<1>4. made \in Heap
  <2> DEFINE living == g.alive \cup {l}
             linked == g.attached \cup {l}
             a == [g EXCEPT !.alive = living]
             b == [a EXCEPT !.attached = linked]
  <2>1. g \in Heap BY <1>2 DEF Good, g
  <2>2. living \in SUBSET Contexts /\ linked \in SUBSET Controlled
    BY <2>1 DEF Heap, Contexts, Controlled
  <2>3. made = [b EXCEPT !.listener = l] BY <2>1 DEF Heap
  <2> HIDE DEF living, linked, made
  <2>4. a \in Heap BY <2>1, <2>2, HeapFields
  <2> HIDE DEF a
  <2>5. b \in Heap BY <2>2, <2>4, HeapFields
  <2> HIDE DEF b
  <2> QED BY <2>3, <2>5, HeapFields
<1>5. /\ made.alive = g.alive \cup {l} /\ made.attached = g.attached \cup {l}
      /\ made.listener = l /\ made.xfer = g.xfer /\ made.begun = g.begun
      /\ made.answers = g.answers /\ made.kind = g.kind
      /\ made.fault = g.fault
  BY <1>2 DEF Good, Heap, g
<1>6. h' = [made EXCEPT !.consumer[ListenStream(l)] = l,
                        !.table[ListenStream(l)] = "added"]
  BY <1>3 DEF g
<1> HIDE DEF made
<1>7. l # Control /\ l \notin Xfers BY ObjectsDistinct
<1>8. Good(made) BY <1>2, <1>4, <1>5, <1>7 DEF Good, Consistent, Heap, g
<1>9. h' \in Heap /\ SameLinks(h', made)
  BY <1>4, <1>6, StreamsFacts DEF Heap, SameLinks, Contexts, Controlled
<1> QED BY <1>8, <1>9, FrameGood

LEMMA ControlInv == Inv /\ ControlEvent => Inv'
<1> SUFFICES ASSUME Inv, ControlEvent PROVE Inv' OBVIOUS
<1>1. Good(h) /\ phase \in Phases /\ todo \in SUBSET Streams
  BY DEF Inv, TypeOK, Good
<1>2. phase' \in Phases /\ todo' \in SUBSET Streams
  BY <1>1 DEF ControlEvent, Serving, Command, NoCommand, CloseAfterOutput,
       ControlLost, LineTooLong, OtherCommand, Pass, Rein, Quit, Pasv, Port,
       Abor, Reply, HangUp, Transfer, Phases
<1> SUFFICES Good(h') BY <1>2 DEF Inv, TypeOK, Good
<1>3. \A g : Good(g) => Good([g EXCEPT !.doomed = @ \cup {Ctl}])
  BY DoomGood, StreamsFacts
<1>4. CASE NoCommand BY <1>1, <1>4, StartClockGood, SayGood DEF NoCommand
<1>5. CASE CloseAfterOutput BY <1>1, <1>5, RemoveGood DEF CloseAfterOutput
<1>6. CASE ControlLost BY <1>1, <1>3, <1>6 DEF ControlLost
<1>7. CASE LineTooLong BY <1>1, <1>7, SayGood DEF LineTooLong
<1>8. CASE OtherCommand BY <1>1, <1>8, SayGood DEF OtherCommand
<1> DEFINE said == Say(h)
<1>9. Good(said) BY <1>1, SayGood
<1>10. CASE Pass
  <2>1. PICK success \in BOOLEAN :
          h' = [said EXCEPT !.auth = success,
                            !.armed = IF success THEN "set" ELSE @]
    BY <1>10 DEF Pass
  <2> HIDE DEF said
  <2> DEFINE clock == IF success THEN "set" ELSE said.armed
  <2>2. clock \in {"off", "set", "on"} BY <1>9 DEF Good, Heap
  <2>3. h' = [said EXCEPT !.auth = success, !.armed = clock] BY <2>1
  <2> HIDE DEF clock
  <2>4. h' \in Heap BY <1>9, <2>2, <2>3 DEF Good, Heap
  <2>5. SameLinks(h', said) BY <1>9, <2>3 DEF Good, Heap, SameLinks
  <2> QED BY <1>9, <2>4, <2>5, FrameGood
<1>11. CASE Rein
  <2>1. h' = [said EXCEPT !.auth = FALSE] BY <1>11 DEF Rein
  <2> HIDE DEF said
  <2>2. h' \in Heap /\ SameLinks(h', said)
    BY <1>9, <2>1 DEF Good, Heap, SameLinks
  <2> QED BY <1>9, <2>2, FrameGood
<1>12. CASE Quit
  <2> DEFINE closes == said.closing \/ h.xfer = None
  <2>1. h' = [[said EXCEPT !.auth = FALSE, !.quitting = TRUE]
               EXCEPT !.closing = closes]
    BY <1>12 DEF Quit
  <2>2. closes \in BOOLEAN OBVIOUS
  <2> HIDE DEF said, closes
  <2> DEFINE left == [said EXCEPT !.auth = FALSE, !.quitting = TRUE]
  <2>3. left \in Heap /\ SameLinks(left, said)
    BY <1>9 DEF Good, Heap, SameLinks
  <2> HIDE DEF left
  <2>4. h' \in Heap /\ SameLinks(h', left)
    BY <2>1, <2>2, <2>3 DEF Heap, SameLinks, left
  <2> QED BY <1>9, <2>3, <2>4, FrameGood
<1>13. CASE Pasv BY <1>13, PasvGood
<1>14. CASE Port BY <1>1, <1>14, PassiveOffGood, SayGood DEF Port
<1>15. CASE Abor
  <2>1. h.xfer \in Xfers BY <1>1, <1>15 DEF Abor, Good, Heap
  <2>2. Say(h).xfer = h.xfer BY <1>1 DEF Say, Good, Heap
  <2> QED BY <1>9, <1>15, <2>1, CompleteGood DEF Abor
<1>16. CASE Reply
  <2>1. Good([h EXCEPT !.resp = FALSE])
    <3>1. /\ [h EXCEPT !.resp = FALSE] \in Heap
          /\ SameLinks([h EXCEPT !.resp = FALSE], h)
      BY <1>1 DEF Good, Heap, SameLinks
    <3> QED BY <1>1, <3>1, FrameGood
  <2> QED BY <1>1, <1>3, <1>16, <2>1 DEF Reply
<1>17. CASE HangUp BY <1>1, <1>3, <1>17 DEF HangUp
<1>18. CASE \E kind \in Kinds \ {"none"} : Transfer(kind)
  BY <1>18, TransferGood
<1> QED
  BY <1>4, <1>5, <1>6, <1>7, <1>8, <1>10, <1>11, <1>12, <1>13, <1>14, <1>15,
     <1>16, <1>17, <1>18
  DEF ControlEvent

LEMMA NextInv == Inv /\ [Next]_vars => Inv'
<1> SUFFICES ASSUME Inv, [Next]_vars PROVE Inv' OBVIOUS
<1>1. CASE Next BY <1>1, LoopInv, PrepareInv, ControlInv, DataInv DEF Next
<1>2. CASE UNCHANGED vars BY <1>2 DEF vars, Inv, TypeOK
<1> QED BY <1>1, <1>2

---------------------------------------------------------------------------
(***************************************************************************)
(* Where the streams and the session's listener stand while a transfer     *)
(* waits for its data connection, again but for what undefined behaviour   *)
(* may have done.                                                          *)
(***************************************************************************)
\* A transfer that has only its file: do_io finds nothing to do for it.
Unjoined(g, x) ==
  \/ g.kind[x] = "list"
  \/ g.in[x] = FileStream(x) /\ g.out[x] = None
  \/ g.in[x] = None /\ g.out[x] = FileStream(x) /\ g.buf[x] # "full"

\* What is parked is the session's transfer, in the session's listener, which
\* is open, and its data connection is not made yet.
Waiting(g, E) ==
  \A l \in Listeners :
    g.data[l] # None =>
      /\ l = g.listener /\ g.data[l] = g.xfer /\ l \notin g.finished
      /\ g.table[DataStream(g.xfer)] = "none"
      /\ g.xfer \in E \/ Unjoined(g, g.xfer)

\* The session's listener can be reached through its socket.
Reached(g, E) ==
  /\ Control \notin g.alive =>
       g.listener = None /\ g.table[Ctl] \notin {"added", "in"}
  /\ g.listener # None =>
       /\ g.table[ListenStream(g.listener)] # "none"
       /\ \/ g.listener \in E
          \/ /\ g.consumer[ListenStream(g.listener)] = g.listener
             /\ g.table[ListenStream(g.listener)] \in {"added", "in"}

\* What is finished, consumed by a listener or doomed was sown once.
Sown(g) ==
  /\ \A l \in g.finished : g.table[ListenStream(l)] # "none"
  /\ \A s \in Streams :
       g.consumer[s] \in Listeners
         => g.table[ListenStream(g.consumer[s])] # "none"
  /\ \A s \in g.doomed \cup {Ctl} : g.table[s] # "none"

\* A transfer consumes its own file and its own data connection alone.
Held(g) ==
  /\ \A s \in Streams : g.consumer[s] = Control => s = Ctl
  /\ \A s \in Streams :
       g.consumer[s] \in Xfers =>
         \/ s = FileStream(g.consumer[s]) /\ g.kind[g.consumer[s]] # "list"
         \/ s = DataStream(g.consumer[s]) /\ g.table[s] # "none"
  /\ \A x \in Xfers :
       g.kind[x] = "none" =>
         /\ g.table[DataStream(x)] = "none" /\ g.buf[x] # "full"
         /\ \A s \in Streams : g.consumer[s] # x

\* E is the object that is just being deleted.
Docked(g, E) ==
  g.fault = "none" => Waiting(g, E) /\ Reached(g, E) /\ Sown(g) /\ Held(g)

\* The fields that decide whether a heap is docked.
SameDock(f, g) ==
  /\ f.fault = g.fault /\ f.listener = g.listener /\ f.xfer = g.xfer
  /\ f.data = g.data /\ f.finished = g.finished /\ f.kind = g.kind
  /\ f.in = g.in /\ f.out = g.out /\ f.buf = g.buf
  /\ f.consumer = g.consumer /\ f.table = g.table /\ f.doomed = g.doomed
  /\ (Control \in f.alive <=> Control \in g.alive)

LEMMA FrameDocked ==
  ASSUME NEW g, NEW E, Docked(g, E), NEW f, SameDock(f, g)
  PROVE  Docked(f, E)
BY DEF Docked, Waiting, Unjoined, Reached, Sown, Held, SameDock

\* The types of those fields.
LEMMA DockTypes ==
  ASSUME NEW g \in Heap
  PROVE  /\ g.listener \in Listeners \cup {None}
         /\ g.xfer \in Xfers \cup {None}
         /\ g.data \in [Listeners -> Xfers \cup {None}]
         /\ g.finished \in SUBSET Listeners
         /\ g.kind \in [Xfers -> Kinds]
         /\ g.in \in [Xfers -> Streams \cup {None}]
         /\ g.out \in [Xfers -> Streams \cup {None}]
         /\ g.buf \in [Xfers -> {"none", "empty", "full"}]
         /\ g.consumer \in [Streams -> Contexts \cup {None}]
         /\ g.table \in [Streams -> {"none", "added", "in", "gone"}]
         /\ g.doomed \in SUBSET Streams
BY DEF Heap

\* Streams of different kinds, or of different objects, are different.
LEMMA StreamsDiffer ==
  /\ \A l \in Listeners, m \in Listeners :
       ListenStream(l) = ListenStream(m) => l = m
  /\ \A x \in Xfers, y \in Xfers :
       /\ FileStream(x) = FileStream(y) => x = y
       /\ DataStream(x) = DataStream(y) => x = y
       /\ FileStream(x) # DataStream(y)
  /\ \A l \in Listeners, x \in Xfers :
       ListenStream(l) # FileStream(x) /\ ListenStream(l) # DataStream(x)
  /\ \A l \in Listeners : ListenStream(l) # Ctl
  /\ \A x \in Xfers : FileStream(x) # Ctl /\ DataStream(x) # Ctl
BY DEF ListenStream, FileStream, DataStream, Ctl

\* What the death or the end of c changes: the session may forget its
\* transfer, its listener, or both when the one is parked in the other.
LEMMA NotifyFields ==
  ASSUME NEW g \in Heap, NEW c \in Controlled
  PROVE  LET n == Notify(g, c) IN
         /\ n.kind = g.kind /\ n.in = g.in /\ n.out = g.out /\ n.buf = g.buf
         /\ n.consumer = g.consumer /\ n.table = g.table
         /\ n.doomed = g.doomed /\ n.alive = g.alive
         /\ n.listener \in {g.listener, None}
         /\ n.fault = "none" =>
              /\ g.fault = "none"
              /\ \/ /\ n.data = g.data /\ n.finished = g.finished
                    /\ n.listener = g.listener /\ n.xfer = g.xfer
                 \/ /\ c = g.xfer /\ n.xfer = None /\ ~Parked(g)
                    /\ n.data = g.data /\ n.finished = g.finished
                    /\ n.listener = g.listener
                 \/ /\ c = g.xfer /\ n.xfer = None /\ Parked(g)
                    /\ n.data = [g.data EXCEPT ![g.listener] = None]
                    /\ n.finished = g.finished \cup {g.listener}
                    /\ n.listener = None
                 \/ /\ c = g.listener /\ n.listener = None
                    /\ n.data = g.data /\ n.finished = g.finished
                    /\ n.xfer = g.xfer
<1> DEFINE n == Notify(g, c)
           d == [g EXCEPT !.attached = @ \ {c}]
           faulty == [g EXCEPT !.fault = "controller"]
<1>1. SameDock(d, g) /\ d \in Heap /\ d.alive = g.alive BY DEF Heap, SameDock
<1>2. CASE n = g BY <1>2
<1>3. CASE n = faulty
  <2>1. /\ faulty.fault = "controller" /\ faulty.alive = g.alive
        /\ faulty.kind = g.kind /\ faulty.in = g.in /\ faulty.out = g.out
        /\ faulty.buf = g.buf /\ faulty.consumer = g.consumer
        /\ faulty.table = g.table /\ faulty.doomed = g.doomed
        /\ faulty.listener = g.listener
    BY DEF Heap
  <2> QED BY <1>3, <2>1
<1> HIDE DEF d
<1>4. CASE n = XferDone(d, c)
  <2>1. CASE c = d.xfer
    <3> DEFINE f == ForgetParked(d)
    <3>1. n = Answer(f, c) BY <1>4, <2>1 DEF XferDone
    <3>2. /\ f \in Heap /\ f.alive = d.alive /\ f.kind = d.kind
          /\ f.fault = d.fault
      BY <1>1, ForgetParkedFacts
    <3>3. /\ f.in = d.in /\ f.out = d.out /\ f.buf = d.buf
          /\ f.consumer = d.consumer /\ f.table = d.table
          /\ f.doomed = d.doomed
          /\ \/ /\ ~Parked(d) /\ f.data = d.data /\ f.finished = d.finished
                /\ f.listener = d.listener
             \/ /\ Parked(d)
                /\ f.data = [d.data EXCEPT ![d.listener] = None]
                /\ f.finished = d.finished \cup {d.listener}
                /\ f.listener = None
      <4>1. CASE ~Parked(d) BY <4>1 DEF ForgetParked
      <4>2. CASE Parked(d)
        <5> DEFINE e == [d EXCEPT !.data[d.listener] = None,
                                  !.finished = @ \cup {d.listener},
                                  !.listener = None]
        <5>1. f = e BY <4>2 DEF ForgetParked
        <5>2. /\ e.in = d.in /\ e.out = d.out /\ e.buf = d.buf
              /\ e.consumer = d.consumer /\ e.table = d.table
              /\ e.doomed = d.doomed
              /\ e.data = [d.data EXCEPT ![d.listener] = None]
              /\ e.finished = d.finished \cup {d.listener}
              /\ e.listener = None
          BY <1>1 DEF Heap
        <5> QED BY <4>2, <5>1, <5>2
      <4> QED BY <4>1, <4>2
    <3> HIDE DEF f
    <3>4. /\ n.xfer = None /\ n.listener = f.listener /\ n.data = f.data
          /\ n.finished = f.finished /\ n.fault = f.fault
          /\ n.kind = f.kind /\ n.in = f.in /\ n.out = f.out
          /\ n.buf = f.buf /\ n.consumer = f.consumer
          /\ n.table = f.table /\ n.doomed = f.doomed /\ n.alive = f.alive
      <4> DEFINE a == Answer(f, c)
      <4>1. /\ a.xfer = None /\ a.listener = f.listener /\ a.data = f.data
            /\ a.finished = f.finished /\ a.fault = f.fault
            /\ a.kind = f.kind /\ a.in = f.in /\ a.out = f.out
            /\ a.buf = f.buf /\ a.consumer = f.consumer
            /\ a.table = f.table /\ a.doomed = f.doomed
            /\ a.alive = f.alive
        BY <3>2 DEF Answer, Say, Heap
      <4> QED BY <3>1, <4>1
    <3>5. Parked(d) <=> Parked(g) BY <1>1 DEF Parked, SameDock
    <3> HIDE DEF n
    <3> QED BY <1>1, <2>1, <3>2, <3>3, <3>4, <3>5 DEF SameDock, n
  <2>2. CASE c # d.xfer /\ c = d.listener
    <3> DEFINE e == [d EXCEPT !.listener = None]
    <3>1. n = e BY <1>4, <2>2 DEF XferDone
    <3>2. /\ e.listener = None /\ e.xfer = d.xfer /\ e.data = d.data
          /\ e.finished = d.finished /\ e.fault = d.fault
          /\ e.kind = d.kind /\ e.in = d.in /\ e.out = d.out
          /\ e.buf = d.buf /\ e.consumer = d.consumer
          /\ e.table = d.table /\ e.doomed = d.doomed /\ e.alive = d.alive
      BY <1>1 DEF Heap
    <3> HIDE DEF n, e
    <3> QED BY <1>1, <2>2, <3>1, <3>2 DEF SameDock, n
  <2>3. CASE c # d.xfer /\ c # d.listener
    <3>1. n = d BY <1>4, <2>3 DEF XferDone
    <3> HIDE DEF n
    <3> QED BY <1>1, <3>1 DEF SameDock, n
  <2> QED BY <2>1, <2>2, <2>3
<1>5. n = g \/ n = faulty \/ n = XferDone(d, c) BY DEF Notify, d
<1> QED BY <1>2, <1>3, <1>4, <1>5

\* An object that notifies the session has no pointer from it any more: it
\* needs no exception.
LEMMA NotifyDocked ==
  ASSUME NEW g, Good(g), NEW E, Docked(g, E), NEW c \in Controlled,
         c \in Listeners => g.data[c] = None
  PROVE  Docked(Notify(g, c), E \ {c})
<1> DEFINE n == Notify(g, c)
<1>1. g \in Heap BY DEF Good
<1>2. /\ n.kind = g.kind /\ n.in = g.in /\ n.out = g.out /\ n.buf = g.buf
      /\ n.consumer = g.consumer /\ n.table = g.table
      /\ n.doomed = g.doomed /\ n.alive = g.alive
      /\ n.fault = "none" =>
           /\ g.fault = "none"
           /\ \/ /\ n.data = g.data /\ n.finished = g.finished
                 /\ n.listener = g.listener /\ n.xfer = g.xfer
              \/ /\ c = g.xfer /\ n.xfer = None /\ ~Parked(g)
                 /\ n.data = g.data /\ n.finished = g.finished
                 /\ n.listener = g.listener
              \/ /\ c = g.xfer /\ n.xfer = None /\ Parked(g)
                 /\ n.data = [g.data EXCEPT ![g.listener] = None]
                 /\ n.finished = g.finished \cup {g.listener}
                 /\ n.listener = None
              \/ /\ c = g.listener /\ n.listener = None
                 /\ n.data = g.data /\ n.finished = g.finished
                 /\ n.xfer = g.xfer
  BY <1>1, NotifyFields
<1>3. Unlinked(n, c) BY NotifyGood
<1> HIDE DEF n
<1> SUFFICES ASSUME n.fault = "none"
             PROVE  Waiting(n, E \ {c}) /\ Reached(n, E \ {c})
                    /\ Sown(n) /\ Held(n)
  BY DEF Docked, n
<1>4. Waiting(g, E) /\ Reached(g, E) /\ Sown(g) /\ Held(g)
  BY <1>2 DEF Docked
<1>5. Held(n) BY <1>2, <1>4 DEF Held
<1>6. \A x : Unjoined(n, x) <=> Unjoined(g, x) BY <1>2 DEF Unjoined
<1>7. /\ g.listener \in Listeners \cup {None}
      /\ g.data \in [Listeners -> Xfers \cup {None}]
      /\ g.finished \in SUBSET Listeners
  BY <1>1, DockTypes
<1>8. None \notin Listeners BY ObjectsDistinct
<1>9. Sown(n)
  <2>1. \A l \in n.finished : l \in g.finished \/ (l = g.listener /\ l # None)
    BY <1>2 DEF Parked
  <2>2. \A l \in n.finished : n.table[ListenStream(l)] # "none"
    BY <1>2, <1>4, <2>1 DEF Sown, Reached
  <2> QED BY <1>2, <1>4, <2>2 DEF Sown
<1>10. Control \notin g.alive =>
         n.listener = None /\ \A l \in Listeners : n.data[l] = None
  BY <1>2, <1>4, <1>7, <1>8 DEF Reached, Waiting
<1>11. Control \in g.alive => n.listener # c /\ n.xfer # c
  BY <1>2, <1>3 DEF Unlinked
<1>12. Reached(n, E \ {c})
  <2>1. n.listener # None => n.listener = g.listener /\ n.listener # c
    BY <1>2, <1>10, <1>11
  <2> QED BY <1>2, <1>4, <1>10, <2>1 DEF Reached
<1>13. Waiting(n, E \ {c})
  <2> SUFFICES ASSUME NEW l \in Listeners, n.data[l] # None
               PROVE  /\ l = n.listener /\ n.data[l] = n.xfer
                      /\ l \notin n.finished
                      /\ n.table[DataStream(n.xfer)] = "none"
                      /\ n.xfer \in E \ {c} \/ Unjoined(n, n.xfer)
    BY DEF Waiting
  <2>1. g.data[l] = n.data[l] BY <1>2, <1>7
  <2>2. /\ l = g.listener /\ g.data[l] = g.xfer /\ l \notin g.finished
        /\ g.table[DataStream(g.xfer)] = "none"
        /\ g.xfer \in E \/ Unjoined(g, g.xfer)
    BY <1>4, <2>1 DEF Waiting
  <2>3. l # c BY <2>1
  <2>4. Parked(g) BY <1>8, <2>1, <2>2 DEF Parked
  <2>5. n.data # [g.data EXCEPT ![g.listener] = None] BY <1>7, <2>2
  <2>6. /\ n.data = g.data /\ n.finished = g.finished
        /\ n.listener = g.listener /\ n.xfer = g.xfer
    BY <1>2, <2>2, <2>3, <2>4, <2>5
  <2>7. n.xfer # c BY <1>10, <1>11
  <2> QED BY <1>2, <1>6, <2>2, <2>6, <2>7
<1> QED BY <1>5, <1>9, <1>12, <1>13

LEMMA ReleaseDocked ==
  ASSUME NEW g, Good(g), NEW E, Docked(g, E), NEW x \in Xfers, NEW S
  PROVE  LET f == ReleaseStreams(g, x, S) IN
         /\ Docked(f, E) /\ f.table = g.table /\ f.data = g.data
         /\ f.kind = g.kind /\ f.listener = g.listener
<1> DEFINE f == ReleaseStreams(g, x, S)
           freed == [s \in Streams |->
                       IF /\ s \in S /\ s \in {g.in[x], g.out[x]}
                          /\ g.consumer[s] = x
                       THEN None ELSE g.consumer[s]]
<1>1. f = [g EXCEPT !.consumer = freed] BY DEF ReleaseStreams
<1>2. \A s \in Streams : freed[s] = g.consumer[s]
                         \/ (freed[s] = None /\ g.consumer[s] = x)
  OBVIOUS
<1> HIDE DEF freed, f
<1>3. /\ f.fault = g.fault /\ f.listener = g.listener /\ f.xfer = g.xfer
      /\ f.data = g.data /\ f.finished = g.finished /\ f.kind = g.kind
      /\ f.in = g.in /\ f.out = g.out /\ f.buf = g.buf
      /\ f.consumer = freed /\ f.table = g.table /\ f.doomed = g.doomed
      /\ f.alive = g.alive
  BY <1>1 DEF Good, Heap
<1> SUFFICES ASSUME g.fault = "none" PROVE Docked(f, E)
  BY <1>3 DEF Docked, f
<1>4. Waiting(g, E) /\ Reached(g, E) /\ Sown(g) /\ Held(g) BY DEF Docked
<1>5. None \notin Listeners \cup Xfers /\ x \notin Listeners
  BY ObjectsDistinct
<1>6. Waiting(f, E) BY <1>3, <1>4 DEF Waiting, Unjoined
<1>7. Reached(f, E)
  <2>1. f.listener # None => ListenStream(f.listener) \in Streams
    BY <1>3, StreamsFacts, DockTypes DEF Good
  <2>2. f.listener # None /\ f.listener \notin E =>
          f.consumer[ListenStream(f.listener)] = f.listener
    BY <1>2, <1>3, <1>4, <1>5, <2>1, DockTypes DEF Reached, Good
  <2> QED BY <1>3, <1>4, <2>2 DEF Reached
<1>8. Sown(f) BY <1>2, <1>3, <1>4, <1>5 DEF Sown
<1>9. Held(f) BY <1>2, <1>3, <1>4, <1>5, ObjectsDistinct DEF Held
<1> QED BY <1>6, <1>7, <1>8, <1>9 DEF Docked

LEMMA BuryDocked ==
  ASSUME NEW g, Good(g), NEW E, Docked(g, E), NEW c \in Controlled
  PROVE  Docked(Bury(g, c), E) /\ Bury(g, c).table = g.table
         /\ Bury(g, c).listener = g.listener
<1>1. c # Control BY ObjectsDistinct DEF Controlled
<1>2. SameDock(Bury(g, c), g) BY <1>1 DEF Good, Heap, Bury, SameDock
<1> QED BY <1>2, FrameDocked DEF SameDock

\* A transfer that is deleted is parked nowhere.
LEMMA DeleteXferDocked ==
  ASSUME NEW g, Good(g), NEW E, Docked(g, E), NEW x \in Xfers
  PROVE  LET f == DeleteXfer(g, x) IN
         /\ Docked(f, E \ {x}) /\ f.table = g.table
         /\ f.listener \in {g.listener, None}
<1> DEFINE freed == ReleaseStreams(g, x, Streams)
           told == Notify(freed, x)
<1>1. /\ Good(freed) /\ Docked(freed, E) /\ freed.table = g.table
      /\ freed.listener = g.listener
  BY ReleaseGood, ReleaseDocked
<1> HIDE DEF freed
<1>2. x \in Controlled /\ x \notin Listeners
  BY ObjectsDistinct DEF Controlled
<1>3. /\ Good(told) /\ Docked(told, E \ {x}) /\ told.table = freed.table
      /\ told.listener \in {freed.listener, None}
  BY <1>1, <1>2, NotifyGood, NotifyDocked, NotifyFields DEF Good
<1> HIDE DEF told
<1>4. /\ Docked(Bury(told, x), E \ {x}) /\ Bury(told, x).table = told.table
      /\ Bury(told, x).listener = told.listener
  BY <1>2, <1>3, BuryDocked
<1> QED BY <1>1, <1>3, <1>4 DEF DeleteXfer, freed, told

\* A listener that frees its transfer is left empty, and finished.
LEMMA FreeListenerDocked ==
  ASSUME NEW g, Good(g), NEW E, Docked(g, E), NEW l \in Listeners,
         g.table[ListenStream(l)] # "none"
  PROVE  LET f == FreeListener(g, l) IN
         /\ Docked(f, E) /\ f.table = g.table /\ f.data[l] = None
         /\ f.listener \in {g.listener, None}
<1> DEFINE f == FreeListener(g, l)
           freed == IF g.data[l] = None THEN g ELSE DeleteXfer(g, g.data[l])
<1>1. g.data[l] = None \/ g.data[l] \in Xfers BY DEF Good, Heap
<1>2. Good(freed) BY <1>1, DeleteXferGood
<1>3. /\ Docked(freed, E) /\ freed.table = g.table
      /\ freed.listener \in {g.listener, None}
  <2>1. CASE g.data[l] = None BY <2>1
  <2>2. CASE g.data[l] # None
    <3>1. /\ Docked(freed, E \ {g.data[l]}) /\ freed.table = g.table
          /\ freed.listener \in {g.listener, None}
      BY <1>1, <2>2, DeleteXferDocked
    <3> HIDE DEF freed
    <3> QED
      BY <3>1 DEF Docked, Waiting, Reached
  <2> QED BY <2>1, <2>2
<1>4. f = [freed EXCEPT !.data[l] = None, !.finished = @ \cup {l}]
  BY DEF FreeListener
<1> HIDE DEF freed, f
<1>5. /\ f.fault = freed.fault /\ f.listener = freed.listener
      /\ f.xfer = freed.xfer
      /\ f.data = [freed.data EXCEPT ![l] = None]
      /\ f.finished = freed.finished \cup {l} /\ f.kind = freed.kind
      /\ f.in = freed.in /\ f.out = freed.out /\ f.buf = freed.buf
      /\ f.consumer = freed.consumer /\ f.table = freed.table
      /\ f.doomed = freed.doomed /\ f.alive = freed.alive
  BY <1>2, <1>4 DEF Good, Heap
<1>6. freed.data \in [Listeners -> Xfers \cup {None}]
  BY <1>2, DockTypes DEF Good
<1>7. f.data[l] = None /\ \A m \in Listeners \ {l} : f.data[m] = freed.data[m]
  BY <1>5, <1>6
<1>8. ASSUME freed.fault = "none"
      PROVE  Waiting(f, E) /\ Reached(f, E) /\ Sown(f) /\ Held(f)
  <2>1. Waiting(freed, E) /\ Reached(freed, E) /\ Sown(freed) /\ Held(freed)
    BY <1>3, <1>8 DEF Docked
  <2>2. Waiting(f, E) BY <1>5, <1>7, <2>1 DEF Waiting, Unjoined
  <2>3. Reached(f, E) BY <1>5, <2>1 DEF Reached
  <2>4. Sown(f) BY <1>3, <1>5, <2>1 DEF Sown
  <2>5. Held(f) BY <1>5, <2>1 DEF Held
  <2> QED BY <2>2, <2>3, <2>4, <2>5
<1> QED BY <1>3, <1>5, <1>7, <1>8 DEF Docked, f

LEMMA DeleteListenerDocked ==
  ASSUME NEW g, Good(g), NEW E, Docked(g, E), NEW l \in Listeners,
         g.table[ListenStream(l)] # "none"
  PROVE  LET f == DeleteListener(g, l) IN
         Docked(f, E \ {l}) /\ f.table = g.table
<1> DEFINE freed == FreeListener(g, l)
           told == Notify(freed, l)
<1>1. /\ Good(freed) /\ Docked(freed, E) /\ freed.table = g.table
      /\ freed.data[l] = None
  BY FreeListenerGood, FreeListenerDocked
<1> HIDE DEF freed
<1>2. l \in Controlled BY DEF Controlled
<1>3. Good(told) /\ Docked(told, E \ {l}) /\ told.table = freed.table
  BY <1>1, <1>2, NotifyGood, NotifyDocked, NotifyFields DEF Good
<1> HIDE DEF told
<1>4. Docked(Bury(told, l), E \ {l}) /\ Bury(told, l).table = told.table
  BY <1>2, <1>3, BuryDocked
<1> QED BY <1>1, <1>3, <1>4 DEF DeleteListener, freed, told

\* Without its listener the session has no parked transfer.
LEMMA PassiveOffDocked ==
  ASSUME NEW g, Good(g), g.fault = "none", NEW E, Docked(g, E)
  PROVE  LET f == PassiveOff(g) IN
         /\ Docked(f, E) /\ f.table = g.table
         /\ f.fault = "none" =>
              f.listener = None /\ \A l \in Listeners : f.data[l] = None
<1>0. None \notin Listeners BY ObjectsDistinct
<1>1. CASE g.listener = None
  <2>1. PassiveOff(g) = g BY <1>1 DEF PassiveOff
  <2>2. \A l \in Listeners : g.data[l] = None
    BY <1>0, <1>1 DEF Docked, Waiting
  <2> QED BY <1>1, <2>1, <2>2
<1>2. CASE g.listener # None
  <2> DEFINE l == g.listener
             freed == FreeListener(g, l)
             faulty == [freed EXCEPT !.fault = "null"]
             off == [freed EXCEPT !.attached = @ \ {l}, !.listener = None]
  <2>1. l \in Listeners BY <1>2 DEF Good, Heap
  <2>2. Good(freed) BY <2>1, FreeListenerGood
  <2>3. PassiveOff(g) = IF freed.listener = None THEN faulty ELSE off
    BY <1>2 DEF PassiveOff
  <2>4. /\ Docked(freed, E) /\ freed.table = g.table
        /\ freed.data[l] = None /\ freed.listener \in {l, None}
    <3>1. g.table[ListenStream(l)] # "none" BY <1>2 DEF Docked, Reached
    <3> QED BY <2>1, <3>1, FreeListenerDocked
  <2> HIDE DEF freed, l
  <2>5. CASE PassiveOff(g) = faulty
    <3>1. faulty.fault = "null" /\ faulty.table = freed.table
      BY <2>2 DEF Good, Heap
    <3> QED BY <2>4, <2>5, <3>1 DEF Docked
  <2>6. CASE freed.listener # None /\ PassiveOff(g) = off
    <3>1. /\ off.fault = freed.fault /\ off.listener = None
          /\ off.xfer = freed.xfer /\ off.data = freed.data
          /\ off.finished = freed.finished /\ off.kind = freed.kind
          /\ off.in = freed.in /\ off.out = freed.out
          /\ off.buf = freed.buf /\ off.consumer = freed.consumer
          /\ off.table = freed.table /\ off.doomed = freed.doomed
          /\ off.alive = freed.alive
      BY <2>2 DEF Good, Heap
    <3> HIDE DEF off
    <3>3. freed.fault = "none" => \A m \in Listeners : freed.data[m] = None
      BY <2>4, <2>6 DEF Docked, Waiting
    <3>4. freed.fault = "none" =>
            Waiting(off, E) /\ Reached(off, E) /\ Sown(off) /\ Held(off)
      BY <2>4, <3>1, <3>3 DEF Docked, Waiting, Reached, Sown, Held
    <3> QED BY <2>4, <2>6, <3>1, <3>3, <3>4 DEF Docked
  <2> QED BY <2>3, <2>5, <2>6
<1> QED BY <1>1, <1>2

LEMMA DeleteControlDocked ==
  ASSUME NEW g, Good(g), g.fault = "none", NEW E, Docked(g, E),
         g.table[Ctl] \notin {"added", "in"}
  PROVE  LET f == DeleteControl(g) IN
         Docked(f, E) /\ f.table = g.table
<1> DEFINE off == PassiveOff(g)
           f == Bury([off EXCEPT !.attached = @ \ {g.xfer}, !.xfer = None],
                     Control)
<1>1. /\ Good(off) /\ Docked(off, E) /\ off.table = g.table
      /\ off.fault = "none" =>
           off.listener = None /\ \A l \in Listeners : off.data[l] = None
  BY PassiveOffGood, PassiveOffDocked
<1> HIDE DEF off
<1>2. CASE off.fault # "none" BY <1>1, <1>2 DEF DeleteControl, off
<1>3. CASE off.fault = "none"
  <2>1. DeleteControl(g) = f BY <1>3 DEF DeleteControl, off
  <2>2. /\ f.fault = off.fault /\ f.listener = off.listener
        /\ f.data = off.data /\ f.finished = off.finished
        /\ f.kind = off.kind /\ f.buf = off.buf
        /\ f.consumer = off.consumer /\ f.table = off.table
        /\ f.doomed = off.doomed
    BY <1>1 DEF Bury, Good, Heap
  <2> HIDE DEF f
  <2>3. Waiting(f, E) /\ Reached(f, E) /\ Sown(f) /\ Held(f)
    BY <1>1, <1>3, <2>2 DEF Docked, Waiting, Reached, Sown, Held
  <2> QED BY <1>1, <2>1, <2>2, <2>3 DEF Docked
<1> QED BY <1>2, <1>3

\* A transfer that loses a stream outlives it only when it is not parked.
LEMMA XferHungupDocked ==
  ASSUME NEW g, Good(g), Docked(g, {}), NEW x \in Xfers, NEW s \in Streams
  PROVE  LET f == XferHungup(g, x, s) IN
         Docked(f, {}) /\ f.table = g.table
<1> DEFINE inFree == ReleaseStreams(g, x, {g.in[x]})
           allFree == ReleaseStreams(g, x, Streams)
           flushing == [inFree EXCEPT !.in[x] = None]
           cut == [allFree EXCEPT !.in[x] = None, !.out[x] = None]
           f == XferHungup(g, x, s)
<1>1. /\ Good(inFree) /\ Docked(inFree, {}) /\ inFree.table = g.table
      /\ Good(allFree) /\ Docked(allFree, {}) /\ allFree.table = g.table
  BY ReleaseGood, ReleaseDocked
<1>2. /\ inFree.in = g.in /\ inFree.out = g.out /\ inFree.buf = g.buf
      /\ inFree.kind = g.kind
  BY DEF ReleaseStreams, Good, Heap
<1>3. \/ f = DeleteXfer(g, x) \/ f = DeleteXfer(cut, x)
      \/ /\ f = flushing /\ g.kind[x] # "list"
         /\ g.out[x] # None /\ s = g.in[x] /\ g.buf[x] = "full"
  BY DEF XferHungup
<1> HIDE DEF inFree, allFree, f
<1>4. CASE f = DeleteXfer(g, x)
  <2>1. Docked(f, {} \ {x}) /\ f.table = g.table BY <1>4, DeleteXferDocked
  <2> QED BY <2>1 DEF f
<1>5. CASE f = DeleteXfer(cut, x)
  <2>1. /\ cut.fault = allFree.fault /\ cut.listener = allFree.listener
        /\ cut.xfer = allFree.xfer /\ cut.data = allFree.data
        /\ cut.finished = allFree.finished /\ cut.kind = allFree.kind
        /\ cut.in = [allFree.in EXCEPT ![x] = None]
        /\ cut.out = [allFree.out EXCEPT ![x] = None]
        /\ cut.buf = allFree.buf /\ cut.consumer = allFree.consumer
        /\ cut.table = allFree.table /\ cut.doomed = allFree.doomed
        /\ cut.alive = allFree.alive
    BY <1>1 DEF Good, Heap
  <2>2. Good(cut)
    <3>1. cut \in Heap BY <1>1 DEF Good, Heap
    <3>2. SameLinks(cut, allFree) BY <1>1 DEF Good, Heap, SameLinks
    <3> QED BY <1>1, <3>1, <3>2, FrameGood
  <2> HIDE DEF cut
  <2>3. \A y \in Xfers \ {x} : Unjoined(cut, y) <=> Unjoined(allFree, y)
    BY <1>1, <2>1, DockTypes DEF Good, Unjoined
  <2>4. allFree.fault = "none" => Waiting(cut, {x})
    <3>1. \A l \in Listeners :
            allFree.data[l] # None => allFree.data[l] \in Xfers
      BY <1>1, DockTypes DEF Good
    <3> QED BY <1>1, <2>1, <2>3, <3>1 DEF Docked, Waiting
  <2>5. allFree.fault = "none" => Reached(cut, {x}) /\ Sown(cut) /\ Held(cut)
    BY <1>1, <2>1 DEF Docked, Reached, Sown, Held
  <2>6. Docked(cut, {x}) BY <2>1, <2>4, <2>5 DEF Docked
  <2>7. Docked(f, {x} \ {x}) /\ f.table = cut.table
    BY <1>5, <2>2, <2>6, DeleteXferDocked
  <2>8. {x} \ {x} = {} OBVIOUS
  <2> QED BY <1>1, <2>1, <2>7, <2>8 DEF f
<1>6. CASE /\ f = flushing /\ g.kind[x] # "list"
           /\ g.out[x] # None /\ s = g.in[x] /\ g.buf[x] = "full"
  <2>1. /\ flushing.fault = inFree.fault
        /\ flushing.listener = inFree.listener
        /\ flushing.xfer = inFree.xfer /\ flushing.data = inFree.data
        /\ flushing.finished = inFree.finished
        /\ flushing.kind = inFree.kind
        /\ flushing.in = [inFree.in EXCEPT ![x] = None]
        /\ flushing.out = inFree.out /\ flushing.buf = inFree.buf
        /\ flushing.consumer = inFree.consumer
        /\ flushing.table = inFree.table
        /\ flushing.doomed = inFree.doomed /\ flushing.alive = inFree.alive
    BY <1>1 DEF Good, Heap
  <2> HIDE DEF flushing
  <2>2. \A y \in Xfers \ {x} : Unjoined(flushing, y) <=> Unjoined(inFree, y)
    BY <1>1, <2>1, DockTypes DEF Good, Unjoined
  <2>3. ~Unjoined(inFree, x)
    BY <1>2, <1>6, StreamsNotNull DEF Unjoined
  <2>4. inFree.fault = "none" => Waiting(flushing, {})
    <3>1. \A l \in Listeners :
            inFree.data[l] # None => inFree.data[l] \in Xfers
      BY <1>1, DockTypes DEF Good
    <3> QED BY <1>1, <2>1, <2>2, <2>3, <3>1 DEF Docked, Waiting
  <2>5. inFree.fault = "none" =>
          Reached(flushing, {}) /\ Sown(flushing) /\ Held(flushing)
    BY <1>1, <2>1 DEF Docked, Reached, Sown, Held
  <2> QED BY <1>1, <1>6, <2>1, <2>4, <2>5 DEF Docked, f
<1> QED BY <1>3, <1>4, <1>5, <1>6

\* What reaping one stream leaves docked.
LEMMA DoRemoveDocked ==
  ASSUME NEW g, Good(g), g.fault = "none", Docked(g, {}),
         NEW s \in Streams, g.table[s] # "none"
  PROVE  LET f == DoRemove(g, s) IN
         Docked(f, {}) /\ f.table = [g.table EXCEPT ![s] = "gone"]
<1> DEFINE table == [g.table EXCEPT ![s] = "gone"]
           gone == [g EXCEPT !.table = table]
           c == g.consumer[s]
           loose == [g.consumer EXCEPT ![s] = None]
           released == [gone EXCEPT !.consumer = loose]
           faulty == [gone EXCEPT !.fault = "consumer"]
           freed == FreeStream(gone, s)
           f == [freed EXCEPT !.doomed = @ \ {s}]
<1>1. g \in Heap BY DEF Good
<1>2. DoRemove(g, s) = f BY DEF DoRemove
<1>3. /\ table \in [Streams -> {"none", "added", "in", "gone"}]
      /\ loose \in [Streams -> Contexts \cup {None}]
  BY <1>1 DEF Heap
<1>4. /\ \A t \in Streams \ {s} :
           table[t] = g.table[t] /\ loose[t] = g.consumer[t]
      /\ table[s] = "gone" /\ loose[s] = None
  BY <1>1 DEF Heap
<1> HIDE DEF table, loose
<1>5. /\ gone.fault = "none" /\ gone.listener = g.listener
      /\ gone.xfer = g.xfer /\ gone.data = g.data
      /\ gone.finished = g.finished /\ gone.kind = g.kind
      /\ gone.in = g.in /\ gone.out = g.out /\ gone.buf = g.buf
      /\ gone.consumer = g.consumer /\ gone.table = table
      /\ gone.doomed = g.doomed /\ gone.alive = g.alive
  BY <1>1 DEF Heap
<1>6. Good(gone)
  <2>1. gone \in Heap BY <1>1, <1>3, HeapFields
  <2>2. SameLinks(gone, g) BY <1>1 DEF Heap, SameLinks
  <2> QED BY <2>1, <2>2, FrameGood
<1>7. /\ released.fault = "none" /\ released.listener = g.listener
      /\ released.xfer = g.xfer /\ released.data = g.data
      /\ released.finished = g.finished /\ released.kind = g.kind
      /\ released.in = g.in /\ released.out = g.out
      /\ released.buf = g.buf /\ released.consumer = loose
      /\ released.table = table /\ released.doomed = g.doomed
      /\ released.alive = g.alive
  BY <1>5, <1>6 DEF Good, Heap
<1>8. Good(released)
  <2>1. released \in Heap BY <1>3, <1>6 DEF Good, Heap
  <2>2. SameLinks(released, gone) BY <1>6 DEF Good, Heap, SameLinks
  <2> QED BY <1>6, <2>1, <2>2, FrameGood
<1>9. faulty.fault = "consumer" /\ faulty.table = table
      /\ faulty.listener = g.listener
  BY <1>5, <1>6 DEF Good, Heap
<1>10. freed = IF c = None THEN gone
               ELSE IF c \notin g.alive THEN faulty
               ELSE IF c = Control THEN DeleteControl(released)
               ELSE IF c \in Listeners THEN DeleteListener(released, c)
               ELSE XferHungup(released, c, s)
  <2>1. released = [gone EXCEPT !.consumer[s] = None]
    BY <1>5 DEF loose
  <2> HIDE DEF released
  <2> QED BY <1>5, <2>1 DEF FreeStream
<1>11. /\ Waiting(g, {}) /\ Reached(g, {}) /\ Sown(g) /\ Held(g)
       /\ None \notin Listeners \cup Xfers
  BY ObjectsDistinct DEF Docked
<1>12. c \in {None, Control} \cup Listeners \cup Xfers
  BY <1>1 DEF Heap, Contexts, Controlled
<1>13. /\ g.listener \in Listeners \cup {None}
       /\ g.finished \in SUBSET Listeners
       /\ g.consumer \in [Streams -> Contexts \cup {None}]
       /\ g.doomed \in SUBSET Streams
       /\ g.table \in [Streams -> {"none", "added", "in", "gone"}]
       /\ g.data \in [Listeners -> Xfers \cup {None}]
  BY <1>1, DockTypes
<1> HIDE DEF gone, released, faulty
\* The stream was sown: it is not the data connection of a parked transfer.
<1>14. Waiting(gone, {}) /\ Waiting(released, {})
  <2>1. \A l \in Listeners : g.data[l] # None => DataStream(g.xfer) # s
    BY <1>11 DEF Waiting
  <2>2. \A l \in Listeners :
          g.data[l] # None => table[DataStream(g.xfer)] = "none"
    <3> SUFFICES ASSUME NEW l \in Listeners, g.data[l] # None
                 PROVE  table[DataStream(g.xfer)] = "none"
      OBVIOUS
    <3>1. g.xfer \in Xfers /\ g.table[DataStream(g.xfer)] = "none"
      BY <1>11, <1>13 DEF Waiting
    <3> QED BY <1>4, <2>1, <3>1, StreamsFacts
  <2> QED BY <1>5, <1>7, <1>11, <2>2 DEF Waiting, Unjoined
<1>15. \A t \in Streams : g.table[t] # "none" => table[t] # "none"
  BY <1>4
<1>16. Ctl \in Streams /\ \A l \in Listeners : ListenStream(l) \in Streams
  BY StreamsFacts
<1>17. Sown(gone) /\ Sown(released)
  <2>1. \A l \in g.finished : table[ListenStream(l)] # "none"
    BY <1>11, <1>13, <1>15, <1>16 DEF Sown
  <2>2. \A t \in Streams : g.consumer[t] \in Listeners
            => table[ListenStream(g.consumer[t])] # "none"
    BY <1>11, <1>15, <1>16 DEF Sown
  <2>3. \A t \in Streams : loose[t] \in Listeners
            => table[ListenStream(loose[t])] # "none"
    BY <1>4, <1>11, <2>2
  <2>4. \A t \in g.doomed \cup {Ctl} : table[t] # "none"
    BY <1>11, <1>13, <1>15, <1>16 DEF Sown
  <2> QED BY <1>5, <1>7, <2>1, <2>2, <2>3, <2>4 DEF Sown
<1>18. Held(gone) /\ Held(released)
  <2>1. \A t \in Streams : g.consumer[t] \in Xfers =>
          \/ t = FileStream(g.consumer[t]) /\ g.kind[g.consumer[t]] # "list"
          \/ t = DataStream(g.consumer[t]) /\ table[t] # "none"
    BY <1>11, <1>15 DEF Held
  <2>2. \A t \in Streams : loose[t] \in Xfers => loose[t] = g.consumer[t]
    BY <1>4, <1>11
  <2>3. \A x \in Xfers : g.kind[x] = "none" =>
          /\ table[DataStream(x)] = "none" /\ g.buf[x] # "full"
          /\ \A t \in Streams : g.consumer[t] # x
    BY <1>4, <1>11, StreamsFacts DEF Held
  <2>4. \A x \in Xfers : g.kind[x] = "none" =>
          \A t \in Streams : loose[t] # x
    BY <1>4, <1>11, <2>3
  <2>5. /\ \A t \in Streams : g.consumer[t] = Control => t = Ctl
        /\ \A t \in Streams : loose[t] = Control => t = Ctl
    BY <1>4, <1>11, ObjectsDistinct DEF Held
  <2> QED BY <1>5, <1>7, <2>1, <2>2, <2>3, <2>4, <2>5 DEF Held
<1>19. /\ released.table[s] # "none" /\ released.table = table
       /\ c \in Listeners => table[ListenStream(c)] # "none"
  BY <1>4, <1>7, <1>11, <1>15, <1>16 DEF Sown
<1>20. g.listener # None => ListenStream(g.listener) # s \/ c = g.listener
  BY <1>11 DEF Reached
<1>21. g.listener # None =>
         /\ table[ListenStream(g.listener)] # "none"
         /\ ListenStream(g.listener) # s =>
              /\ loose[ListenStream(g.listener)] = g.listener
              /\ table[ListenStream(g.listener)] \in {"added", "in"}
  BY <1>4, <1>11, <1>13, <1>15, <1>16 DEF Reached
<1>22. c # g.listener \/ c = None => Reached(gone, {}) /\ Reached(released, {})
  <2>1. c # g.listener \/ c = None => (g.listener # None =>
           /\ g.consumer[ListenStream(g.listener)] = g.listener
           /\ loose[ListenStream(g.listener)] = g.listener
           /\ table[ListenStream(g.listener)] \in {"added", "in"})
    BY <1>11, <1>20, <1>21 DEF Reached
  <2>2. Control \notin g.alive =>
          g.listener = None /\ table[Ctl] \notin {"added", "in"}
    BY <1>4, <1>11, <1>16 DEF Reached
  <2> QED BY <1>5, <1>7, <1>21, <2>1, <2>2 DEF Reached
<1>23. Reached(released, {c})
  <2>2. Control \notin g.alive =>
          g.listener = None /\ table[Ctl] \notin {"added", "in"}
    BY <1>4, <1>11, <1>16 DEF Reached
  <2> QED BY <1>7, <1>20, <1>21, <2>2 DEF Reached
<1>24. Good(freed) BY <1>6, FreeStreamGood
<1>25. Docked(freed, {}) /\ freed.table = table
  <2>1. CASE c = None
    BY <1>5, <1>10, <1>14, <1>17, <1>18, <1>22, <2>1 DEF Docked
  <2>2. CASE c # None /\ c \notin g.alive
    BY <1>9, <1>10, <2>2 DEF Docked
  <2>3. CASE c = Control /\ c # None /\ c \in g.alive
    <3>1. c # g.listener BY <1>13, <2>3, ObjectsDistinct
    <3>2. Docked(released, {})
      BY <1>14, <1>17, <1>18, <1>22, <3>1 DEF Docked
    <3>3. freed = DeleteControl(released) BY <1>10, <2>3
    <3>4. s = Ctl BY <1>11, <2>3 DEF Held
    <3>5. released.table[Ctl] = "gone" BY <1>4, <1>7, <3>4
    <3> QED BY <1>7, <1>8, <3>2, <3>3, <3>5, DeleteControlDocked
  <2>4. CASE c \in Listeners /\ c \in g.alive
    <3>1. Waiting(released, {c}) BY <1>14 DEF Waiting
    <3>2. Docked(released, {c}) BY <1>17, <1>18, <1>23, <3>1 DEF Docked
    <3>3. c # None /\ c # Control BY <2>4, ObjectsDistinct
    <3>4. freed = DeleteListener(released, c) BY <1>10, <2>4, <3>3
    <3> HIDE DEF c, freed
    <3>5. Docked(freed, {c} \ {c}) /\ freed.table = released.table
      BY <1>8, <1>19, <2>4, <3>2, <3>4, DeleteListenerDocked
    <3>6. {c} \ {c} = {} OBVIOUS
    <3> QED BY <1>7, <3>5, <3>6
  <2>5. CASE c \in Xfers /\ c \in g.alive
    <3>1. c # None /\ c # Control /\ c \notin Listeners /\ c # g.listener
      BY <1>13, <2>5, ObjectsDistinct
    <3>2. Docked(released, {})
      BY <1>14, <1>17, <1>18, <1>22, <3>1 DEF Docked
    <3>3. freed = XferHungup(released, c, s) BY <1>10, <2>5, <3>1
    <3> QED BY <1>7, <1>8, <2>5, <3>2, <3>3, XferHungupDocked
  <2> QED BY <1>12, <2>1, <2>2, <2>3, <2>4, <2>5
<1> HIDE DEF freed
<1>26. /\ f.fault = freed.fault /\ f.listener = freed.listener
       /\ f.xfer = freed.xfer /\ f.data = freed.data
       /\ f.finished = freed.finished /\ f.kind = freed.kind
       /\ f.in = freed.in /\ f.out = freed.out /\ f.buf = freed.buf
       /\ f.consumer = freed.consumer /\ f.table = freed.table
       /\ f.doomed = freed.doomed \ {s} /\ f.alive = freed.alive
  BY <1>24 DEF Good, Heap
<1> HIDE DEF f
<1>27. Docked(f, {})
  BY <1>25, <1>26 DEF Docked, Waiting, Unjoined, Reached, Sown, Held
<1> QED BY <1>2, <1>25, <1>26, <1>27 DEF f, freed, table

\* Doomed streams were sown.
LEMMA MoreDoomed ==
  ASSUME NEW g, Good(g), NEW E, Docked(g, E), NEW S,
         \A s \in S : g.table[s] # "none",
         NEW f, f = [g EXCEPT !.doomed = @ \cup S]
  PROVE  /\ Docked(f, E) /\ f.table = g.table /\ f.listener = g.listener
         /\ f.finished = g.finished /\ f.doomed = g.doomed \cup S
         /\ f.xfer = g.xfer /\ f.kind = g.kind /\ f.buf = g.buf
         /\ f.in = g.in /\ f.out = g.out /\ f.fault = g.fault
<1>1. /\ f.fault = g.fault /\ f.listener = g.listener
      /\ f.xfer = g.xfer /\ f.data = g.data
      /\ f.finished = g.finished /\ f.kind = g.kind
      /\ f.in = g.in /\ f.out = g.out /\ f.buf = g.buf
      /\ f.consumer = g.consumer /\ f.table = g.table
      /\ f.doomed = g.doomed \cup S /\ f.alive = g.alive
  BY DEF Good, Heap
<1>2. Docked(f, E)
  BY <1>1 DEF Docked, Waiting, Unjoined, Reached, Sown, Held
<1> QED BY <1>1, <1>2

LEMMA RemoveDocked ==
  ASSUME NEW g, Good(g), NEW E, Docked(g, E), NEW c
  PROVE  LET f == Remove(g, c) IN
         /\ Docked(f, E) /\ f.table = g.table /\ f.listener = g.listener
         /\ f.finished = g.finished
         /\ f.doomed = g.doomed
              \cup {s \in Tabled(g) : g.consumer[s] \in {None, c}}
         /\ f.xfer = g.xfer /\ f.kind = g.kind /\ f.buf = g.buf
         /\ f.in = g.in /\ f.out = g.out /\ f.fault = g.fault
<1> DEFINE S == {s \in Tabled(g) : g.consumer[s] \in {None, c}}
           f == Remove(g, c)
<1>1. \A s \in S : g.table[s] # "none" BY DEF Tabled
<1>2. f = [g EXCEPT !.doomed = @ \cup S] BY DEF Remove
<1> HIDE DEF S, f
<1>3. /\ Docked(f, E) /\ f.table = g.table /\ f.listener = g.listener
      /\ f.finished = g.finished /\ f.doomed = g.doomed \cup S
      /\ f.xfer = g.xfer /\ f.kind = g.kind /\ f.buf = g.buf
      /\ f.in = g.in /\ f.out = g.out /\ f.fault = g.fault
  BY <1>1, <1>2, MoreDoomed
<1> QED BY <1>3 DEF S, f

\* The end of a transfer: what the session may have forgotten.
LEMMA CompleteDocked ==
  ASSUME NEW g, Good(g), Docked(g, {}), NEW x \in Xfers
  PROVE  LET f == Complete(g, x) IN
         /\ Docked(f, {}) /\ f.table = g.table
         /\ g.doomed \subseteq f.doomed
         /\ f.kind = g.kind /\ f.in = g.in /\ f.out = g.out /\ f.buf = g.buf
         /\ f.fault = "none" => \/ f.listener = None
                                \/ /\ f.listener = g.listener
                                   /\ f.finished = g.finished
                                   /\ f.xfer = g.xfer \/ x = g.xfer
<1> DEFINE n == Notify(g, x)
           f == Complete(g, x)
<1>1. x \in Controlled /\ x \notin Listeners
  BY ObjectsDistinct DEF Controlled
<1>2. Good(n) BY <1>1, NotifyGood
<1>3. Docked(n, {} \ {x}) BY <1>1, NotifyDocked
<1>4. {} \ {x} = {} OBVIOUS
<1>5. /\ n.kind = g.kind /\ n.in = g.in /\ n.out = g.out /\ n.buf = g.buf
      /\ n.table = g.table /\ n.doomed = g.doomed
      /\ n.fault = "none" => \/ n.listener = None
                             \/ /\ n.listener = g.listener
                                /\ n.finished = g.finished
                                /\ n.xfer = g.xfer \/ x = g.xfer
  BY <1>1, NotifyFields DEF Good
<1>6. f = Remove(n, x) BY DEF Complete
<1> HIDE DEF n, f
<1>7. /\ Docked(f, {}) /\ f.table = n.table /\ f.listener = n.listener
      /\ f.finished = n.finished /\ n.doomed \subseteq f.doomed
      /\ f.xfer = n.xfer /\ f.kind = n.kind /\ f.buf = n.buf
      /\ f.in = n.in /\ f.out = n.out /\ f.fault = n.fault
  BY <1>2, <1>3, <1>4, <1>6, RemoveDocked
<1> QED BY <1>5, <1>7 DEF f

\* A transfer that is not parked changes its ends or its buffer.
LEMMA MovedDocked ==
  ASSUME NEW g, Good(g), Docked(g, {}), NEW x \in Xfers,
         g.kind[x] # "none", \A l \in Listeners : g.data[l] # x,
         NEW f,
         /\ f.fault = g.fault /\ f.listener = g.listener /\ f.xfer = g.xfer
         /\ f.data = g.data /\ f.finished = g.finished /\ f.kind = g.kind
         /\ f.consumer = g.consumer /\ f.table = g.table
         /\ f.doomed = g.doomed /\ f.alive = g.alive,
         \A y \in Xfers \ {x} :
           f.in[y] = g.in[y] /\ f.out[y] = g.out[y] /\ f.buf[y] = g.buf[y]
  PROVE  Docked(f, {})
<1>1. \A y \in Xfers \ {x} : Unjoined(f, y) <=> Unjoined(g, y)
  BY DEF Unjoined
<1>2. \A l \in Listeners : g.data[l] # None => g.data[l] \in Xfers \ {x}
  BY DockTypes DEF Good
<1>3. g.fault = "none" => Waiting(f, {}) BY <1>1, <1>2 DEF Docked, Waiting
<1>4. g.fault = "none" => Reached(f, {}) /\ Sown(f) /\ Held(f)
  BY DEF Docked, Reached, Sown, Held
<1> QED BY <1>3, <1>4 DEF Docked

\* A transfer without its data connection has nothing to adopt or to move.
LEMMA UnjoinedIdle ==
  ASSUME NEW g, Good(g), Docked(g, {}), g.fault = "none", NEW x \in Xfers,
         NEW s \in Streams, g.consumer[s] = x, Unjoined(g, x),
         s # DataStream(x)
  PROVE  /\ Adopt(g, x, s) = g /\ g.kind[x] # "list"
         /\ g.in[x] = None \/ g.out[x] = None
         /\ ~(g.in[x] = None /\ g.buf[x] = "full")
<1>1. s = FileStream(x) /\ g.kind[x] # "list" BY DEF Docked, Held
<1>2. s # None BY StreamsNotNull
<1> QED BY <1>1, <1>2 DEF Unjoined, Adopt

\* No stream of a parked transfer is its data connection.
LEMMA ParkedUnjoined ==
  ASSUME NEW g, Good(g), Docked(g, {}), g.fault = "none",
         NEW l \in Listeners, g.data[l] # None
  PROVE  /\ g.data[l] = g.xfer /\ g.xfer \in Xfers
         /\ l = g.listener /\ l \notin g.finished
         /\ Unjoined(g, g.xfer)
         /\ g.table[DataStream(g.xfer)] = "none"
         /\ \A s \in Streams : g.consumer[s] = g.xfer => s # DataStream(g.xfer)
<1>1. g.data[l] \in Xfers BY DockTypes DEF Good
<1>2. /\ g.data[l] = g.xfer /\ Unjoined(g, g.xfer)
      /\ l = g.listener /\ l \notin g.finished
      /\ g.table[DataStream(g.xfer)] = "none"
  BY DEF Docked, Waiting
<1>3. \A y \in Xfers, z \in Xfers : FileStream(y) # DataStream(z)
  BY StreamsDiffer
<1> QED BY <1>1, <1>2, <1>3 DEF Docked, Held

\* The stream of a transfer is adopted as its missing end.
LEMMA AdoptDocked ==
  ASSUME NEW g, Good(g), Docked(g, {}), g.fault = "none", NEW x \in Xfers,
         NEW s \in Streams, g.consumer[s] = x
  PROVE  LET f == Adopt(g, x, s) IN
         /\ Docked(f, {}) /\ f.table = g.table /\ f.listener = g.listener
         /\ f.finished = g.finished /\ f.doomed = g.doomed
         /\ f.xfer = g.xfer /\ f.kind = g.kind /\ f.buf = g.buf
         /\ f.data = g.data /\ f.consumer = g.consumer /\ f.fault = g.fault
         /\ \A y \in Xfers \ {x} : f.in[y] = g.in[y] /\ f.out[y] = g.out[y]
<1> DEFINE f == Adopt(g, x, s)
           read == IF g.in[x] = None /\ g.out[x] # s
                   THEN [g EXCEPT !.in[x] = s] ELSE g
           both == [read EXCEPT !.out[x] = s]
<1>1. /\ read.fault = g.fault /\ read.listener = g.listener
      /\ read.xfer = g.xfer /\ read.data = g.data
      /\ read.finished = g.finished /\ read.kind = g.kind
      /\ read.out = g.out /\ read.buf = g.buf
      /\ read.consumer = g.consumer /\ read.table = g.table
      /\ read.doomed = g.doomed /\ read.alive = g.alive
      /\ \A y \in Xfers \ {x} : read.in[y] = g.in[y]
  BY SMTT(30) DEF Good, Heap
<1>2. read \in Heap BY ZenonT(60) DEF Good, Heap
<1>3. f = read \/ f = both BY DEF Adopt
<1> HIDE DEF read
<1>4. /\ both.fault = read.fault /\ both.listener = read.listener
      /\ both.xfer = read.xfer /\ both.data = read.data
      /\ both.finished = read.finished /\ both.kind = read.kind
      /\ both.in = read.in /\ both.buf = read.buf
      /\ both.consumer = read.consumer /\ both.table = read.table
      /\ both.doomed = read.doomed /\ both.alive = read.alive
      /\ \A y \in Xfers \ {x} : both.out[y] = read.out[y]
  BY <1>2 DEF Heap
<1> HIDE DEF f, both
<1>5. /\ f.table = g.table /\ f.listener = g.listener
      /\ f.finished = g.finished /\ f.doomed = g.doomed
      /\ f.xfer = g.xfer /\ f.kind = g.kind /\ f.buf = g.buf
      /\ f.data = g.data /\ f.consumer = g.consumer /\ f.fault = g.fault
      /\ f.alive = g.alive
      /\ \A y \in Xfers \ {x} : f.in[y] = g.in[y] /\ f.out[y] = g.out[y]
  BY <1>1, <1>3, <1>4
<1>6. Docked(f, {})
  <2>1. CASE \E l \in Listeners : g.data[l] = x
    <3>1. x # None BY ObjectsDistinct
    <3>2. Unjoined(g, x) /\ s # DataStream(x)
      BY <2>1, <3>1, ParkedUnjoined
    <3>3. f = g BY <3>2, UnjoinedIdle DEF f
    <3> QED BY <3>3
  <2>2. CASE \A l \in Listeners : g.data[l] # x
    <3>1. g.kind[x] # "none" BY DEF Docked, Held
    <3>2. \A y \in Xfers \ {x} : f.buf[y] = g.buf[y] BY <1>5
    <3> QED BY <1>5, <2>2, <3>1, <3>2, MovedDocked
  <2> QED BY <2>1, <2>2
<1> QED BY <1>5, <1>6 DEF f

LEMMA SayDock ==
  ASSUME NEW g \in Heap
  PROVE  /\ SameDock(Say(g), g) /\ SameDock(Error(g), g)
         /\ SameDock(StartClock(g), g)
         /\ Say(g) \in Heap /\ Say(g).alive = g.alive
<1>1. Say(g) \in Heap /\ SameDock(Say(g), g) /\ Say(g).alive = g.alive
  BY DEF Say, Heap, SameDock
<1>2. ASSUME NEW f \in Heap PROVE SameDock([f EXCEPT !.closing = TRUE], f)
  BY DEF Heap, SameDock
<1>3. SameDock([g EXCEPT !.armed = "on"], g) /\ SameDock(g, g)
  BY DEF Heap, SameDock
<1>4. SameDock(Error(g), g) BY <1>1, <1>2 DEF Error, SameDock
<1> QED BY <1>1, <1>3, <1>4 DEF StartClock

LEMMA DoomDocked ==
  ASSUME NEW g, Good(g), NEW E, Docked(g, E), NEW s, g.table[s] # "none"
  PROVE  LET f == [g EXCEPT !.doomed = @ \cup {s}] IN
         /\ Docked(f, E) /\ f.table = g.table /\ f.listener = g.listener
         /\ f.finished = g.finished /\ f.xfer = g.xfer /\ f.kind = g.kind
         /\ f.buf = g.buf /\ f.in = g.in /\ f.out = g.out
         /\ f.fault = g.fault
<1> DEFINE f == [g EXCEPT !.doomed = @ \cup {s}]
<1>1. /\ f.fault = g.fault /\ f.listener = g.listener
      /\ f.xfer = g.xfer /\ f.data = g.data
      /\ f.finished = g.finished /\ f.kind = g.kind
      /\ f.in = g.in /\ f.out = g.out /\ f.buf = g.buf
      /\ f.consumer = g.consumer /\ f.table = g.table
      /\ f.doomed = g.doomed \cup {s} /\ f.alive = g.alive
  BY DEF Good, Heap
<1> HIDE DEF f
<1>2. Docked(f, E)
  BY <1>1 DEF Docked, Waiting, Unjoined, Reached, Sown, Held
<1> QED BY <1>1, <1>2 DEF f

---------------------------------------------------------------------------
(***************************************************************************)
(* Where the passes stand when a finished listener still belongs to the    *)
(* session: only between the accept and the end of the next preparation.   *)
(* As long as a command can still be read in that time the transfer that   *)
(* was handed over is pending and cannot end, so that no other can be      *)
(* parked.                                                                 *)
(***************************************************************************)
Swept ==
  /\ todo \subseteq Tabled(h)
  /\ phase \in {"sow", "reap", "poll"} => todo = {}
  /\ phase = "reap" => \A s \in Streams : h.table[s] # "added"
  /\ phase = "prepare" /\ h.listener \in h.finished =>
       ListenStream(h.listener) \in todo \/ h.doomed # {}
  /\ phase = "poll" => h.listener \notin h.finished
  /\ phase \in {"reply", "hangup"} => Ctl \notin todo
  /\ phase = "batch" /\ Ctl \in todo /\ h.listener \in h.finished =>
       /\ h.xfer # None /\ Unjoined(h, h.xfer)
       /\ DataStream(h.xfer) \notin todo

Moored == Docked(h, {}) /\ (Running => Swept)

LEMMA InitMoored == Init => Moored
<1> SUFFICES ASSUME Init PROVE Moored OBVIOUS
<1>1. h = EmptyHeap /\ phase = "sow" /\ todo = {} BY DEF Init
<1>2. /\ h.listener = None /\ h.finished = {} /\ h.doomed = {}
      /\ h.alive = {Control}
      /\ h.data = [l \in Listeners |-> None]
      /\ h.kind = [x \in Xfers |-> "none"]
      /\ h.buf = [x \in Xfers |-> "none"]
      /\ h.table = [s \in Streams |-> IF s = Ctl THEN "in" ELSE "none"]
      /\ h.consumer = [s \in Streams |-> IF s = Ctl THEN Control ELSE None]
  BY <1>1 DEF EmptyHeap
<1>3. Swept BY <1>1 DEF Swept
<1>4. Waiting(h, {}) BY <1>2 DEF Waiting
<1>5. Reached(h, {}) BY <1>2 DEF Reached
<1>6. Sown(h) BY <1>2, StreamsFacts, ObjectsDistinct DEF Sown
<1>7. Held(h)
  <2>1. \A x \in Xfers : h.table[DataStream(x)] = "none"
    BY <1>2, StreamsFacts, StreamsDiffer
  <2> QED BY <1>2, <2>1, ObjectsDistinct DEF Held
<1> QED BY <1>3, <1>4, <1>5, <1>6, <1>7 DEF Moored, Docked

LEMMA LoopMoored == Inv /\ Moored /\ LoopStep => Moored'
<1> SUFFICES ASSUME Inv, Moored, LoopStep PROVE Moored' OBVIOUS
<1>1. Good(h) /\ h \in Heap /\ todo \in SUBSET Streams
  BY DEF Inv, TypeOK, Good
<1>2. Running
  BY DEF LoopStep, Sow, Reap, StartPrepare, EndPrepare, Poll, EndBatch
<1>3. Docked(h, {}) /\ Swept /\ h.fault = "none"
  BY <1>2 DEF Moored, Running
<1>4. Waiting(h, {}) /\ Reached(h, {}) /\ Sown(h) /\ Held(h)
  BY <1>3 DEF Docked
<1>5. /\ h.listener \in Listeners \cup {None}
      /\ h.xfer \in Xfers \cup {None}
      /\ h.data \in [Listeners -> Xfers \cup {None}]
      /\ h.finished \in SUBSET Listeners
      /\ h.table \in [Streams -> {"none", "added", "in", "gone"}]
      /\ h.doomed \in SUBSET Streams
  BY <1>1, DockTypes
<1>6. None \notin Listeners BY ObjectsDistinct
<1>7. CASE Sow
  <2> DEFINE table == [s \in Streams |->
                         IF h.table[s] = "added" THEN "in" ELSE h.table[s]]
  <2>1. h' = [h EXCEPT !.table = table] /\ phase' = "reap" /\ todo' = todo
    BY <1>7 DEF Sow
  <2>2. \A s \in Streams :
          /\ table[s] # "added" /\ (table[s] = "none" <=> h.table[s] = "none")
          /\ table[s] \in {"added", "in"} <=> h.table[s] \in {"added", "in"}
    OBVIOUS
  <2> HIDE DEF table
  <2>3. /\ h'.fault = h.fault /\ h'.listener = h.listener
        /\ h'.xfer = h.xfer /\ h'.data = h.data
        /\ h'.finished = h.finished /\ h'.kind = h.kind
        /\ h'.in = h.in /\ h'.out = h.out /\ h'.buf = h.buf
        /\ h'.consumer = h.consumer /\ h'.table = table
        /\ h'.doomed = h.doomed /\ h'.alive = h.alive
    BY <1>1, <2>1 DEF Heap
  <2>4. Waiting(h', {})
    <3>1. \A l \in Listeners : h.data[l] # None =>
            /\ h.data[l] = h.xfer /\ h.xfer \in Xfers
            /\ h.table[DataStream(h.xfer)] = "none"
      BY <1>4, <1>5 DEF Waiting
    <3> QED BY <1>4, <2>2, <2>3, <3>1, StreamsFacts DEF Waiting, Unjoined
  <2>5. Reached(h', {})
    BY <1>4, <1>5, <2>2, <2>3, StreamsFacts DEF Reached
  <2>6. Sown(h') BY <1>4, <1>5, <2>2, <2>3, StreamsFacts DEF Sown
  <2>7. Held(h') BY <1>4, <2>2, <2>3, StreamsFacts DEF Held
  <2>8. Swept' BY <1>3, <1>7, <2>1, <2>2, <2>3 DEF Swept, Sow
  <2> QED BY <2>4, <2>5, <2>6, <2>7, <2>8 DEF Moored, Docked
<1>8. ASSUME NEW s \in Streams, Reap(s) PROVE Moored'
  <2>1. h' = DoRemove(h, s) /\ s \in h.doomed /\ phase = "reap"
        /\ phase' = "reap" /\ todo' = todo
    BY <1>8 DEF Reap
  <2>2. h.table[s] # "none" BY <1>4, <2>1 DEF Sown
  <2>3. Docked(h', {}) /\ h'.table = [h.table EXCEPT ![s] = "gone"]
    BY <1>1, <1>3, <2>1, <2>2, DoRemoveDocked
  <2>4. \A t \in Streams : h'.table[t] # "added"
    BY <1>3, <1>5, <2>1, <2>3 DEF Swept
  <2> QED BY <1>3, <2>1, <2>3, <2>4 DEF Moored, Swept
<1>9. CASE StartPrepare
  <2>1. /\ h' = h /\ phase = "reap" /\ phase' = "prepare"
        /\ todo' = InTable(h)
    BY <1>9 DEF StartPrepare
  <2>2. h.listener \in h.finished =>
          /\ ListenStream(h.listener) \in Streams
          /\ h.table[ListenStream(h.listener)] = "in"
    BY <1>3, <1>4, <1>5, <1>6, <2>1, StreamsFacts DEF Swept, Reached
  <2>3. todo' \subseteq Tabled(h) BY <2>1 DEF InTable, Tabled
  <2>4. Swept' BY <2>1, <2>2, <2>3 DEF Swept, InTable
  <2> QED BY <1>3, <2>1, <2>4 DEF Moored
<1>10. CASE EndPrepare
  <2> DEFINE clock == [x \in Xfers |->
                         IF h.clock[x] = "set" THEN "on" ELSE h.clock[x]]
  <2>1. /\ h' = [h EXCEPT !.clock = clock] /\ todo = {} /\ todo' = {}
        /\ phase = "prepare"
        /\ phase' \in {"sow", "poll"}
        /\ phase' = "poll" => h.doomed = {}
    BY <1>10 DEF EndPrepare
  <2> HIDE DEF clock
  <2>2. SameDock(h', h) BY <1>1, <2>1 DEF Heap, SameDock
  <2>3. Docked(h', {}) BY <1>3, <2>2, FrameDocked
  <2>4. Swept' BY <1>3, <2>1, <2>2 DEF Swept, SameDock
  <2> QED BY <2>3, <2>4 DEF Moored
<1>11. CASE Poll
  <2>1. /\ h' = h /\ phase = "poll" /\ phase' = "batch"
        /\ todo' \subseteq InTable(h)
    BY <1>11 DEF Poll
  <2>2. Swept' BY <1>3, <2>1 DEF Swept, InTable, Tabled
  <2> QED BY <1>3, <2>1, <2>2 DEF Moored
<1>12. CASE EndBatch
  <2>1. h' = h /\ todo' = {} /\ todo = {} /\ phase' = "sow"
    BY <1>12 DEF EndBatch
  <2>2. Swept' BY <2>1 DEF Swept
  <2> QED BY <1>3, <2>1, <2>2 DEF Moored
<1> QED BY <1>7, <1>8, <1>9, <1>10, <1>11, <1>12 DEF LoopStep

\* A stream leaves the preparation without the finished listener of the
\* session, which would have doomed its socket.
LEMMA SweptPreparing ==
  ASSUME Inv, Moored, Running, NEW s \in Streams, Preparing(s),
         h'.fault = "none" => h'.table = h.table,
         h'.fault = "none" => h.doomed \subseteq h'.doomed,
         h'.fault = "none" => \/ h'.listener = None
                              \/ /\ h'.listener = h.listener
                                 /\ h'.finished = h.finished,
         h'.fault = "none" /\ s = ListenStream(h.listener)
           /\ h.listener \in h.finished => h'.doomed # {},
         h'.finished \in SUBSET Listeners
  PROVE  Running' => Swept'
<1>1. Swept BY DEF Moored
<1>2. None \notin Listeners BY ObjectsDistinct
<1>3. /\ phase = "prepare" /\ phase' = "prepare" /\ todo' = todo \ {s}
  BY DEF Preparing
<1> SUFFICES ASSUME h'.fault = "none" PROVE Swept' BY DEF Running
<1> QED BY <1>1, <1>2, <1>3 DEF Swept, Tabled

LEMMA PrepareMoored == Inv /\ Moored /\ Prepare => Moored'
<1> SUFFICES ASSUME Inv, Moored, Prepare PROVE Moored' OBVIOUS
<1>1. Good(h) /\ h \in Heap /\ todo \in SUBSET Streams
  BY DEF Inv, TypeOK, Good
<1>2. Running
  BY DEF Prepare, Preparing, PrepareOrphan, PrepareListener,
         PrepareXfer, XferTimesOut, PrepareControl, ControlTimesOut
<1>3. Docked(h, {}) /\ Swept /\ h.fault = "none"
  BY <1>2 DEF Moored, Running
<1>4. /\ h.listener \in Listeners \cup {None}
      /\ h.finished \in SUBSET Listeners
      /\ None \notin Listeners
  BY <1>1, DockTypes, ObjectsDistinct
<1>5. h' \in Heap BY PrepareInv DEF Inv, TypeOK
<1>6. h'.finished \in SUBSET Listeners BY <1>5, DockTypes
\* The session's finished listener is met at its socket.
<1>7. h.listener \in h.finished =>
        /\ h.consumer[ListenStream(h.listener)] = h.listener
        /\ ListenStream(h.listener) \in Tabled(h)
        /\ h.listener \in h.alive
  <2> SUFFICES ASSUME h.listener \in h.finished
               PROVE  /\ h.consumer[ListenStream(h.listener)] = h.listener
                      /\ ListenStream(h.listener) \in Tabled(h)
                      /\ h.listener \in h.alive
    OBVIOUS
  <2>1. h.listener # None BY <1>4
  <2>2. Control \in h.alive BY <1>3, <2>1 DEF Docked, Reached
  <2>3. h.listener \in h.alive BY <1>1, <1>3, <2>1, <2>2 DEF Good, Consistent
  <2>4. /\ h.consumer[ListenStream(h.listener)] = h.listener
        /\ h.table[ListenStream(h.listener)] \in {"added", "in"}
    BY <1>3, <2>1 DEF Docked, Reached
  <2> QED BY <1>4, <2>1, <2>3, <2>4, StreamsFacts DEF Tabled
<1>8. ASSUME NEW s \in Streams, Preparing(s), SameDock(h', h),
             s = ListenStream(h.listener) => h.listener \notin h.finished
      PROVE  Moored'
  <2>1. Docked(h', {}) BY <1>3, <1>8, FrameDocked
  <2>2. Running' => Swept'
    BY <1>2, <1>6, <1>8, SweptPreparing DEF SameDock
  <2> QED BY <2>1, <2>2 DEF Moored
<1>9. ASSUME NEW s \in Streams, Preparing(s), NEW g, Good(g), SameDock(g, h),
             NEW c \in Contexts, h' = Remove(g, c),
             s = ListenStream(h.listener) /\ h.listener \in h.finished
               => c = h.listener
      PROVE  Moored'
  <2>1. Docked(g, {}) BY <1>3, <1>9, FrameDocked
  <2>2. /\ Docked(h', {}) /\ h'.table = g.table
        /\ h'.listener = g.listener /\ h'.finished = g.finished
        /\ h'.doomed = g.doomed
             \cup {t \in Tabled(g) : g.consumer[t] \in {None, c}}
    BY <1>9, <2>1, RemoveDocked
  <2>3. Tabled(g) = Tabled(h) BY <1>9 DEF Tabled, SameDock
  <2>4. s = ListenStream(h.listener) /\ h.listener \in h.finished
          => h'.doomed # {}
    BY <1>7, <1>9, <2>2, <2>3 DEF SameDock
  <2>5. Running' => Swept'
    BY <1>2, <1>6, <1>9, <2>2, <2>4, SweptPreparing DEF SameDock
  <2> QED BY <2>2, <2>5 DEF Moored
<1>10. ASSUME NEW s \in Streams, PrepareOrphan(s) PROVE Moored'
  <2>1. CASE h.consumer[s] = None
    <3>1. h' = h /\ Preparing(s) BY <1>10, <2>1 DEF PrepareOrphan
    <3>2. SameDock(h', h) BY <3>1 DEF SameDock
    <3>3. s = ListenStream(h.listener) => h.listener \notin h.finished
      BY <1>4, <1>7, <2>1
    <3> QED BY <1>8, <3>1, <3>2, <3>3
  <2>2. CASE h.consumer[s] # None
    <3>1. h' = [h EXCEPT !.fault = "consumer"]
      BY <1>10, <2>2 DEF PrepareOrphan
    <3>2. h'.fault = "consumer" BY <1>1, <3>1 DEF Heap
    <3> QED BY <3>2 DEF Moored, Docked, Running
  <2> QED BY <2>1, <2>2
<1>11. ASSUME NEW s \in Streams, PrepareListener(s) PROVE Moored'
  <2> DEFINE l == h.consumer[s]
  <2>1. /\ Preparing(s) /\ l \in Listeners
        /\ h' = Remove(h, l) \/ (h' = h /\ l \notin h.finished)
    BY <1>11 DEF PrepareListener
  <2>2. s = ListenStream(h.listener) /\ h.listener \in h.finished
          => l = h.listener
    BY <1>7
  <2>3. CASE h' = h /\ l \notin h.finished
    <3>1. SameDock(h', h) BY <2>3 DEF SameDock
    <3> QED BY <1>8, <2>1, <2>2, <2>3, <3>1
  <2>4. CASE h' = Remove(h, l)
    <3>1. SameDock(h, h) /\ l \in Contexts
      BY <2>1 DEF SameDock, Contexts, Controlled
    <3> QED BY <1>1, <1>9, <2>1, <2>2, <2>4, <3>1
  <2> QED BY <2>1, <2>3, <2>4
<1>12. ASSUME NEW s \in Streams, Preparing(s), h.consumer[s] \notin Listeners
       PROVE  ~(s = ListenStream(h.listener) /\ h.listener \in h.finished)
  BY <1>4, <1>7, <1>12
<1>13. ASSUME NEW s \in Streams, PrepareXfer(s) PROVE Moored'
  <2> DEFINE x == h.consumer[s]
             started == [h EXCEPT !.clock[x] = "set"]
             checked == IF XferTimeout /\ h.clock[x] = "off"
                        THEN started ELSE h
  <2>1. x \in Xfers /\ x \notin Listeners /\ Preparing(s)
    BY <1>13, ObjectsDistinct DEF PrepareXfer
  <2>2. /\ started \in Heap /\ SameDock(started, h)
        /\ SameLinks(started, h)
    BY <1>1, <2>1 DEF Heap, SameDock, SameLinks
  <2>3. SameDock(h, h) BY DEF SameDock
  <2>4. Good(checked) /\ SameDock(checked, h) BY <1>1, <2>2, <2>3, FrameGood
  <2>5. h' \in {Adopt(checked, x, s), checked, Complete(checked, x)}
    BY <1>13 DEF PrepareXfer
  <2>6. ~(s = ListenStream(h.listener) /\ h.listener \in h.finished)
    BY <1>12, <2>1
  <2> HIDE DEF checked
  <2>7. Docked(checked, {}) BY <1>3, <2>4, FrameDocked
  <2>8. checked.fault = "none" /\ checked.consumer[s] = x
    BY <1>3, <2>4 DEF SameDock
  <2> HIDE DEF x
  <2>9. CASE h' = Adopt(checked, x, s)
    <3>1. /\ Docked(h', {}) /\ h'.table = checked.table
          /\ h'.listener = checked.listener
          /\ h'.finished = checked.finished /\ h'.doomed = checked.doomed
      BY <2>1, <2>4, <2>7, <2>8, <2>9, AdoptDocked
    <3>2. Running' => Swept'
      BY <1>2, <1>6, <2>1, <2>4, <2>6, <3>1, SweptPreparing DEF SameDock
    <3> QED BY <3>1, <3>2 DEF Moored
  <2>10. CASE h' = checked BY <1>8, <2>1, <2>4, <2>6, <2>10
  <2>11. CASE h' = Complete(checked, x)
    <3>1. /\ Docked(h', {}) /\ h'.table = checked.table
          /\ checked.doomed \subseteq h'.doomed
          /\ h'.fault = "none" => \/ h'.listener = None
                                  \/ /\ h'.listener = checked.listener
                                     /\ h'.finished = checked.finished
      BY <2>1, <2>4, <2>7, <2>11, CompleteDocked
    <3>2. Running' => Swept'
      BY <1>2, <1>6, <2>1, <2>4, <2>6, <3>1, SweptPreparing DEF SameDock
    <3> QED BY <3>1, <3>2 DEF Moored
  <2> QED BY <2>5, <2>9, <2>10, <2>11
<1>14. ASSUME NEW s \in Streams, XferTimesOut(s) PROVE Moored'
  <2> DEFINE x == h.consumer[s]
             off == [h EXCEPT !.clock[x] = "off"]
  <2>1. /\ x \in Xfers /\ x \notin Listeners /\ x \in Contexts
        /\ Preparing(s) /\ h' = Remove(off, x)
    BY <1>14, ObjectsDistinct DEF XferTimesOut, Contexts, Controlled
  <2>2. off \in Heap /\ SameDock(off, h) /\ SameLinks(off, h)
    BY <1>1, <2>1 DEF Heap, SameDock, SameLinks
  <2>3. Good(off) BY <1>1, <2>2, FrameGood
  <2>4. ~(s = ListenStream(h.listener) /\ h.listener \in h.finished)
    BY <1>12, <2>1
  <2> HIDE DEF off
  <2> QED BY <1>9, <2>1, <2>2, <2>3, <2>4
<1>15. h.listener \in h.finished => Ctl # ListenStream(h.listener)
  BY <1>4, StreamsDiffer
<1>16. CASE PrepareControl
  <2>1. Preparing(Ctl) /\ SameDock(h', h) /\ Ctl \in Streams
    BY <1>1, <1>16, SayDock, StreamsFacts DEF PrepareControl
  <2> QED BY <1>8, <1>15, <2>1
<1>17. CASE ControlTimesOut
  <2>1. /\ Preparing(Ctl) /\ Ctl \in Streams /\ Control \in Contexts
        /\ h' = Remove(h, Control) \/ h' = Error(h)
    BY <1>17, StreamsFacts DEF ControlTimesOut, Contexts
  <2>2. CASE h' = Error(h)
    <3>1. SameDock(h', h) BY <1>1, <2>2, SayDock
    <3> QED BY <1>8, <1>15, <2>1, <3>1
  <2>3. CASE h' = Remove(h, Control)
    <3>1. SameDock(h, h) BY DEF SameDock
    <3> QED BY <1>1, <1>9, <1>15, <2>1, <2>3, <3>1
  <2> QED BY <2>1, <2>2, <2>3
<1> QED BY <1>10, <1>11, <1>13, <1>14, <1>16, <1>17 DEF Prepare

\* A new listener is the session's, and is not finished.
LEMMA PasvDocked ==
  ASSUME Inv, Moored, Pasv
  PROVE  Docked(h', {}) /\ Tabled(h) \subseteq Tabled(h')
<1> DEFINE off == PassiveOff(h)
           said == Say(off)
<1>1. Good(h) /\ h.fault = "none" /\ Ctl \in todo
  BY DEF Inv, TypeOK, Good, Pasv, Command, Serving, Running
<1>2. Docked(h, {}) /\ Swept BY <1>1 DEF Moored, Running
<1>3. /\ Good(off) /\ Docked(off, {}) /\ off.table = h.table
      /\ off.fault = "none" =>
           off.listener = None /\ \A l \in Listeners : off.data[l] = None
  BY <1>1, <1>2, PassiveOffGood, PassiveOffDocked
<1>4. \/ h' \in {said, off, Error(off)}
      \/ /\ off.fault = "none"
         /\ \E l \in Listeners :
              /\ off.table[ListenStream(l)] = "none"
              /\ h' = [said EXCEPT
                        !.alive = @ \cup {l}, !.attached = @ \cup {l},
                        !.listener = l,
                        !.consumer[ListenStream(l)] = l,
                        !.table[ListenStream(l)] = "added"]
  BY DEF Pasv
<1> HIDE DEF off
<1>5. /\ said \in Heap /\ SameDock(said, off) /\ said.alive = off.alive
      /\ SameDock(Error(off), off) /\ Error(off).alive = off.alive
  BY <1>3, SayDock DEF Good, Error, Say, Heap
<1>9. h' \in Heap BY <1>1, PasvGood DEF Good
<1>6. Docked(said, {}) BY <1>3, <1>5, FrameDocked
<1> HIDE DEF said
<1>7. CASE h' \in {said, off, Error(off)}
  <2>1. SameDock(h', off) BY <1>5, <1>7 DEF SameDock
  <2>2. Docked(h', {}) BY <1>3, <1>9, <2>1, FrameDocked
  <2> QED BY <1>3, <2>1, <2>2 DEF SameDock, Tabled
<1>8. ASSUME off.fault = "none", NEW l \in Listeners,
             off.table[ListenStream(l)] = "none",
             h' = [said EXCEPT
                    !.alive = @ \cup {l}, !.attached = @ \cup {l},
                    !.listener = l,
                    !.consumer[ListenStream(l)] = l,
                    !.table[ListenStream(l)] = "added"]
      PROVE  Docked(h', {}) /\ Tabled(h) \subseteq Tabled(h')
  <2> DEFINE s == ListenStream(l)
             consumer == [said.consumer EXCEPT ![s] = l]
             table == [said.table EXCEPT ![s] = "added"]
  <2>1. /\ h'.fault = said.fault /\ h'.listener = l
        /\ h'.data = said.data
        /\ h'.finished = said.finished /\ h'.kind = said.kind
        /\ h'.buf = said.buf
        /\ h'.consumer = consumer /\ h'.table = table
        /\ h'.doomed = said.doomed /\ h'.alive = said.alive \cup {l}
    BY <1>5, <1>8 DEF Heap
  <2>2. s \in Streams /\ s # Ctl /\ \A x \in Xfers : s # DataStream(x)
    BY StreamsFacts, StreamsDiffer
  <2>3. /\ said.consumer \in [Streams -> Contexts \cup {None}]
        /\ said.table \in [Streams -> {"none", "added", "in", "gone"}]
        /\ said.doomed \in SUBSET Streams
        /\ said.finished \in SUBSET Listeners
    BY <1>5, DockTypes
  <2>4. /\ \A t \in Streams \ {s} :
             consumer[t] = said.consumer[t] /\ table[t] = said.table[t]
        /\ consumer[s] = l /\ table[s] = "added"
    BY <2>2, <2>3
  <2> HIDE DEF consumer, table, s
  <2>5. \A t \in Streams : said.table[t] # "none" => table[t] # "none"
    BY <2>4
  <2>6. l \notin Xfers /\ l # Control /\ l # None BY ObjectsDistinct
  <2>7. /\ said.listener = None /\ said.fault = "none"
        /\ \A m \in Listeners : said.data[m] = None
        /\ said.table = h.table
    BY <1>3, <1>5, <1>8 DEF SameDock
  <2>8. /\ Reached(said, {}) /\ Sown(said) /\ Held(said)
    BY <1>6, <2>7 DEF Docked
  <2>9. Waiting(h', {}) BY <2>1, <2>7 DEF Waiting
  <2>10. Reached(h', {})
    <3>1. h.table[Ctl] \in {"added", "in"}
      BY <1>1, <1>2 DEF Swept, Tabled
    <3>2. Control \in said.alive BY <2>7, <2>8, <3>1 DEF Reached
    <3>3. ListenStream(l) = s BY DEF s
    <3> QED BY <2>1, <2>4, <3>2, <3>3 DEF Reached
  <2>11. Sown(h')
    <3>1. \A m \in said.finished : table[ListenStream(m)] # "none"
      BY <2>3, <2>5, <2>8, StreamsFacts DEF Sown
    <3>2. \A t \in Streams : consumer[t] \in Listeners =>
            table[ListenStream(consumer[t])] # "none"
      BY <2>4, <2>5, <2>8, StreamsFacts DEF Sown, s
    <3>3. \A t \in said.doomed \cup {Ctl} : table[t] # "none"
      BY <2>3, <2>5, <2>8, StreamsFacts DEF Sown
    <3> QED BY <2>1, <3>1, <3>2, <3>3 DEF Sown
  <2>12. Held(h')
    <3>1. \A t \in Streams : consumer[t] = Control => t = Ctl
      BY <2>4, <2>6, <2>8 DEF Held
    <3>2. \A t \in Streams : consumer[t] \in Xfers =>
            \/ t = FileStream(consumer[t]) /\ said.kind[consumer[t]] # "list"
            \/ t = DataStream(consumer[t]) /\ table[t] # "none"
      BY <2>4, <2>5, <2>6, <2>8 DEF Held
    <3>3. \A x \in Xfers : said.kind[x] = "none" =>
            /\ table[DataStream(x)] = "none" /\ said.buf[x] # "full"
            /\ \A t \in Streams : consumer[t] # x
      BY <2>2, <2>4, <2>6, <2>8, StreamsFacts DEF Held
    <3> QED BY <2>1, <3>1, <3>2, <3>3 DEF Held
  <2>13. Tabled(h) \subseteq Tabled(h')
    BY <2>1, <2>4, <2>7 DEF Tabled
  <2> QED BY <2>9, <2>10, <2>11, <2>12, <2>13 DEF Docked
<1> QED BY <1>4, <1>7, <1>8

LEMMA BeginFields ==
  ASSUME NEW g \in Heap, NEW x \in Xfers
  PROVE  LET b == Begin(g, x) IN
         /\ b.fault = g.fault /\ b.listener = g.listener /\ b.xfer = x
         /\ b.data = g.data /\ b.finished = g.finished /\ b.kind = g.kind
         /\ b.in = g.in /\ b.out = g.out /\ b.buf = g.buf
         /\ b.consumer = g.consumer /\ b.doomed = g.doomed
         /\ b.alive = g.alive
         /\ \A t \in Streams :
              \/ b.table[t] = g.table[t]
              \/ t = FileStream(x) /\ b.table[t] = "added"
<1> DEFINE b == Begin(g, x)
           said == Say(g)
           a == [said EXCEPT !.xfer = x, !.armed = "off", !.begun = @ \cup {x}]
           in == IF g.kind[x] = "list" THEN said.table[FileStream(x)]
                 ELSE "added"
           table == [said.table EXCEPT ![FileStream(x)] = in]
<1>1. said \in Heap /\ SameDock(said, g) /\ said.alive = g.alive BY SayDock
<1> HIDE DEF said
<1>2. /\ a.fault = said.fault /\ a.listener = said.listener /\ a.xfer = x
      /\ a.data = said.data /\ a.finished = said.finished
      /\ a.kind = said.kind /\ a.in = said.in /\ a.out = said.out
      /\ a.buf = said.buf /\ a.consumer = said.consumer
      /\ a.doomed = said.doomed /\ a.alive = said.alive
      /\ a.table = said.table
  BY <1>1 DEF Heap
<1>3. b = [a EXCEPT !.table = table]
  <2>1. b = [a EXCEPT !.table[FileStream(x)] =
                        IF g.kind[x] = "list" THEN @ ELSE "added"]
    BY DEF Begin, said
  <2> HIDE DEF a, b
  <2> QED BY <1>2, <2>1
<1>4. DOMAIN a = DOMAIN said BY DEF Heap
<1>5. "table" \in DOMAIN a BY <1>1, <1>4 DEF Heap
<1>6. \A t \in Streams : \/ table[t] = said.table[t]
                         \/ t = FileStream(x) /\ table[t] = "added"
  BY <1>1, DockTypes
<1> HIDE DEF a, b, table
<1>7. /\ b.fault = a.fault /\ b.listener = a.listener /\ b.xfer = a.xfer
      /\ b.data = a.data /\ b.finished = a.finished
      /\ b.kind = a.kind /\ b.in = a.in /\ b.out = a.out
      /\ b.buf = a.buf /\ b.consumer = a.consumer
      /\ b.doomed = a.doomed /\ b.alive = a.alive /\ b.table = table
  BY <1>3, <1>5
<1> QED BY <1>1, <1>2, <1>6, <1>7 DEF SameDock, b

LEMMA NewXferFields ==
  ASSUME NEW g \in Heap, NEW x \in Xfers, NEW kind \in Kinds \ {"none"}
  PROVE  LET n == NewXfer(g, x, kind)
             file == IF kind = "list" THEN None ELSE FileStream(x)
         IN
         /\ n.fault = g.fault /\ n.listener = g.listener /\ n.xfer = g.xfer
         /\ n.data = g.data /\ n.finished = g.finished
         /\ n.kind = [g.kind EXCEPT ![x] = kind]
         /\ n.in = [g.in EXCEPT ![x] = IF kind = "retr" THEN file ELSE None]
         /\ n.out = [g.out EXCEPT ![x] = IF kind = "stor" THEN file ELSE None]
         /\ n.consumer =
              [s \in Streams |-> IF s = file THEN x ELSE g.consumer[s]]
         /\ n.buf = g.buf /\ n.table = g.table
         /\ n.doomed = g.doomed /\ n.alive = g.alive \cup {x}
BY DEF NewXfer, Heap

\* A transfer is parked in the session's listener, which is then open, or has
\* its data connection under way, or is given up.
LEMMA TransferDocked ==
  ASSUME Inv, Moored, NEW kind \in Kinds \ {"none"}, Transfer(kind)
  PROVE  Docked(h', {}) /\ Tabled(h) \subseteq Tabled(h')
<1>1. Good(h) /\ h \in Heap BY DEF Inv, TypeOK, Good
<1>2. h.fault = "none" /\ Ctl \in todo /\ phase = "batch" /\ h.xfer = None
  BY DEF Transfer, Command, Serving, Running
<1>3. Docked(h, {}) /\ Swept BY <1>2 DEF Moored, Running
<1>4. Waiting(h, {}) /\ Reached(h, {}) /\ Sown(h) /\ Held(h)
  BY <1>2, <1>3 DEF Docked
<1>5. h.listener \notin h.finished BY <1>2, <1>3 DEF Swept
<1>6. /\ h.listener \in Listeners \cup {None}
      /\ h.data \in [Listeners -> Xfers \cup {None}]
      /\ h.finished \in SUBSET Listeners
      /\ h.kind \in [Xfers -> Kinds]
      /\ h.in \in [Xfers -> Streams \cup {None}]
      /\ h.out \in [Xfers -> Streams \cup {None}]
      /\ h.consumer \in [Streams -> Contexts \cup {None}]
      /\ h.table \in [Streams -> {"none", "added", "in", "gone"}]
      /\ h.doomed \in SUBSET Streams
  BY <1>1, DockTypes
<1>7. \A l \in Listeners : h.data[l] = None
  BY <1>2, <1>4 DEF Waiting
<1>8. PICK x \in Xfers :
        /\ h.kind[x] = "none"
        /\ LET new == NewXfer(h, x, kind) IN
           IF h.listener # None
           THEN h' = Begin([new EXCEPT !.data[h.listener] = x], x)
           ELSE \/ h' = Begin([new EXCEPT
                                 !.consumer[DataStream(x)] = x,
                                 !.table[DataStream(x)] = "added"], x)
                \/ h' = Error(new)
  BY DEF Transfer
<1> DEFINE new == NewXfer(h, x, kind)
           file == IF kind = "list" THEN None ELSE FileStream(x)
<1>9. /\ new.fault = "none" /\ new.listener = h.listener /\ new.xfer = None
      /\ new.data = h.data /\ new.finished = h.finished
      /\ new.kind = [h.kind EXCEPT ![x] = kind]
      /\ new.in = [h.in EXCEPT ![x] = IF kind = "retr" THEN file ELSE None]
      /\ new.out = [h.out EXCEPT ![x] = IF kind = "stor" THEN file ELSE None]
      /\ new.consumer =
           [s \in Streams |-> IF s = file THEN x ELSE h.consumer[s]]
      /\ new.buf = h.buf /\ new.table = h.table
      /\ new.doomed = h.doomed /\ new.alive = h.alive \cup {x}
  BY <1>1, <1>2, NewXferFields
<1>10. Good(new) BY <1>1, <1>8, NewXferGood
<1> HIDE DEF new
<1>11. new \in Heap BY <1>10 DEF Good
<1>12. x # None /\ x # Control /\ x \notin Listeners BY ObjectsDistinct
<1>13. /\ new.kind[x] = kind
       /\ new.in[x] = IF kind = "retr" THEN file ELSE None
       /\ new.out[x] = IF kind = "stor" THEN file ELSE None
       /\ \A y \in Xfers \ {x} : new.kind[y] = h.kind[y]
  BY <1>6, <1>9
<1>14. \A s \in Streams : \/ new.consumer[s] = h.consumer[s]
                          \/ /\ s = FileStream(x) /\ kind # "list"
                             /\ new.consumer[s] = x
  BY <1>9, StreamsNotNull
<1>15. /\ h.table[DataStream(x)] = "none" /\ h.buf[x] # "full"
       /\ \A s \in Streams : h.consumer[s] # x
  BY <1>4, <1>8 DEF Held
<1>16. Unjoined(new, x) BY <1>9, <1>13, <1>15 DEF Unjoined, Kinds
<1>17. Waiting(new, {}) BY <1>7, <1>9 DEF Waiting
<1>18. Reached(new, {})
  <2>1. h.listener # None =>
          new.consumer[ListenStream(h.listener)] = h.listener
    BY <1>4, <1>6, <1>14, StreamsFacts, StreamsDiffer DEF Reached
  <2> QED BY <1>4, <1>9, <1>12, <2>1 DEF Reached
<1>19. Sown(new) BY <1>4, <1>9, <1>12, <1>14 DEF Sown
<1>20. Held(new)
  <2>1. \A s \in Streams : new.consumer[s] = Control => s = Ctl
    BY <1>4, <1>12, <1>14 DEF Held
  <2>2. \A s \in Streams : new.consumer[s] \in Xfers =>
          \/ /\ s = FileStream(new.consumer[s])
             /\ new.kind[new.consumer[s]] # "list"
          \/ s = DataStream(new.consumer[s]) /\ h.table[s] # "none"
    <3> SUFFICES ASSUME NEW s \in Streams, new.consumer[s] \in Xfers
                 PROVE  \/ /\ s = FileStream(new.consumer[s])
                           /\ new.kind[new.consumer[s]] # "list"
                        \/ /\ s = DataStream(new.consumer[s])
                           /\ h.table[s] # "none"
      OBVIOUS
    <3>1. CASE new.consumer[s] = x /\ s = FileStream(x) /\ kind # "list"
      BY <1>13, <3>1
    <3>2. CASE new.consumer[s] = h.consumer[s]
      <4>1. h.consumer[s] # x BY <1>15
      <4> QED BY <1>4, <1>13, <3>2, <4>1 DEF Held
    <3> QED BY <1>14, <3>1, <3>2
  <2>3. \A y \in Xfers : new.kind[y] = "none" =>
          /\ h.table[DataStream(y)] = "none" /\ h.buf[y] # "full"
          /\ \A s \in Streams : new.consumer[s] # y
    <3>1. \A y \in Xfers : new.kind[y] = "none" =>
            y # x /\ h.kind[y] = "none"
      BY <1>13
    <3> QED BY <1>4, <1>14, <3>1 DEF Held
  <2> QED BY <1>9, <2>1, <2>2, <2>3 DEF Held
\* What begins is a transfer whose data connection is parked or under way.
<1>21. ASSUME NEW g \in Heap, h' = Begin(g, x), Reached(g, {}), Sown(g),
              Held(g), g.fault = "none", Tabled(h) \subseteq Tabled(g),
              \A l \in Listeners :
                g.data[l] # None =>
                  /\ l = g.listener /\ g.data[l] = x /\ l \notin g.finished
                  /\ g.table[DataStream(x)] = "none" /\ Unjoined(g, x)
       PROVE  Docked(h', {}) /\ Tabled(h) \subseteq Tabled(h')
  <2>1. /\ h'.fault = "none" /\ h'.listener = g.listener /\ h'.xfer = x
        /\ h'.data = g.data /\ h'.finished = g.finished
        /\ h'.kind = g.kind
        /\ h'.in = g.in /\ h'.out = g.out /\ h'.buf = g.buf
        /\ h'.consumer = g.consumer /\ h'.doomed = g.doomed
        /\ h'.alive = g.alive
        /\ \A t \in Streams :
             \/ h'.table[t] = g.table[t]
             \/ t = FileStream(x) /\ h'.table[t] = "added"
    BY <1>21, BeginFields
  <2>2. /\ g.listener \in Listeners \cup {None}
        /\ g.finished \in SUBSET Listeners /\ g.doomed \in SUBSET Streams
        /\ g.consumer \in [Streams -> Contexts \cup {None}]
    BY <1>21, DockTypes
  <2>3. \A t \in Streams :
          /\ g.table[t] # "none" => h'.table[t] # "none"
          /\ g.table[t] \in {"added", "in"} => h'.table[t] \in {"added", "in"}
    BY <2>1
  <2>4. \A y \in Xfers : h'.table[DataStream(y)] = g.table[DataStream(y)]
    BY <2>1, StreamsFacts, StreamsDiffer
  <2>5. \A l \in Listeners :
          h'.table[ListenStream(l)] = g.table[ListenStream(l)]
    BY <2>1, StreamsFacts, StreamsDiffer
  <2>6. h'.table[Ctl] = g.table[Ctl] BY <2>1, StreamsFacts, StreamsDiffer
  <2>7. Waiting(h', {}) BY <1>21, <2>1, <2>4 DEF Waiting, Unjoined
  <2>8. Reached(h', {}) BY <1>21, <2>1, <2>2, <2>5, <2>6 DEF Reached
  <2>9. Sown(h') BY <1>21, <2>1, <2>2, <2>3, <2>5, <2>6 DEF Sown
  <2>10. Held(h') BY <1>21, <2>1, <2>3, <2>4 DEF Held
  <2>11. Tabled(h) \subseteq Tabled(h') BY <1>21, <2>3 DEF Tabled
  <2> QED BY <2>7, <2>8, <2>9, <2>10, <2>11 DEF Docked
<1>22. Tabled(new) = Tabled(h) BY <1>9 DEF Tabled
<1>23. CASE h.listener # None
  <2> DEFINE parked == [new EXCEPT !.data[h.listener] = x]
  <2>1. h' = Begin(parked, x) BY <1>8, <1>23 DEF new
  <2>2. h.listener \in Listeners BY <1>6, <1>23
  <2>3. /\ parked.fault = new.fault /\ parked.listener = new.listener
        /\ parked.data = [new.data EXCEPT ![h.listener] = x]
        /\ parked.finished = new.finished /\ parked.kind = new.kind
        /\ parked.in = new.in /\ parked.out = new.out
        /\ parked.buf = new.buf /\ parked.consumer = new.consumer
        /\ parked.table = new.table /\ parked.doomed = new.doomed
        /\ parked.alive = new.alive
    BY <1>11 DEF Heap
  <2>4. parked \in Heap BY <1>11, <2>2 DEF Heap
  <2> HIDE DEF parked
  <2>5. \A l \in Listeners :
          parked.data[l] # None => l = h.listener /\ parked.data[l] = x
    BY <1>6, <1>7, <1>9, <2>2, <2>3
  <2>6. Unjoined(parked, x) BY <1>16, <2>3 DEF Unjoined
  <2>7. Reached(parked, {}) BY <1>18, <2>3 DEF Reached
  <2>8. Sown(parked) BY <1>19, <2>3 DEF Sown
  <2>9. Held(parked) BY <1>20, <2>3 DEF Held
  <2>10. Tabled(h) \subseteq Tabled(parked) BY <1>22, <2>3 DEF Tabled
  <2>11. \A l \in Listeners :
           parked.data[l] # None =>
             /\ l = parked.listener /\ parked.data[l] = x
             /\ l \notin parked.finished
             /\ parked.table[DataStream(x)] = "none" /\ Unjoined(parked, x)
    BY <1>5, <1>9, <1>15, <2>3, <2>5, <2>6
  <2>12. parked.fault = "none" BY <1>9, <2>3
  <2> QED
    BY <1>21, <2>1, <2>4, <2>7, <2>8, <2>9, <2>10, <2>11, <2>12
<1>24. ASSUME h' = Begin([new EXCEPT !.consumer[DataStream(x)] = x,
                                     !.table[DataStream(x)] = "added"], x)
       PROVE  Docked(h', {}) /\ Tabled(h) \subseteq Tabled(h')
  <2> DEFINE d == DataStream(x)
             consumer == [new.consumer EXCEPT ![d] = x]
             table == [new.table EXCEPT ![d] = "added"]
             joined == [[new EXCEPT !.consumer = consumer]
                         EXCEPT !.table = table]
  <2>1. /\ joined.fault = new.fault /\ joined.listener = new.listener
        /\ joined.data = new.data
        /\ joined.finished = new.finished /\ joined.kind = new.kind
        /\ joined.buf = new.buf /\ joined.consumer = consumer
        /\ joined.table = table /\ joined.doomed = new.doomed
        /\ joined.alive = new.alive
    BY <1>11 DEF Heap
  <2>2. d \in Streams /\ d # Ctl /\ \A l \in Listeners : ListenStream(l) # d
    BY StreamsFacts, StreamsDiffer
  <2>3. /\ new.consumer \in [Streams -> Contexts \cup {None}]
        /\ new.table \in [Streams -> {"none", "added", "in", "gone"}]
        /\ new.doomed \in SUBSET Streams
        /\ new.listener \in Listeners \cup {None}
        /\ new.finished \in SUBSET Listeners
    BY <1>11, DockTypes
  <2>4. /\ consumer \in [Streams -> Contexts \cup {None}]
        /\ table \in [Streams -> {"none", "added", "in", "gone"}]
    BY <2>3 DEF Contexts, Controlled
  <2>5. /\ \A t \in Streams \ {d} :
             consumer[t] = new.consumer[t] /\ table[t] = new.table[t]
        /\ consumer[d] = x /\ table[d] = "added"
    BY <2>2, <2>3
  <2>6. h' = Begin(joined, x) BY <1>11, <1>24 DEF Heap
  <2> HIDE DEF consumer, table
  <2>7. joined \in Heap
    <3>1. [new EXCEPT !.consumer = consumer] \in Heap
      BY <1>11, <2>4 DEF Heap
    <3> QED BY <2>4, <3>1, HeapFields
  <2> HIDE DEF joined
  <2>8. \A t \in Streams : new.table[t] # "none" => table[t] # "none"
    BY <2>5
  <2>9. Reached(joined, {})
    BY <1>18, <2>1, <2>2, <2>3, <2>5, StreamsFacts DEF Reached
  <2>10. Sown(joined)
    <3>1. \A l \in Listeners :
            table[ListenStream(l)] = new.table[ListenStream(l)]
      BY <2>2, <2>5, StreamsFacts
    <3> QED
      BY <1>12, <1>19, <2>1, <2>3, <2>5, <2>8, <3>1, StreamsFacts DEF Sown
  <2>11. Held(joined)
    <3>1. \A t \in Streams : consumer[t] = Control => t = Ctl
      BY <1>12, <1>20, <2>5 DEF Held
    <3>2. \A t \in Streams : consumer[t] \in Xfers =>
            \/ t = FileStream(consumer[t]) /\ new.kind[consumer[t]] # "list"
            \/ t = DataStream(consumer[t]) /\ table[t] # "none"
      <4>1. consumer[d] = x /\ d = DataStream(x) /\ table[d] # "none"
        BY <2>5
      <4> QED BY <1>20, <2>5, <2>8, <4>1 DEF Held
    <3>3. \A y \in Xfers : new.kind[y] = "none" =>
            /\ table[DataStream(y)] = "none" /\ new.buf[y] # "full"
            /\ \A t \in Streams : consumer[t] # y
      <4> SUFFICES ASSUME NEW y \in Xfers, new.kind[y] = "none"
                   PROVE  /\ table[DataStream(y)] = "none"
                          /\ new.buf[y] # "full"
                          /\ \A t \in Streams : consumer[t] # y
        OBVIOUS
      <4>1. y # x BY <1>13
      <4>2. DataStream(y) # d /\ DataStream(y) \in Streams
        BY <4>1, StreamsDiffer, StreamsFacts
      <4> HIDE DEF d
      <4> QED BY <1>20, <2>5, <4>1, <4>2 DEF Held
    <3> QED BY <2>1, <3>1, <3>2, <3>3 DEF Held
  <2>12. Tabled(h) \subseteq Tabled(joined)
    BY <1>22, <2>1, <2>5 DEF Tabled
  <2>13. \A l \in Listeners : joined.data[l] = None BY <1>7, <1>9, <2>1
  <2> HIDE DEF d
  <2> QED
    BY <1>9, <1>21, <2>1, <2>6, <2>7, <2>9, <2>10, <2>11, <2>12, <2>13
<1>25. ASSUME h' = Error(new)
       PROVE  Docked(h', {}) /\ Tabled(h) \subseteq Tabled(h')
  <2>1. SameDock(h', new) BY <1>11, <1>25, SayDock
  <2>2. Docked(new, {}) BY <1>17, <1>18, <1>19, <1>20 DEF Docked
  <2>3. Docked(h', {}) BY <2>1, <2>2, FrameDocked
  <2> QED BY <1>22, <2>1, <2>3 DEF SameDock, Tabled
<1> QED BY <1>8, <1>23, <1>24, <1>25 DEF new

LEMMA ControlMoored == Inv /\ Moored /\ ControlEvent => Moored'
<1> SUFFICES ASSUME Inv, Moored, ControlEvent PROVE Moored' OBVIOUS
<1>1. Good(h) /\ h \in Heap /\ todo \in SUBSET Streams
  BY DEF Inv, TypeOK, Good
<1>2. Running
  BY DEF ControlEvent, Serving, Command, NoCommand, CloseAfterOutput,
       ControlLost, LineTooLong, OtherCommand, Pass, Rein, Quit, Pasv, Port,
       Abor, Reply, HangUp, Transfer
<1>3. Docked(h, {}) /\ Swept /\ h.fault = "none"
  BY <1>2 DEF Moored, Running
\* The control connection is not met again in this pass.
<1>4. /\ Ctl \notin todo' /\ todo' \subseteq todo
      /\ phase' \in {"reply", "hangup", "batch"}
  <2>1. CASE phase = "batch" /\ Serving(Ctl)
    BY <1>3, <2>1
    DEF ControlEvent, Serving, Command, NoCommand, CloseAfterOutput,
       ControlLost, LineTooLong, OtherCommand, Pass, Rein, Quit, Pasv, Port,
       Abor, Reply, HangUp, Transfer, Swept
  <2>2. CASE Reply \/ HangUp BY <1>3, <2>2 DEF Reply, HangUp, Swept
  <2> QED
    BY <2>1, <2>2
    DEF ControlEvent, Serving, Command, NoCommand, CloseAfterOutput,
       ControlLost, LineTooLong, OtherCommand, Pass, Rein, Quit, Pasv, Port,
       Abor, Transfer
<1>5. SUFFICES Docked(h', {}) /\ Tabled(h) \subseteq Tabled(h')
  BY <1>3, <1>4 DEF Moored, Swept
<1>6. ASSUME NEW g \in Heap, SameDock(g, h)
      PROVE  Docked(g, {}) /\ Tabled(h) \subseteq Tabled(g)
  BY <1>3, <1>6, FrameDocked DEF SameDock, Tabled
<1>7. h' \in Heap BY ControlInv DEF Inv, TypeOK
<1>8. SameDock(h, h) BY DEF SameDock
<1>9. SameDock(Say(h), h) /\ SameDock(Error(h), h)
      /\ SameDock(StartClock(h), h) /\ Say(h) \in Heap
  BY <1>1, SayDock
<1>10. ASSUME h' = [h EXCEPT !.doomed = @ \cup {Ctl}]
       PROVE  Docked(h', {}) /\ Tabled(h) \subseteq Tabled(h')
  <2>1. h.table[Ctl] # "none" BY <1>3 DEF Docked, Sown
  <2>2. Docked(h', {}) /\ h'.table = h.table
    BY <1>1, <1>3, <1>10, <2>1, DoomDocked
  <2> QED BY <2>2 DEF Tabled
<1> DEFINE said == Say(h)
<1>11. Good(said) /\ Docked(said, {}) /\ Tabled(h) \subseteq Tabled(said)
  BY <1>1, <1>6, <1>9, SayGood
<1>12. CASE NoCommand BY <1>6, <1>7, <1>8, <1>9, <1>12 DEF NoCommand
<1>13. CASE CloseAfterOutput
  <2>1. Docked(h', {}) /\ h'.table = h.table
    BY <1>1, <1>3, <1>13, RemoveDocked DEF CloseAfterOutput
  <2> QED BY <2>1 DEF Tabled
<1>14. CASE ControlLost BY <1>10, <1>14 DEF ControlLost
<1>15. CASE LineTooLong BY <1>6, <1>7, <1>9, <1>15 DEF LineTooLong
<1>16. CASE OtherCommand BY <1>11, <1>16 DEF OtherCommand
<1>17. CASE Pass
  <2>1. PICK success \in BOOLEAN :
          h' = [said EXCEPT !.auth = success,
                            !.armed = IF success THEN "set" ELSE @]
    BY <1>17 DEF Pass
  <2> HIDE DEF said
  <2>2. SameDock(h', said) BY <1>11, <2>1 DEF Good, Heap, SameDock
  <2> QED BY <1>6, <1>7, <1>9, <2>2 DEF SameDock, said
<1>18. CASE Rein
  <2>1. h' = [said EXCEPT !.auth = FALSE] BY <1>18 DEF Rein
  <2> HIDE DEF said
  <2>2. SameDock(h', said) BY <1>11, <2>1 DEF Good, Heap, SameDock
  <2> QED BY <1>6, <1>7, <1>9, <2>2 DEF SameDock, said
<1>19. CASE Quit
  <2> DEFINE closes == said.closing \/ h.xfer = None
  <2>1. h' = [said EXCEPT !.auth = FALSE, !.quitting = TRUE,
                          !.closing = closes]
    BY <1>19 DEF Quit
  <2> HIDE DEF said, closes
  <2>2. SameDock(h', said) BY <1>11, <2>1 DEF Good, Heap, SameDock
  <2> QED BY <1>6, <1>7, <1>9, <2>2 DEF SameDock, said
<1>20. CASE Pasv BY <1>20, PasvDocked
<1>21. CASE Port
  <2> DEFINE off == PassiveOff(h)
  <2>1. Good(off) /\ Docked(off, {}) /\ off.table = h.table
    BY <1>1, <1>3, PassiveOffGood, PassiveOffDocked
  <2>2. h' = Say(h) \/ h' = Say(off) BY <1>21 DEF Port
  <2> HIDE DEF off, said
  <2>3. CASE h' = Say(off)
    <3>1. SameDock(h', off) BY <2>1, <2>3, SayDock DEF Good
    <3>2. Docked(h', {}) BY <2>1, <3>1, FrameDocked
    <3> QED BY <2>1, <3>1, <3>2 DEF SameDock, Tabled
  <2> QED BY <1>11, <2>2, <2>3 DEF said
<1>22. CASE Abor
  <2>1. h.xfer \in Xfers /\ h' = Complete(said, h.xfer)
    BY <1>1, <1>22, DockTypes DEF Abor
  <2> HIDE DEF said
  <2>2. Docked(h', {}) /\ h'.table = said.table
    BY <1>11, <2>1, CompleteDocked
  <2> QED BY <1>11, <2>2 DEF Tabled
<1>23. CASE Reply
  <2>1. SameDock([h EXCEPT !.resp = FALSE], h) BY <1>1 DEF Heap, SameDock
  <2> QED BY <1>6, <1>7, <1>8, <1>10, <1>23, <2>1 DEF Reply
<1>24. CASE HangUp BY <1>6, <1>7, <1>8, <1>10, <1>24 DEF HangUp
<1>25. CASE \E kind \in Kinds \ {"none"} : Transfer(kind)
  BY <1>25, TransferDocked
<1> QED
  BY <1>12, <1>13, <1>14, <1>15, <1>16, <1>17, <1>18, <1>19, <1>20, <1>21,
     <1>22, <1>23, <1>24, <1>25
  DEF ControlEvent

\* As long as a command can follow, the transfer that was handed over stays
\* pending and without its data connection.
LEMMA SweptServing ==
  ASSUME Swept, NEW s \in Streams, Serving(s), phase' = phase,
         Tabled(h) \subseteq Tabled(h'),
         \/ h'.listener \notin h'.finished
         \/ /\ h'.listener = h.listener /\ h'.finished = h.finished
            /\ Ctl \in todo /\ h.listener \in h.finished =>
                 h'.xfer = h.xfer /\ Unjoined(h', h.xfer)
  PROVE  Swept'
BY DEF Swept, Serving

LEMMA AcceptMoored ==
  ASSUME Inv, Moored, NEW s \in Streams, Accept(s)
  PROVE  Moored'
<1> DEFINE l == h.consumer[s]
           x == h.data[l]
           handed == [h EXCEPT !.data[l] = None, !.finished = @ \cup {l}]
           d == DataStream(x)
           consumer == [h.consumer EXCEPT ![d] = x]
           table == [h.table EXCEPT ![d] = "added"]
           taken == [[handed EXCEPT !.consumer = consumer]
                      EXCEPT !.table = table]
<1>1. Good(h) /\ h \in Heap BY DEF Inv, TypeOK, Good
<1>2. /\ h.fault = "none" /\ phase = "batch" /\ phase' = "batch"
      /\ todo' = todo \ {s} /\ Serving(s)
  BY DEF Accept, Serving, Running
<1>3. Docked(h, {}) /\ Swept BY <1>2 DEF Moored, Running
<1>4. Waiting(h, {}) /\ Reached(h, {}) /\ Sown(h) /\ Held(h)
  BY <1>2, <1>3 DEF Docked
<1>5. l \in Listeners /\ x # None BY DEF Accept
<1>6. /\ h.listener \in Listeners \cup {None}
      /\ h.data \in [Listeners -> Xfers \cup {None}]
      /\ h.finished \in SUBSET Listeners
      /\ h.consumer \in [Streams -> Contexts \cup {None}]
      /\ h.table \in [Streams -> {"none", "added", "in", "gone"}]
      /\ h.doomed \in SUBSET Streams
  BY <1>1, DockTypes
<1>7. /\ x = h.xfer /\ x \in Xfers /\ l = h.listener
      /\ Unjoined(h, x) /\ h.table[d] = "none"
  BY <1>1, <1>2, <1>3, <1>5, ParkedUnjoined
<1>8. l # None /\ x \notin Listeners /\ x # Control
  BY <1>5, <1>7, ObjectsDistinct
<1>9. h.kind[x] # "none"
  BY <1>1, <1>2, <1>4, <1>5, <1>7, <1>8 DEF Reached, Good, Consistent
<1>10. h' \in {taken, Remove(taken, l)}
  <2>1. handed.consumer = h.consumer /\ handed.table = h.table
        /\ handed \in Heap
    BY <1>1, <1>5, ZenonT(60) DEF Heap
  <2>2. taken = [handed EXCEPT !.consumer[d] = x, !.table[d] = "added"]
    <3> HIDE DEF handed
    <3> QED BY <2>1 DEF Heap
  <2>3. [handed EXCEPT !.consumer[d] = x, !.table[d] = "added"]
          = [h EXCEPT !.data[l] = None, !.finished = @ \cup {l},
                      !.consumer[d] = x, !.table[d] = "added"]
    OBVIOUS
  <2>4. \/ h' = [h EXCEPT !.data[l] = None, !.finished = @ \cup {l},
                          !.consumer[d] = x, !.table[d] = "added"]
        \/ h' = Remove([h EXCEPT !.data[l] = None, !.finished = @ \cup {l},
                                 !.consumer[d] = x, !.table[d] = "added"], l)
    BY DEF Accept
  <2> HIDE DEF taken, l, x, d
  <2> QED BY <2>2, <2>3, <2>4
<1>11. d \in Streams /\ d # Ctl /\ \A m \in Listeners : ListenStream(m) # d
  BY <1>7, StreamsFacts, StreamsDiffer
<1>12. /\ consumer \in [Streams -> Contexts \cup {None}]
       /\ table \in [Streams -> {"none", "added", "in", "gone"}]
  BY <1>6, <1>7 DEF Contexts, Controlled
<1>13. /\ \A t \in Streams \ {d} :
            consumer[t] = h.consumer[t] /\ table[t] = h.table[t]
       /\ consumer[d] = x /\ table[d] = "added"
  BY <1>6, <1>11
<1> HIDE DEF consumer, table
<1>14. /\ taken.fault = h.fault /\ taken.listener = h.listener
       /\ taken.xfer = h.xfer /\ taken.kind = h.kind
       /\ taken.data = [h.data EXCEPT ![l] = None]
       /\ taken.finished = h.finished \cup {l}
       /\ taken.in = h.in /\ taken.out = h.out
       /\ taken.buf = h.buf /\ taken.consumer = consumer
       /\ taken.table = table /\ taken.doomed = h.doomed
       /\ taken.alive = h.alive
  BY <1>1 DEF Heap
<1>15. Good(taken)
  <2>1. handed \in Heap /\ SameLinks(handed, h)
    BY <1>1, <1>5, ZenonT(60) DEF Heap, SameLinks
  <2> HIDE DEF handed
  <2>2. [handed EXCEPT !.consumer = consumer] \in Heap
    BY <1>12, <2>1 DEF Heap
  <2>3. taken \in Heap BY <1>12, <2>2, HeapFields
  <2>4. SameLinks(taken, handed) BY <2>1 DEF Heap, SameLinks
  <2>5. SameLinks(taken, h) BY <2>1, <2>4 DEF SameLinks
  <2> QED BY <1>1, <2>3, <2>5, FrameGood
<1> HIDE DEF taken, handed
<1>16. \A m \in Listeners : taken.data[m] = None
  <2>1. \A m \in Listeners : h.data[m] # None => m = l
    BY <1>4, <1>7 DEF Waiting
  <2> QED BY <1>6, <1>14, <2>1
<1>17. \A t \in Streams :
         /\ h.table[t] # "none" => table[t] # "none"
         /\ h.table[t] \in {"added", "in"} => table[t] \in {"added", "in"}
  BY <1>13
<1>18. Waiting(taken, {}) BY <1>16 DEF Waiting
<1>19. Reached(taken, {})
  <2>1. /\ table[ListenStream(h.listener)] = h.table[ListenStream(h.listener)]
        /\ consumer[ListenStream(h.listener)]
             = h.consumer[ListenStream(h.listener)]
    BY <1>5, <1>7, <1>11, <1>13, StreamsFacts
  <2>2. table[Ctl] = h.table[Ctl] BY <1>11, <1>13, StreamsFacts
  <2> QED BY <1>4, <1>14, <2>1, <2>2 DEF Reached
<1>20. Sown(taken)
  <2>1. \A m \in Listeners :
          h.table[ListenStream(m)] # "none" => table[ListenStream(m)] # "none"
    BY <1>17, StreamsFacts
  <2>2. h.table[ListenStream(l)] # "none" BY <1>4, <1>7, <1>8 DEF Reached
  <2>3. \A m \in h.finished \cup {l} : table[ListenStream(m)] # "none"
    BY <1>4, <1>5, <1>6, <2>1, <2>2 DEF Sown
  <2>4. \A t \in Streams : consumer[t] \in Listeners =>
          table[ListenStream(consumer[t])] # "none"
    <3>1. \A t \in Streams : consumer[t] \in Listeners =>
            consumer[t] = h.consumer[t]
      BY <1>8, <1>13
    <3> QED BY <1>4, <2>1, <3>1 DEF Sown
  <2>5. \A t \in h.doomed \cup {Ctl} : table[t] # "none"
    BY <1>4, <1>6, <1>17, StreamsFacts DEF Sown
  <2> QED BY <1>14, <2>3, <2>4, <2>5 DEF Sown
<1>21. Held(taken)
  <2>1. \A t \in Streams : consumer[t] = Control => t = Ctl
    BY <1>4, <1>8, <1>13 DEF Held
  <2>2. \A t \in Streams : consumer[t] \in Xfers =>
          \/ t = FileStream(consumer[t]) /\ h.kind[consumer[t]] # "list"
          \/ t = DataStream(consumer[t]) /\ table[t] # "none"
    <3> SUFFICES ASSUME NEW t \in Streams, consumer[t] \in Xfers
                 PROVE  \/ /\ t = FileStream(consumer[t])
                           /\ h.kind[consumer[t]] # "list"
                        \/ t = DataStream(consumer[t]) /\ table[t] # "none"
      OBVIOUS
    <3>1. CASE t = d
      <4>1. consumer[t] = x /\ table[t] # "none" BY <1>13, <3>1
      <4> QED BY <3>1, <4>1
    <3>2. CASE t # d
      <4>1. consumer[t] = h.consumer[t] BY <1>13, <3>2
      <4> QED BY <1>4, <1>17, <4>1 DEF Held
    <3> QED BY <3>1, <3>2
  <2>3. \A y \in Xfers : h.kind[y] = "none" =>
          /\ table[DataStream(y)] = "none" /\ h.buf[y] # "full"
          /\ \A t \in Streams : consumer[t] # y
    <3> SUFFICES ASSUME NEW y \in Xfers, h.kind[y] = "none"
                 PROVE  /\ table[DataStream(y)] = "none"
                        /\ h.buf[y] # "full"
                        /\ \A t \in Streams : consumer[t] # y
      OBVIOUS
    <3>1. y # x BY <1>9
    <3>2. DataStream(y) # d /\ DataStream(y) \in Streams
      BY <1>7, <3>1, StreamsDiffer, StreamsFacts
    <3> HIDE DEF d
    <3> QED BY <1>4, <1>13, <3>1, <3>2 DEF Held
  <2> QED BY <1>14, <2>1, <2>2, <2>3 DEF Held
<1>22. Docked(taken, {}) BY <1>18, <1>19, <1>20, <1>21 DEF Docked
<1>23. /\ Docked(h', {}) /\ h'.table = table /\ h'.xfer = h.xfer
       /\ h'.kind = h.kind /\ h'.in = h.in /\ h'.out = h.out
       /\ h'.buf = h.buf
  <2>1. CASE h' = taken BY <1>14, <1>22, <2>1
  <2>2. CASE h' = Remove(taken, l)
    <3>1. /\ Docked(h', {}) /\ h'.table = taken.table /\ h'.xfer = taken.xfer
          /\ h'.kind = taken.kind /\ h'.in = taken.in
          /\ h'.out = taken.out /\ h'.buf = taken.buf
      BY <1>15, <1>22, <2>2, RemoveDocked
    <3> QED BY <1>14, <3>1
  <2> QED BY <1>10, <2>1, <2>2
<1>24. d \notin todo BY <1>3, <1>7 DEF Swept, Tabled
<1>25. Swept'
  <2>1. h'.xfer # None /\ Unjoined(h', h'.xfer)
    BY <1>5, <1>7, <1>23 DEF Unjoined
  <2>2. DataStream(h'.xfer) \notin todo' BY <1>2, <1>7, <1>23, <1>24
  <2>3. todo' \subseteq Tabled(h')
    BY <1>2, <1>3, <1>17, <1>23 DEF Swept, Tabled
  <2> QED BY <1>2, <2>1, <2>2, <2>3 DEF Swept
<1> QED BY <1>23, <1>25 DEF Moored

LEMMA DataMoored == Inv /\ Moored /\ DataEvent => Moored'
<1> SUFFICES ASSUME Inv, Moored, DataEvent PROVE Moored' OBVIOUS
<1>1. Good(h) /\ h \in Heap /\ todo \in SUBSET Streams
  BY DEF Inv, TypeOK, Good
<1>2. Running
  BY DEF DataEvent, Serving, ListenerDestroyed, Accept, XferIdle,
         XferIo, ListIo, ServeOrphan
<1>3. Docked(h, {}) /\ Swept /\ h.fault = "none"
  BY <1>2 DEF Moored, Running
<1>4. h.xfer \in Xfers \cup {None} BY <1>1, DockTypes
<1>5. ASSUME NEW s \in Streams, Serving(s) PROVE h.table[s] # "none"
  BY <1>3, <1>5 DEF Serving, Swept, Tabled
\* Only the doomed streams grow.
<1>6. ASSUME NEW s \in Streams, Serving(s), phase' = phase, Docked(h', {}),
             h'.table = h.table, h'.listener = h.listener,
             h'.finished = h.finished, h'.xfer = h.xfer, h'.kind = h.kind,
             h'.in = h.in, h'.out = h.out, h'.buf = h.buf
      PROVE  Moored'
  <2>1. \A x : Unjoined(h', x) <=> Unjoined(h, x) BY <1>6 DEF Unjoined
  <2>2. Tabled(h) \subseteq Tabled(h') BY <1>6 DEF Tabled
  <2>3. Ctl \in todo /\ h.listener \in h.finished => Unjoined(h, h.xfer)
    BY <1>3, <1>6 DEF Swept, Serving
  <2>4. Swept' BY <1>3, <1>6, <2>1, <2>2, <2>3, SweptServing
  <2> QED BY <1>6, <2>4 DEF Moored
<1>7. ASSUME NEW s \in Streams, Serving(s), phase' = phase,
             h' = [h EXCEPT !.doomed = @ \cup {s}]
      PROVE  Moored'
  <2>1. h.table[s] # "none" BY <1>5, <1>7
  <2>2. /\ Docked(h', {}) /\ h'.table = h.table /\ h'.listener = h.listener
        /\ h'.finished = h.finished /\ h'.xfer = h.xfer
        /\ h'.kind = h.kind /\ h'.buf = h.buf /\ h'.in = h.in
        /\ h'.out = h.out
    BY <1>1, <1>3, <1>7, <2>1, DoomDocked
  <2> QED BY <1>6, <1>7, <2>2
<1>8. ASSUME NEW s \in Streams, Serving(s), phase' = phase, NEW c,
             h' = Remove(h, c)
      PROVE  Moored'
  <2>1. /\ Docked(h', {}) /\ h'.table = h.table /\ h'.listener = h.listener
        /\ h'.finished = h.finished /\ h'.xfer = h.xfer
        /\ h'.kind = h.kind /\ h'.buf = h.buf /\ h'.in = h.in
        /\ h'.out = h.out
    BY <1>1, <1>3, <1>8, RemoveDocked
  <2> QED BY <1>6, <1>8, <2>1
<1>9. ASSUME NEW s \in Streams, Serving(s), phase' = phase, h' = h
      PROVE  Moored'
  BY <1>3, <1>6, <1>9
\* What another transfer does leaves the pending one alone.
<1>10. ASSUME NEW s \in Streams, Serving(s), phase' = phase, Docked(h', {}),
              NEW x \in Xfers,
              Ctl \in todo /\ h.listener \in h.finished => x # h.xfer,
              h'.table = h.table, h'.kind = h.kind,
              h'.fault = "none" => \/ h'.listener = None
                                   \/ /\ h'.listener = h.listener
                                      /\ h'.finished = h.finished
                                      /\ h'.xfer = h.xfer \/ x = h.xfer,
              \A y \in Xfers \ {x} :
                /\ h'.in[y] = h.in[y] /\ h'.out[y] = h.out[y]
                /\ h'.buf[y] = h.buf[y],
              h' \in Heap
       PROVE  Moored'
  <2>1. \A y \in Xfers \ {x} : Unjoined(h', y) <=> Unjoined(h, y)
    BY <1>10 DEF Unjoined
  <2>2. Tabled(h) \subseteq Tabled(h') BY <1>10 DEF Tabled
  <2>3. Ctl \in todo /\ h.listener \in h.finished
          => h.xfer \in Xfers /\ Unjoined(h, h.xfer)
    BY <1>3, <1>4, <1>10 DEF Swept, Serving
  <2>4. None \notin h'.finished
    BY <1>10, DockTypes, ObjectsDistinct
  <2>5. h'.fault = "none" => Swept'
    BY <1>3, <1>10, <2>1, <2>2, <2>3, <2>4, SweptServing
  <2> QED BY <1>10, <2>5 DEF Moored, Running
<1>11. h' \in Heap BY DataInv DEF Inv, TypeOK
\* A transfer that can do something is not one that waits.
<1>12. ASSUME NEW s \in Streams, Serving(s), NEW x \in Xfers,
              h.consumer[s] = x, Ctl \in todo /\ h.listener \in h.finished,
              x = h.xfer
       PROVE  /\ Adopt(h, x, s) = h /\ h.kind[x] # "list"
              /\ h.in[x] = None \/ h.out[x] = None
              /\ ~(h.in[x] = None /\ h.buf[x] = "full")
  <2>1. Unjoined(h, x) /\ s # DataStream(x)
    BY <1>3, <1>12 DEF Swept, Serving
  <2> QED BY <1>1, <1>3, <1>12, <2>1, UnjoinedIdle
<1>13. ASSUME NEW s \in Streams, ListenerDestroyed(s) PROVE Moored'
  BY <1>7, <1>8, <1>13 DEF ListenerDestroyed
<1>14. ASSUME NEW s \in Streams, Accept(s) PROVE Moored'
  BY <1>14, AcceptMoored
<1>15. ASSUME NEW s \in Streams, XferIdle(s) PROVE Moored'
  <2> DEFINE x == h.consumer[s]
             g == Adopt(h, x, s)
  <2>1. /\ x \in Xfers /\ Serving(s) /\ phase' = phase
        /\ h' = g \/ h' = [g EXCEPT !.doomed = @ \cup {s}]
    BY <1>15 DEF XferIdle
  <2>2. /\ Docked(g, {}) /\ g.table = h.table /\ g.listener = h.listener
        /\ g.finished = h.finished /\ g.xfer = h.xfer /\ g.kind = h.kind
        /\ g.buf = h.buf /\ g.fault = h.fault
        /\ \A y \in Xfers \ {x} : g.in[y] = h.in[y] /\ g.out[y] = h.out[y]
    BY <1>1, <1>3, <2>1, AdoptDocked
  <2>3. Good(g) BY <1>1, <2>1, AdoptGood
  <2>4. h.table[s] # "none" BY <1>5, <2>1
  <2>5. Ctl \in todo /\ h.listener \in h.finished /\ x = h.xfer => g = h
    BY <1>12, <2>1
  <2> HIDE DEF g
  <2>6. /\ Docked(h', {}) /\ h'.table = g.table
        /\ h'.listener = g.listener /\ h'.finished = g.finished
        /\ h'.xfer = g.xfer /\ h'.kind = g.kind /\ h'.buf = g.buf
        /\ h'.in = g.in /\ h'.out = g.out
    <3>1. CASE h' = g BY <2>2, <3>1
    <3>2. CASE h' = [g EXCEPT !.doomed = @ \cup {s}]
      BY <2>2, <2>3, <2>4, <3>2, DoomDocked
    <3> QED BY <2>1, <3>1, <3>2
  <2> HIDE DEF x
  <2>7. CASE Ctl \in todo /\ h.listener \in h.finished /\ x = h.xfer
    BY <1>6, <2>1, <2>5, <2>6, <2>7
  <2>8. CASE ~(Ctl \in todo /\ h.listener \in h.finished /\ x = h.xfer)
    BY <1>10, <1>11, <2>1, <2>2, <2>6, <2>8
  <2> QED BY <2>7, <2>8
<1>16. ASSUME NEW s \in Streams, XferIo(s) PROVE Moored'
  <2> DEFINE x == h.consumer[s]
             g == Adopt(h, x, s)
  <2>1. /\ x \in Xfers /\ Serving(s) /\ phase' = phase
        /\ \/ g.in[x] # None /\ g.out[x] # None
           \/ g.in[x] = None /\ g.buf[x] = "full"
    BY <1>16 DEF XferIo
  <2>2. /\ Docked(g, {}) /\ g.table = h.table /\ g.listener = h.listener
        /\ g.finished = h.finished /\ g.xfer = h.xfer /\ g.kind = h.kind
        /\ g.buf = h.buf /\ g.fault = h.fault /\ g.data = h.data
        /\ g.consumer = h.consumer
        /\ \A y \in Xfers \ {x} : g.in[y] = h.in[y] /\ g.out[y] = h.out[y]
    BY <1>1, <1>3, <2>1, AdoptDocked
  <2>3. Good(g) BY <1>1, <2>1, AdoptGood
  <2>4. h.table[s] # "none" BY <1>5, <2>1
  <2>5. Ctl \in todo /\ h.listener \in h.finished => x # h.xfer
    BY <1>12, <2>1
  <2>6. \A l \in Listeners : g.data[l] # x
    <3> SUFFICES ASSUME NEW l \in Listeners, h.data[l] = x PROVE FALSE
      BY <2>2
    <3>1. x # None BY <2>1, ObjectsDistinct
    <3>2. Unjoined(h, x) /\ s # DataStream(x)
      BY <1>1, <1>3, <3>1, ParkedUnjoined
    <3>3. /\ g = h
          /\ h.in[x] = None \/ h.out[x] = None
          /\ ~(h.in[x] = None /\ h.buf[x] = "full")
      BY <1>1, <1>3, <2>1, <3>2, UnjoinedIdle
    <3> HIDE DEF g
    <3> QED BY <2>1, <3>3
  <2>7. g.kind[x] # "none" BY <1>3, <2>1, <2>2 DEF Docked, Held
  <2>8. g.buf[x] \in {"none", "empty", "full"}
    BY <2>1, <2>3, DockTypes DEF Good
  <2> HIDE DEF g
  <2>9. PICK o :
          /\ o \in IoOutcomes(g.buf[x]) \/ o \in FlushOutcomes
          /\ \/ h' = [g EXCEPT !.buf[x] = o[1]]
             \/ h' = [[g EXCEPT !.buf[x] = o[1]]
                       EXCEPT !.doomed = @ \cup {s}]
             \/ h' = Complete([g EXCEPT !.buf[x] = o[1]], x)
    BY <1>16 DEF XferIo, g
  <2> DEFINE b == o[1]
             moved == [g EXCEPT !.buf[x] = b]
  <2>10. b \in {"none", "empty", "full"}
    <3>1. CASE o \in FlushOutcomes BY <3>1 DEF FlushOutcomes
    <3>2. CASE o \in IoOutcomes(g.buf[x]) BY <2>8, <3>2 DEF IoOutcomes
    <3> QED BY <2>9, <3>1, <3>2
  <2>11. \/ h' = moved
         \/ h' = [moved EXCEPT !.doomed = @ \cup {s}]
         \/ h' = Complete(moved, x)
    BY <2>9
  <2> HIDE DEF b, x
  <2>12. /\ moved.fault = g.fault /\ moved.listener = g.listener
         /\ moved.xfer = g.xfer /\ moved.data = g.data
         /\ moved.finished = g.finished /\ moved.kind = g.kind
         /\ moved.in = g.in /\ moved.out = g.out
         /\ moved.buf = [g.buf EXCEPT ![x] = b]
         /\ moved.consumer = g.consumer /\ moved.table = g.table
         /\ moved.doomed = g.doomed /\ moved.alive = g.alive
    BY <2>3 DEF Good, Heap
  <2>13. Good(moved)
    <3>1. moved \in Heap /\ SameLinks(moved, g)
      BY <2>1, <2>3, <2>10 DEF Good, Heap, SameLinks
    <3> QED BY <2>3, <3>1, FrameGood
  <2> HIDE DEF moved
  <2>14. \A y \in Xfers \ {x} : moved.buf[y] = g.buf[y]
    BY <2>3, <2>12, DockTypes DEF Good
  <2>15. Docked(moved, {})
    <3>1. \A y \in Xfers \ {x} :
            /\ moved.in[y] = g.in[y] /\ moved.out[y] = g.out[y]
            /\ moved.buf[y] = g.buf[y]
      BY <2>12, <2>14
    <3>2. /\ x \in Xfers /\ Good(g) /\ Docked(g, {}) /\ g.kind[x] # "none"
          /\ \A l \in Listeners : g.data[l] # x
      BY <2>1, <2>2, <2>3, <2>6, <2>7
    <3>3. /\ moved.fault = g.fault /\ moved.listener = g.listener
          /\ moved.xfer = g.xfer /\ moved.data = g.data
          /\ moved.finished = g.finished /\ moved.kind = g.kind
          /\ moved.consumer = g.consumer /\ moved.table = g.table
          /\ moved.doomed = g.doomed /\ moved.alive = g.alive
      BY <2>12
    <3> QED BY <3>1, <3>2, <3>3, MovedDocked
  <2>16. /\ Docked(h', {}) /\ h'.table = moved.table
         /\ h'.kind = moved.kind /\ h'.in = moved.in
         /\ h'.out = moved.out /\ h'.buf = moved.buf
         /\ h'.fault = "none" => \/ h'.listener = None
                                 \/ /\ h'.listener = moved.listener
                                    /\ h'.finished = moved.finished
                                    /\ h'.xfer = moved.xfer \/ x = moved.xfer
    <3>1. CASE h' = moved BY <2>15, <3>1
    <3>2. CASE h' = [moved EXCEPT !.doomed = @ \cup {s}]
      <4>1. moved.table[s] # "none" BY <2>2, <2>4, <2>12
      <4> QED BY <2>13, <2>15, <3>2, <4>1, DoomDocked
    <3>3. CASE h' = Complete(moved, x)
      BY <2>1, <2>13, <2>15, <3>3, CompleteDocked
    <3> QED BY <2>11, <3>1, <3>2, <3>3
  <2>17. \A y \in Xfers \ {x} :
           /\ h'.in[y] = h.in[y] /\ h'.out[y] = h.out[y]
           /\ h'.buf[y] = h.buf[y]
    BY <2>2, <2>12, <2>14, <2>16
  <2> QED BY <1>10, <1>11, <2>1, <2>2, <2>5, <2>12, <2>16, <2>17
<1>17. ASSUME NEW s \in Streams, ListIo(s) PROVE Moored'
  <2> DEFINE x == h.consumer[s]
  <2>1. /\ x \in Xfers /\ Serving(s) /\ phase' = phase /\ h.kind[x] = "list"
        /\ \/ h' = h \/ h' = Complete(h, x) \/ h' = Remove(h, x)
           \/ h' = [h EXCEPT !.doomed = @ \cup {s}]
    BY <1>17 DEF ListIo
  <2>2. Ctl \in todo /\ h.listener \in h.finished => x # h.xfer
    BY <1>12, <2>1
  <2>3. CASE h' = Complete(h, x)
    <3>1. /\ Docked(h', {}) /\ h'.table = h.table
          /\ h'.kind = h.kind /\ h'.in = h.in /\ h'.out = h.out
          /\ h'.buf = h.buf
          /\ h'.fault = "none" => \/ h'.listener = None
                                  \/ /\ h'.listener = h.listener
                                     /\ h'.finished = h.finished
                                     /\ h'.xfer = h.xfer \/ x = h.xfer
      BY <1>1, <1>3, <2>1, <2>3, CompleteDocked
    <3> QED BY <1>10, <1>11, <2>1, <2>2, <3>1
  <2> QED BY <1>7, <1>8, <1>9, <2>1, <2>3
<1>18. ASSUME NEW s \in Streams, ServeOrphan(s) PROVE Moored'
  <2>1. CASE h.consumer[s] = None BY <1>7, <1>18, <2>1 DEF ServeOrphan
  <2>2. CASE h.consumer[s] # None
    <3>1. h' = [h EXCEPT !.fault = "consumer"]
      BY <1>18, <2>2 DEF ServeOrphan
    <3>2. h'.fault = "consumer" BY <1>1, <3>1 DEF Heap
    <3> QED BY <3>2 DEF Moored, Docked, Running
  <2> QED BY <2>1, <2>2
<1> QED BY <1>13, <1>14, <1>15, <1>16, <1>17, <1>18 DEF DataEvent

LEMMA NextMoored == Inv /\ Moored /\ [Next]_vars => Moored'
<1>1. Inv /\ Moored /\ Next => Moored'
  BY LoopMoored, PrepareMoored, ControlMoored, DataMoored DEF Next
<1>2. Moored /\ UNCHANGED vars => Moored'
  <2> SUFFICES ASSUME Moored, UNCHANGED vars PROVE Moored' OBVIOUS
  <2>1. h' = h /\ phase' = phase /\ todo' = todo BY DEF vars
  <2> QED BY <2>1 DEF Moored, Swept, Running
<1> QED BY <1>1, <1>2

---------------------------------------------------------------------------
\* The fields of the session keep their types, whatever the client does.
THEOREM TypeCorrect == Spec => []TypeOK
<1>1. Inv => TypeOK BY DEF Inv
<1> QED BY <1>1, InitInv, NextInv, PTL DEF Spec

\* FTPControl never holds a dangling _data_listener or _data_xfer.
THEOREM PointersSafe == Spec => []SafePointers
<1>1. Inv => SafePointers BY DEF Inv, Consistent, SafePointers, Running
<1> QED BY <1>1, InitInv, NextInv, PTL DEF Spec

\* One 226 or 426 for each 150, after the transfer and not before.
THEOREM AnsweredOnce == Spec => []OneAnswer
<1>1. Inv => OneAnswer BY DEF Inv, Consistent, OneAnswer, Running
<1> QED BY <1>1, InitInv, NextInv, PTL DEF Spec

\* A session listens to one transfer at a time.
THEOREM SingleTransfer == Spec => []OneTransfer
<1>1. Inv => OneTransfer BY DEF Inv, Consistent, OneTransfer, Running
<1> QED BY <1>1, InitInv, NextInv, PTL DEF Spec

\* A command of the client, the accept of its data connection and the end of a
\* transfer may meet in one pass in any order: a transfer is still never
\* parked in a listener that destroys itself when it is next polled.
THEOREM ParkedOpen == Spec => []ParkedInOpenListener
<1>1. Moored => ParkedInOpenListener
  BY DEF Moored, Docked, Waiting, ParkedInOpenListener, Running
<1>2. Init => Inv /\ Moored BY InitInv, InitMoored
<1>3. Inv /\ Moored /\ [Next]_vars => (Inv /\ Moored)'
  BY NextInv, NextMoored
<1> QED BY <1>1, <1>2, <1>3, PTL DEF Spec
===========================================================================
