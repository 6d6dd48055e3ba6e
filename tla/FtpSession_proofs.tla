-------------------------- MODULE FtpSession_proofs --------------------------
(***************************************************************************)
(* FtpSession, for any arguments, files and addresses and any bounds: what *)
(* a command relies on was given by its own login, the data goes where the *)
(* client was told, no path leads out of the user's directory, the files   *)
(* stay a tree and those that may not be written stay where they are.      *)
(* And EachPortOnce of Ports, the search PASV makes, for every range: the  *)
(* ports tried are always the ones that the search, going on from "port",  *)
(* would come to last: those at least "tries" places ahead of it around    *)
(* the range.                                                              *)
(* Then what the commands send, Listings, for every directory tree, every  *)
(* argument and every pattern: an entry that stays is told once and a      *)
(* link leads back to its entry. The loops over texts of Names are         *)
(* recursive functions; that each has a solution, and what it yields,      *)
(* is shown here by induction on the length of the text, as the set of the *)
(* lengths (or texts) of which it holds.                                   *)
(***************************************************************************)
EXTENDS FtpSession, Ports, Listings, FiniteSetTheorems, WellFoundedInduction, TLAPS

-----------------------------------------------------------------------------
(* Who gave what the session remembers.                                    *)

\* Whatever is remembered was given by the login that is there now, and a
\* position that is remembered has not been taken.
Remembered ==
  /\ cwd.at # <<>> => cwd.of = login
  /\ from.at # <<>> => from.of = login
  /\ rest.pos # 0 => rest.of = login /\ fresh

OwnInv == Remembered /\ OwnState

LEMMA InitOwn == Init => OwnInv
BY DEF Init, OwnInv, Remembered, OwnState, Home, Start, Nothing

\* lose_auth leaves nothing for the next login.
LEMMA LoseAuthForgets ==
  ASSUME LoseAuth
  PROVE  Remembered'
BY DEF LoseAuth, Remembered, Home, Start

\* What an argument was resolved against belongs to the login.
LEMMA OwnersAreHere ==
  ASSUME Remembered, NEW arg
  PROVE  OwnersOf(arg) \subseteq {login}
BY DEF Remembered, OwnersOf

\* Starting a transfer adds nothing to what it relies on.
LEMMA StartXferKeeps ==
  ASSUME NEW owners, NEW pos, NEW once,
         StartXfer([Nothing EXCEPT !.owners = owners, !.pos = pos,
                                   !.once = once])
  PROVE  did'.owners = owners /\ did'.pos = pos /\ did'.once = once
BY DEF StartXfer, Nothing

\* Events of the data connections are no commands.
LEMMA EventsDoNothing ==
  ASSUME ListenerGone \/ Accept \/ XferDone
  PROVE  did' = Nothing
<1>1. ListenerGone => did' = Nothing
  BY DEF ListenerGone
<1>2. Accept => did' = Nothing
  BY DEF Accept
<1>3. XferDone => did' = Nothing
  BY DEF XferDone
<1> QED
  BY <1>1, <1>2, <1>3

LEMMA NextOwn == OwnInv /\ [Next]_vars => OwnInv'
<1> SUFFICES ASSUME OwnInv, [Next]_vars PROVE OwnInv'
  OBVIOUS
<1> USE DEF OwnInv
<1>1. CASE User
  BY <1>1 DEF User, places, Remembered, OwnState, Nothing
<1>2. CASE Pass
  BY <1>2, LoseAuthForgets DEF Pass, OwnState, Nothing
<1>3. CASE Rein
  BY <1>3, LoseAuthForgets DEF Rein, OwnState, Nothing
<1>4. CASE Quit
  BY <1>4, LoseAuthForgets DEF Quit, OwnState, Nothing
<1>5. ASSUME NEW pos \in Positions, Rest(pos) PROVE OwnInv'
  BY <1>5 DEF Rest, auth, Remembered, OwnState, Nothing
<1>6. ASSUME NEW arg \in Args, Cwd(arg) PROVE OwnInv'
  BY <1>6, OwnersAreHere DEF Cwd, auth, Remembered, OwnState, Nothing
<1>7. ASSUME NEW arg \in Args, Rnfr(arg) PROVE OwnInv'
  BY <1>7, OwnersAreHere DEF Rnfr, auth, Remembered, OwnState, Nothing
<1>8. ASSUME NEW arg \in Args, Rnto(arg) PROVE OwnInv'
  <2>1. did'.owners = OwnersOf(arg) \cup {from.of} /\ did'.pos = 0
    BY <1>8 DEF Rnto, Nothing
  <2>2. from.of = login
    BY <1>8 DEF Rnto, Remembered
  <2>3. UNCHANGED <<login, cwd, rest, fresh>> /\ from'.at = <<>>
    BY <1>8 DEF Rnto, auth, Home
  <2> QED
    BY <2>1, <2>2, <2>3, OwnersAreHere DEF Remembered, OwnState
<1>9. ASSUME NEW arg \in Args, NEW op \in {"unlink", "rmdir"},
             DeleteOne(op, arg)
      PROVE  OwnInv'
  <2>1. CASE Crash
    BY <2>1 DEF Crash, auth, places, Remembered, OwnState, Nothing
  <2>2. CASE ~ Crash
    <3>1. did'.owners = OwnersOf(arg) /\ did'.pos = 0
      BY <1>9, <2>2 DEF DeleteOne, Nothing
    <3>2. UNCHANGED <<login, cwd, rest, fresh, from>>
      BY <1>9, <2>2 DEF DeleteOne, auth, places
    <3> QED
      BY <3>1, <3>2, OwnersAreHere DEF Remembered, OwnState
  <2> QED
    BY <2>1, <2>2
<1>10. ASSUME NEW arg \in Args, Mkd(arg) PROVE OwnInv'
  <2>1. did'.owners = OwnersOf(arg) /\ did'.pos = 0
    BY <1>10 DEF Mkd, Nothing
  <2>2. UNCHANGED <<login, cwd, rest, fresh, from>>
    BY <1>10 DEF Mkd, auth, places
  <2> QED
    BY <2>1, <2>2, OwnersAreHere DEF Remembered, OwnState
<1>11. ASSUME NEW arg \in Args, NEW dir \in {"retrieve", "store"},
              FileXfer(dir, arg)
       PROVE  OwnInv'
  <2> DEFINE owners == OwnersOf(arg) \cup
                         (IF rest.pos = 0 THEN {} ELSE {rest.of})
  <2>1. owners \subseteq {login}
    BY OwnersAreHere DEF Remembered
  <2>2. UNCHANGED <<login, cwd, from>> /\ rest'.pos = 0
    BY <1>11 DEF FileXfer, TakeRestart, auth, Start
  <2>3. did'.owners = owners /\ did'.pos = rest.pos /\ did'.once = fresh
    <3>1. \/ StartXfer([Nothing EXCEPT !.owners = owners, !.pos = rest.pos,
                                       !.once = fresh])
          \/ did' = [Nothing EXCEPT !.owners = owners, !.pos = rest.pos,
                                    !.once = fresh]
      BY <1>11 DEF FileXfer
    <3> HIDE DEF owners
    <3>2. CASE StartXfer([Nothing EXCEPT !.owners = owners, !.pos = rest.pos,
                                         !.once = fresh])
      BY <3>2, StartXferKeeps
    <3>3. CASE did' = [Nothing EXCEPT !.owners = owners, !.pos = rest.pos,
                                      !.once = fresh]
      BY <3>3 DEF Nothing
    <3> QED
      BY <3>1, <3>2, <3>3
  <2> QED
    BY <2>1, <2>2, <2>3 DEF Remembered, OwnState
<1>12. ASSUME NEW arg \in Args, ListXfer(arg) PROVE OwnInv'
  <2>1. did'.owners = OwnersOf(arg) /\ did'.pos = 0
    BY <1>12 DEF ListXfer, StartXfer, Nothing
  <2>2. UNCHANGED <<login, cwd, rest, fresh, from>>
    BY <1>12 DEF ListXfer, auth, places
  <2> QED
    BY <2>1, <2>2, OwnersAreHere DEF Remembered, OwnState
<1>13. ASSUME NEW cmd \in {"PASV", "EPSV"}, PassiveOn(cmd) PROVE OwnInv'
  BY <1>13
  DEF PassiveOn, Crash, auth, places, Remembered, OwnState, Nothing
<1>14. ASSUME NEW a \in Addrs, NEW good \in BOOLEAN,
              Port(a, good) \/ Eprt(a, good)
       PROVE  OwnInv'
  <2>1. did'.owners = {} /\ did'.pos = 0
    BY <1>14 DEF Port, Eprt, Crash, Nothing
  <2>2. UNCHANGED <<login, cwd, rest, fresh, from>>
    BY <1>14 DEF Port, Eprt, Crash, auth, places
  <2> QED
    BY <2>1, <2>2 DEF Remembered, OwnState
<1>15. CASE ListenerGone \/ Accept \/ XferDone
  <2>1. did'.owners = {} /\ did'.pos = 0
    BY <1>15, EventsDoNothing DEF Nothing
  <2>2. UNCHANGED <<login, cwd, rest, fresh, from>>
    BY <1>15 DEF ListenerGone, Accept, XferDone, auth, places
  <2> QED
    BY <2>1, <2>2 DEF Remembered, OwnState
<1>16. CASE UNCHANGED vars
  BY <1>16 DEF vars, auth, places, Remembered, OwnState
<1> QED
  BY <1>1, <1>2, <1>3, <1>4, <1>5, <1>6, <1>7, <1>8, <1>9, <1>10, <1>11,
     <1>12, <1>13, <1>14, <1>15, <1>16
  DEF Next

\* However logins, failed logins, REIN and QUIT are mixed with commands that
\* fail half way, no command relies on what another login left, and no restart
\* position moves two transfers.
THEOREM StateIsOwn == Spec => []OwnState
<1>1. OwnInv => OwnState
  BY DEF OwnInv
<1> QED
  BY <1>1, InitOwn, NextOwn, PTL DEF Spec

-----------------------------------------------------------------------------
(* Where the data goes.                                                    *)

Told == [mode : {"active", "passive", "unsure"},
         addr : Addrs \cup {"own", "unsure"}]

\* What the client was told is so, as far as it can be sure of it.
ToldIsSo ==
  /\ told \in Told
  /\ xfer = "parked" => passive
  /\ told.mode = "passive" => passive
  /\ told.mode = "active" => ~ passive
  /\ told.addr # "unsure" => told.addr = addr

ChannelInv == ToldIsSo /\ DataGoesWhereTold

LEMMA InitChannel == Init => ChannelInv
BY DEF Init, ChannelInv, ToldIsSo, Told, DataGoesWhereTold, Nothing

\* A step that leaves the channel alone and opens no connection.
LEMMA ChannelUntouched ==
  ASSUME ChannelInv, UNCHANGED channel, did'.via = "none"
  PROVE  ChannelInv'
BY DEF ChannelInv, ToldIsSo, Told, DataGoesWhereTold, channel

\* A transfer is parked exactly when there is a listener, and goes to the
\* address there is otherwise.
LEMMA StartXferAsTold ==
  ASSUME ChannelInv, NEW effect, StartXfer(effect), effect.via = "none",
         "via" \in DOMAIN effect
  PROVE  ChannelInv'
<1>1. CASE UNCHANGED channel /\ did' = effect
  <2>1. did'.via = "none"
    BY <1>1
  <2> QED
    BY <1>1, <2>1, ChannelUntouched
<1>2. CASE /\ passive /\ xfer' = "parked"
           /\ did' = [effect EXCEPT !.via = "passive"]
           /\ UNCHANGED <<passive, addr, told>>
  <2>1. did'.via = "passive"
    BY <1>2
  <2> QED
    BY <1>2, <2>1 DEF ChannelInv, ToldIsSo, Told, DataGoesWhereTold
<1>3. CASE /\ ~ passive /\ xfer' = "moving"
           /\ did' = [effect EXCEPT !.via = addr]
           /\ UNCHANGED <<passive, addr, told>>
  <2>1. did'.via = addr
    BY <1>3
  <2> QED
    BY <1>3, <2>1 DEF ChannelInv, ToldIsSo, Told, DataGoesWhereTold
<1> QED
  BY <1>1, <1>2, <1>3 DEF StartXfer

LEMMA NextChannel == ChannelInv /\ [Next]_vars => ChannelInv'
<1> SUFFICES ASSUME ChannelInv, [Next]_vars PROVE ChannelInv'
  OBVIOUS
<1>1. CASE User \/ Pass \/ Rein \/ Quit
  <2>1. UNCHANGED channel /\ did'.via = "none"
    BY <1>1 DEF User, Pass, Rein, Quit, Nothing
  <2> QED
    BY <2>1, ChannelUntouched
<1>2. ASSUME NEW pos \in Positions, Rest(pos) PROVE ChannelInv'
  <2>1. UNCHANGED channel /\ did'.via = "none"
    BY <1>2 DEF Rest, Nothing
  <2> QED
    BY <2>1, ChannelUntouched
<1>3. ASSUME NEW arg \in Args,
             Cwd(arg) \/ Rnfr(arg) \/ Rnto(arg) \/ Mkd(arg)
      PROVE  ChannelInv'
  <2>1. UNCHANGED channel /\ did'.via = "none"
    BY <1>3 DEF Cwd, Rnfr, Rnto, Mkd, Nothing
  <2> QED
    BY <2>1, ChannelUntouched
<1>4. ASSUME NEW arg \in Args, NEW op \in {"unlink", "rmdir"},
             DeleteOne(op, arg)
      PROVE  ChannelInv'
  <2>1. UNCHANGED channel /\ did'.via = "none"
    BY <1>4 DEF DeleteOne, Crash, Nothing
  <2> QED
    BY <2>1, ChannelUntouched
<1>5. ASSUME NEW arg \in Args, NEW dir \in {"retrieve", "store"},
             FileXfer(dir, arg)
      PROVE  ChannelInv'
  <2> DEFINE owners == OwnersOf(arg) \cup
                         (IF rest.pos = 0 THEN {} ELSE {rest.of})
             effect == [Nothing EXCEPT !.owners = owners, !.pos = rest.pos,
                                       !.once = fresh]
  <2>1. \/ StartXfer(effect)
        \/ did' = effect /\ UNCHANGED channel
    BY <1>5 DEF FileXfer
  <2>2. CASE StartXfer(effect)
    <3>1. effect.via = "none" /\ "via" \in DOMAIN effect
      BY DEF Nothing
    <3> QED
      BY <2>2, <3>1, StartXferAsTold
  <2>3. CASE did' = effect /\ UNCHANGED channel
    <3>1. did'.via = "none"
      BY <2>3 DEF Nothing
    <3> QED
      BY <2>3, <3>1, ChannelUntouched
  <2> QED
    BY <2>1, <2>2, <2>3
<1>6. ASSUME NEW arg \in Args, ListXfer(arg) PROVE ChannelInv'
  <2> DEFINE effect == [Nothing EXCEPT !.owners = OwnersOf(arg)]
  <2>1. StartXfer(effect)
    BY <1>6 DEF ListXfer
  <2>2. effect.via = "none" /\ "via" \in DOMAIN effect
    BY DEF Nothing
  <2> QED
    BY <2>1, <2>2, StartXferAsTold
<1>7. ASSUME NEW cmd \in {"PASV", "EPSV"}, PassiveOn(cmd) PROVE ChannelInv'
  <2>1. CASE Crash
    <3>1. UNCHANGED channel /\ did'.via = "none"
      BY <2>1 DEF Crash, Nothing
    <3> QED
      BY <3>1, ChannelUntouched
  <2>2. CASE ~ OffCrashes
    BY <1>7, <2>2
    DEF PassiveOn, OffCrashes, ChannelInv, ToldIsSo, Told, DataGoesWhereTold,
        Nothing
  <2> QED
    BY <1>7, <2>1, <2>2 DEF PassiveOn
<1>8. ASSUME NEW a \in Addrs, NEW good \in BOOLEAN,
             Port(a, good) \/ Eprt(a, good)
      PROVE  ChannelInv'
  <2>1. CASE Crash
    <3>1. UNCHANGED channel /\ did'.via = "none"
      BY <2>1 DEF Crash, Nothing
    <3> QED
      BY <3>1, ChannelUntouched
  <2>2. CASE ~ OffCrashes
    BY <1>8, <2>2
    DEF Port, Eprt, OffCrashes, Active, Unsure, ChannelInv, ToldIsSo, Told,
        DataGoesWhereTold, Nothing
  <2> QED
    BY <1>8, <2>1, <2>2 DEF Port, Eprt
<1>9. CASE ListenerGone \/ Accept \/ XferDone
  <2>1. did'.via = "none"
    BY <1>9, EventsDoNothing DEF Nothing
  <2>2. CASE ListenerGone \/ Accept
    <3>1. told' = [told EXCEPT !.mode = "unsure"] /\ told \in Told
      BY <2>2 DEF ListenerGone, Accept, ChannelInv, ToldIsSo
    <3>2. told' \in Told /\ told'.mode = "unsure" /\ told'.addr = told.addr
      BY <3>1 DEF Told
    <3>3. addr' = addr /\ xfer' # "parked"
      BY <2>2 DEF ListenerGone, Accept
    <3> QED
      BY <2>1, <3>2, <3>3 DEF ChannelInv, ToldIsSo, DataGoesWhereTold
  <2>3. CASE XferDone /\ xfer = "parked"
    BY <2>1, <2>3
    DEF XferDone, ChannelInv, ToldIsSo, Told, DataGoesWhereTold
  <2>4. CASE XferDone /\ xfer # "parked"
    <3>1. told' = told
      BY <2>4 DEF XferDone, ChannelInv, ToldIsSo, Told
    <3> QED
      BY <2>1, <2>4, <3>1
      DEF XferDone, ChannelInv, ToldIsSo, Told, DataGoesWhereTold
  <2> QED
    BY <1>9, <2>2, <2>3, <2>4
<1>10. CASE UNCHANGED vars
  BY <1>10
  DEF vars, channel, ChannelInv, ToldIsSo, Told, DataGoesWhereTold
<1> QED
  BY <1>1, <1>2, <1>3, <1>4, <1>5, <1>6, <1>7, <1>8, <1>9, <1>10 DEF Next

\* A transfer goes where the client was told, whatever commands, failures,
\* logins and events of the data connections come in between.
THEOREM GoesWhereTold == Spec => []DataGoesWhereTold
<1>1. ChannelInv => DataGoesWhereTold
  BY DEF ChannelInv
<1> QED
  BY <1>1, InitChannel, NextChannel, PTL DEF Spec

-----------------------------------------------------------------------------
(* Induction, by the least number for which something does not hold.      *)

LEMMA LeastOf ==
  ASSUME NEW A \in SUBSET Nat, A # {}
  PROVE  \E n \in A : \A m \in A : n <= m
<1> DEFINE T == {0..n : n \in A}
           R == StrictSubsetOrdering(Nat)
           F == FiniteSubsetsOf(Nat)
<1>1. IsWellFoundedOn(R, F)
  BY FS_StrictSubsetOrderingWellFounded
<1>2. T \subseteq F /\ T # {}
  <2>1. \A n \in A : 0..n \in SUBSET Nat /\ IsFiniteSet(0..n)
    BY FS_Interval
  <2> QED
    BY <2>1 DEF FiniteSubsetsOf
<1> HIDE DEF R, F
<1>3. PICK x \in T : \A y \in T : ~ (<<y, x>> \in R)
  <2> HIDE DEF T
  <2> QED
    BY <1>1, <1>2, WFMin
<1>4. PICK n \in A : x = 0..n
  BY <1>3
<1>5. ASSUME NEW m \in A, ~ (n <= m)
      PROVE  FALSE
  <2>1. m \in Nat /\ n \in Nat /\ m < n
    BY <1>5
  <2>2. (0..m) \subseteq (0..n) /\ n \in 0..n /\ n \notin 0..m
    BY <2>1
  <2>3. 0..m \in SUBSET Nat /\ 0..n \in SUBSET Nat
    BY <2>1
  <2>4. <<0..m, 0..n>> \in R
    BY <2>2, <2>3 DEF R, StrictSubsetOrdering
  <2> QED
    BY <1>3, <1>4, <2>4
<1> QED
  BY <1>5

\* Induction, for a set of numbers in place of a predicate.
LEMMA Counting ==
  ASSUME NEW A, 0 \in A, \A n \in Nat : n \in A => n + 1 \in A
  PROVE  Nat \subseteq A
<1> SUFFICES ASSUME NEW n0 \in Nat, n0 \notin A PROVE FALSE
  OBVIOUS
<1> DEFINE B == {n \in Nat : n \notin A}
<1>1. B \in SUBSET Nat /\ B # {}
  OBVIOUS
<1>2. PICK n \in B : \A m \in B : n <= m
  <2> HIDE DEF B
  <2> QED BY <1>1, LeastOf
<1>3. n # 0 /\ n \in Nat
  BY <1>2
<1>4. n - 1 \in Nat /\ n - 1 \notin B /\ (n - 1) + 1 = n
  BY <1>2, <1>3
<1> QED
  BY <1>2, <1>4

-----------------------------------------------------------------------------
(* What an argument resolves to: by induction over its components.        *)

\* The names of things in a directory, and the paths that are made of them.
Real == STRING \ {"", ".", ".."}
Clean == Seq(Real)

LEMMA SequenceOf ==
  ASSUME NEW S, NEW s \in Seq(S)
  PROVE  /\ \A e \in S : Append(s, e) \in Seq(S)
         /\ s # <<>> => Front(s) \in Seq(S)
         /\ ToSet(s) \subseteq S
<1>1. s # <<>> => SubSeq(s, 1, Len(s) - 1) \in Seq(S)
  OBVIOUS
<1> QED
  BY <1>1 DEF Front, ToSet

\* Path::append_one adds no name that leads elsewhere.
LEMMA AppendOneClean ==
  ASSUME NEW path \in Clean, NEW name \in STRING
  PROVE  AppendOne(path, name) \in Clean
<1>1. CASE name \in {"", "."}
  BY <1>1 DEF AppendOne
<1>2. CASE name = ".." /\ path = <<>>
  BY <1>2 DEF AppendOne
<1>3. CASE name = ".." /\ path # <<>>
  <2>1. AppendOne(path, name) = Front(path)
    BY <1>3 DEF AppendOne
  <2> QED
    BY <1>3, <2>1, SequenceOf DEF Clean
<1>4. CASE name \notin {"", ".", ".."}
  <2>1. AppendOne(path, name) = Append(path, name)
    BY <1>4 DEF AppendOne
  <2>2. name \in Real
    BY <1>4 DEF Real
  <2>3. path \in Seq(Real)
    BY DEF Clean
  <2>4. Append(path, name) \in Seq(Real)
    BY <2>2, <2>3, SequenceOf
  <2> QED
    BY <2>1, <2>4 DEF Clean
<1> QED
  BY <1>1, <1>2, <1>3, <1>4

\* The function by which FoldLeft is defined, for the names of an argument.
Recurs(g, parts, base, S) ==
  g = [s \in SUBSET S |->
         IF s = {} THEN base ELSE AppendOne(g[s \ {Max(s)}], parts[Max(s)])]

LEMMA MaxOfInterval ==
  ASSUME NEW n \in Nat, NEW s \in SUBSET (1..(n + 1)), n + 1 \in s
  PROVE  Max(s) = n + 1
<1>1. n + 1 \in s /\ \A y \in s : n + 1 >= y
  OBVIOUS
<1>2. Max(s) \in s /\ \A y \in s : Max(s) >= y
  BY <1>1 DEF Max
<1>3. Max(s) \in 1..(n + 1) /\ Max(s) >= n + 1
  BY <1>1, <1>2
<1> QED
  BY <1>3

LEMMA FoldExists ==
  ASSUME NEW parts \in Seq(STRING), NEW base
  PROVE  \E g : Recurs(g, parts, base, 1..Len(parts))
<1> DEFINE A == {n \in Nat : \E g : Recurs(g, parts, base, 1..n)}
<1>1. 0 \in A
  <2> DEFINE g == [s \in SUBSET (1..0) |-> base]
  <2>1. \A s \in SUBSET (1..0) : s = {}
    OBVIOUS
  <2>2. Recurs(g, parts, base, 1..0)
    BY <2>1 DEF Recurs
  <2> QED
    BY <2>2
<1>2. ASSUME NEW n \in Nat, n \in A
      PROVE  n + 1 \in A
  <2>1. PICK g : Recurs(g, parts, base, 1..n)
    BY <1>2
  <2> DEFINE h == [s \in SUBSET (1..(n + 1)) |->
                     IF n + 1 \in s
                     THEN AppendOne(g[s \ {n + 1}], parts[n + 1])
                     ELSE g[s]]
             step(f, s) == IF s = {} THEN base
                           ELSE AppendOne(f[s \ {Max(s)}], parts[Max(s)])
  <2>2. ASSUME NEW s \in SUBSET (1..(n + 1)), n + 1 \in s
        PROVE  h[s] = step(h, s)
    <3>1. Max(s) = n + 1
      BY <2>2, MaxOfInterval
    <3>2. s \ {n + 1} \in SUBSET (1..(n + 1)) /\ n + 1 \notin s \ {n + 1}
      OBVIOUS
    <3>3. h[s \ {n + 1}] = g[s \ {n + 1}]
      BY <3>2
    <3> QED
      BY <2>2, <3>1, <3>3
  <2>3. ASSUME NEW s \in SUBSET (1..(n + 1)), n + 1 \notin s
        PROVE  h[s] = step(h, s)
    <3>1. s \in SUBSET (1..n)
      BY <2>3
    <3>2. h[s] = g[s]
      BY <2>3
    <3>3. g[s] = step(g, s)
      BY <2>1, <3>1 DEF Recurs
    <3>4. s \ {Max(s)} \in SUBSET (1..(n + 1)) /\ n + 1 \notin s \ {Max(s)}
      BY <2>3
    <3>5. h[s \ {Max(s)}] = g[s \ {Max(s)}]
      BY <3>4
    <3> QED
      BY <3>2, <3>3, <3>5
  <2>4. \A s \in SUBSET (1..(n + 1)) : h[s] = step(h, s)
    BY <2>2, <2>3
  <2>5. h = [s \in SUBSET (1..(n + 1)) |-> h[s]]
    OBVIOUS
  <2> HIDE DEF h
  <2>6. Recurs(h, parts, base, 1..(n + 1))
    BY <2>4, <2>5 DEF Recurs
  <2> QED
    BY <2>6
<1> HIDE DEF A
<1>3. Nat \subseteq A
  BY <1>1, <1>2, Counting
<1>4. Len(parts) \in Nat
  OBVIOUS
<1> QED
  BY <1>3, <1>4 DEF A

\* A path that is free of such names stays so whatever is resolved in it.
LEMMA ChdirClean ==
  ASSUME NEW path \in Clean,
         NEW arg \in [absolute : BOOLEAN, parts : Seq(STRING)]
  PROVE  Chdir(path, arg) \in Clean
<1> DEFINE parts == arg.parts
           base == IF arg.absolute THEN <<>> ELSE path
           S == 1..Len(parts)
           iter == CHOOSE g : Recurs(g, parts, base, S)
           A == {n \in Nat : n <= Len(parts) => iter[1..n] \in Clean}
<1>1. parts \in Seq(STRING) /\ Len(parts) \in Nat /\ DOMAIN parts = S
  OBVIOUS
<1>2. base \in Clean
  <2>1. <<>> \in Clean
    BY DEF Clean
  <2> QED
    BY <2>1
<1>3. Chdir(path, arg) = iter[S]
  BY <1>1 DEF Chdir, FoldLeft, MapThenFoldSet, Recurs
<1> HIDE DEF parts, base
<1>4. Recurs(iter, parts, base, S)
  BY <1>1, FoldExists
<1> HIDE DEF iter
<1>5. 0 \in A
  <2>1. 1..0 = {} /\ {} \in SUBSET S
    OBVIOUS
  <2>2. iter[{}] = base
    BY <1>4, <2>1 DEF Recurs
  <2> QED
    BY <1>2, <2>1, <2>2
<1>6. ASSUME NEW n \in Nat, n \in A
      PROVE  n + 1 \in A
  <2>1. SUFFICES ASSUME n + 1 <= Len(parts) PROVE iter[1..(n + 1)] \in Clean
    OBVIOUS
  <2>2. iter[1..n] \in Clean
    BY <1>1, <1>6, <2>1
  <2>3. 1..(n + 1) \in SUBSET S /\ n + 1 \in 1..(n + 1)
    BY <1>1, <2>1
  <2>4. Max(1..(n + 1)) = n + 1
    BY MaxOfInterval
  <2>5. (1..(n + 1)) \ {n + 1} = 1..n /\ 1..(n + 1) # {}
    <3>1. \A x : x \in (1..(n + 1)) \ {n + 1} <=> x \in 1..n
      OBVIOUS
    <3> QED
      BY <3>1, <2>3
  <2>6. iter[1..(n + 1)] = AppendOne(iter[1..n], parts[n + 1])
    BY <1>4, <2>3, <2>4, <2>5 DEF Recurs
  <2>7. parts[n + 1] \in STRING
    BY <1>1, <2>1
  <2> QED
    BY <2>2, <2>6, <2>7, AppendOneClean
<1> HIDE DEF A
<1>7. Nat \subseteq A
  BY <1>5, <1>6, Counting
<1>8. Len(parts) \in A
  BY <1>1, <1>7
<1> QED
  BY <1>1, <1>3, <1>8 DEF A

-----------------------------------------------------------------------------
(* What a change of the files makes of a tree.                             *)

\* The files of a tree, whose paths are sequences over S.
Grounded(disk, S) ==
  /\ DOMAIN disk \subseteq Seq(S)
  /\ \A p \in DOMAIN disk : disk[p] \in Nodes
  /\ Rooted(disk)

LEMMA PrefixPoints ==
  ASSUME NEW S, NEW s \in Seq(S), NEW t \in Seq(S)
  PROVE  IsPrefix(s, t) <=> /\ Len(s) <= Len(t)
                            /\ \A i \in 1..Len(s) : s[i] = t[i]
<1>1. \A i \in 1..Len(s) : s[i] \in S
  OBVIOUS
<1>2. CASE Len(s) <= Len(t)
  <2> DEFINE a == SubSeq(s, 1, Len(s))
             b == SubSeq(t, 1, Len(s))
  <2>1. a \in Seq(S) /\ Len(a) = Len(s) /\ \A i \in 1..Len(s) : a[i] = s[i]
    BY <1>1
  <2>2. \A i \in 1..Len(s) : t[i] \in S
    BY <1>2
  <2>3. b \in Seq(S) /\ Len(b) = Len(s) /\ \A i \in 1..Len(s) : b[i] = t[i]
    BY <1>2, <2>2
  <2> HIDE DEF a, b
  <2>4. a = b <=> \A i \in 1..Len(s) : a[i] = b[i]
    BY <2>1, <2>3
  <2> QED
    BY <1>2, <2>1, <2>3, <2>4 DEF IsPrefix, a, b
<1>3. CASE ~ (Len(s) <= Len(t))
  BY <1>3 DEF IsPrefix
<1> QED
  BY <1>2, <1>3

LEMMA SamePath ==
  ASSUME NEW S, NEW s \in Seq(S), NEW t \in Seq(S), Len(s) = Len(t),
         \A i \in 1..Len(s) : s[i] = t[i]
  PROVE  s = t
OBVIOUS

\* The first n names of a path.
LEMMA FirstNames ==
  ASSUME NEW S, NEW s \in Seq(S), NEW n \in 0..Len(s)
  PROVE  /\ SubSeq(s, 1, n) \in Seq(S) /\ Len(SubSeq(s, 1, n)) = n
         /\ \A i \in 1..n : SubSeq(s, 1, n)[i] = s[i]
<1>1. \A i \in 1..n : s[i] \in S
  OBVIOUS
<1> QED
  BY <1>1

\* Being below is being in a directory, or in a directory below it.
LEMMA Ancestors ==
  ASSUME NEW S, NEW disk, DOMAIN disk \subseteq Seq(S)
  PROVE  Rooted(disk) <=>
           \A p \in DOMAIN disk, q \in Seq(S) :
             IsStrictPrefix(q, p) => MayHold(disk, q)
<1>1. ASSUME Rooted(disk), NEW p \in DOMAIN disk, NEW q \in Seq(S),
             IsStrictPrefix(q, p)
      PROVE  MayHold(disk, q)
  <2>1. p \in Seq(S) /\ Len(p) \in Nat /\ Len(q) \in Nat
    BY <1>1
  <2>2. IsPrefix(q, p) /\ q # p
    BY <1>1 DEF IsStrictPrefix
  <2>3. Len(q) <= Len(p) /\ \A i \in 1..Len(q) : q[i] = p[i]
    BY <2>1, <2>2, PrefixPoints
  <2>4. Len(q) # Len(p)
    BY <2>1, <2>2, <2>3, SamePath
  <2>5. Len(q) \in 0 .. Len(p) - 1
    BY <2>1, <2>3, <2>4
  <2>6. SubSeq(p, 1, Len(q)) = q
    <3>1. Len(q) \in 0..Len(p)
      BY <2>1, <2>3
    <3> QED
      BY <2>1, <2>3, <3>1, FirstNames, SamePath
  <2> QED
    BY <1>1, <2>5, <2>6 DEF Rooted
<1>2. ASSUME \A p \in DOMAIN disk, q \in Seq(S) :
               IsStrictPrefix(q, p) => MayHold(disk, q),
             NEW p \in DOMAIN disk, NEW n \in 0 .. Len(p) - 1
      PROVE  MayHold(disk, SubSeq(p, 1, n))
  <2> DEFINE q == SubSeq(p, 1, n)
  <2>1. p \in Seq(S) /\ Len(p) \in Nat
    BY <1>2
  <2>2. q \in Seq(S) /\ Len(q) = n /\ \A i \in 1..n : q[i] = p[i]
    BY <2>1, FirstNames
  <2> HIDE DEF q
  <2>3. IsPrefix(q, p)
    BY <2>1, <2>2, PrefixPoints
  <2>4. q # p
    BY <2>1, <2>2
  <2>5. MayHold(disk, q)
    BY <1>2, <2>2, <2>3, <2>4 DEF IsStrictPrefix
  <2> QED
    BY <2>5 DEF q
<1> QED
  BY <1>1, <1>2 DEF Rooted

\* What is below an entry of the parent is below the parent, or the entry.
LEMMA BelowParent ==
  ASSUME NEW S, NEW s \in Seq(S), s # <<>>, NEW q \in Seq(S),
         IsStrictPrefix(q, s)
  PROVE  /\ Parent(s) \in Seq(S)
         /\ q = Parent(s) \/ IsStrictPrefix(q, Parent(s))
<1> DEFINE f == SubSeq(s, 1, Len(s) - 1)
<1>1. Len(s) \in Nat /\ Len(s) # 0 /\ Len(s) - 1 \in 0..Len(s)
  OBVIOUS
<1>2. f \in Seq(S) /\ Len(f) = Len(s) - 1
      /\ \A i \in 1..(Len(s) - 1) : f[i] = s[i]
  BY <1>1, FirstNames
<1>3. Parent(s) = f
  BY DEF Parent, Front
<1> HIDE DEF f
<1>4. IsPrefix(q, s) /\ q # s
  BY DEF IsStrictPrefix
<1>5. Len(q) \in Nat /\ Len(q) <= Len(s) /\ \A i \in 1..Len(q) : q[i] = s[i]
  BY <1>4, PrefixPoints
<1>6. Len(q) # Len(s)
  BY <1>4, <1>5, SamePath
<1>7. Len(q) <= Len(f) /\ \A i \in 1..Len(q) : q[i] = f[i]
  BY <1>1, <1>2, <1>5, <1>6
<1>8. IsPrefix(q, f)
  BY <1>2, <1>7, PrefixPoints
<1> QED
  BY <1>2, <1>3, <1>8 DEF IsStrictPrefix

\* What is removed held nothing.
LEMMA WithoutGrounded ==
  ASSUME NEW S, NEW disk, Grounded(disk, S), NEW path \in DOMAIN disk,
         CanUnlink(disk, path) \/ CanRmdir(disk, path)
  PROVE  Grounded(Without(disk, path), S)
<1> DEFINE T == Without(disk, path)
<1>1. /\ DOMAIN T = DOMAIN disk \ {path}
      /\ \A p \in DOMAIN T : T[p] = disk[p]
  BY DEF Without
<1>2. \A p \in DOMAIN disk, q \in Seq(S) :
        IsStrictPrefix(q, p) => MayHold(disk, q)
  BY Ancestors DEF Grounded
<1>3. \A p \in DOMAIN disk : ~ IsStrictPrefix(path, p)
  <2>1. CASE CanUnlink(disk, path)
    <3>1. disk[path].kind # "dir" /\ path \in Seq(S)
      BY <2>1 DEF CanUnlink, Grounded
    <3> QED
      BY <1>2, <3>1 DEF MayHold, Exists
  <2>2. CASE CanRmdir(disk, path)
    BY <2>2 DEF CanRmdir, Below
  <2> QED
    BY <2>1, <2>2
<1> HIDE DEF T
<1>4. DOMAIN T \subseteq Seq(S) /\ \A p \in DOMAIN T : T[p] \in Nodes
  BY <1>1 DEF Grounded
<1>5. \A p \in DOMAIN T, q \in Seq(S) :
        IsStrictPrefix(q, p) => MayHold(T, q)
  BY <1>1, <1>2, <1>3 DEF MayHold, Exists
<1> QED
  BY <1>4, <1>5, Ancestors DEF Grounded, T

\* What is added is added to a directory.
LEMMA WithGrounded ==
  ASSUME NEW S, NEW disk, Grounded(disk, S), NEW path \in Seq(S),
         ~ Exists(disk, path), MayCreate(disk, path),
         NEW sort \in {"dir", "file"}
  PROVE  Grounded(With(disk, path, NewNode(sort)), S)
<1> DEFINE T == With(disk, path, NewNode(sort))
<1>1. /\ DOMAIN T = DOMAIN disk \cup {path}
      /\ \A p \in DOMAIN disk : T[p] = disk[p]
      /\ T[path] \in Nodes
  BY DEF With, NewNode, Nodes, Exists
<1>2. \A p \in DOMAIN disk, q \in Seq(S) :
        IsStrictPrefix(q, p) => MayHold(disk, q)
  BY Ancestors DEF Grounded
<1> HIDE DEF T
<1>3. DOMAIN T \subseteq Seq(S) /\ \A p \in DOMAIN T : T[p] \in Nodes
  BY <1>1 DEF Grounded
<1>4. \A q : MayHold(disk, q) => MayHold(T, q)
  BY <1>1 DEF MayHold, Exists
<1>5. path # <<>> /\ Parent(path) \in DOMAIN disk
      /\ MayHold(disk, Parent(path))
  BY DEF MayCreate, MayWriteDir, Exists, MayHold
<1>6. \A q \in Seq(S) : IsStrictPrefix(q, path) => MayHold(disk, q)
  BY <1>2, <1>5, BelowParent
<1>7. \A p \in DOMAIN T, q \in Seq(S) :
        IsStrictPrefix(q, p) => MayHold(T, q)
  BY <1>1, <1>2, <1>4, <1>6
<1> QED
  BY <1>3, <1>7, Ancestors DEF Grounded, T

LEMMA Concatenated ==
  ASSUME NEW S, NEW s \in Seq(S), NEW t \in Seq(S)
  PROVE  /\ s \o t \in Seq(S) /\ Len(s \o t) = Len(s) + Len(t)
         /\ \A i \in 1..Len(s) : (s \o t)[i] = s[i]
         /\ \A i \in 1..Len(t) : (s \o t)[Len(s) + i] = t[i]
OBVIOUS

\* Where a rename moves what is below its source.
IsMoved(m, p, src, to, S) ==
  /\ m \in Seq(S)
  /\ Len(m) = Len(to) + (Len(p) - Len(src))
  /\ \A i \in 1..Len(to) : m[i] = to[i]
  /\ \A i \in 1..(Len(p) - Len(src)) : m[Len(to) + i] = p[Len(src) + i]

LEMMA MovedPoints ==
  ASSUME NEW S, NEW src \in Seq(S), NEW to \in Seq(S), NEW p \in Seq(S),
         IsPrefix(src, p)
  PROVE  IsMoved(Moved(p, src, to), p, src, to, S)
<1> DEFINE t == SubSeq(p, Len(src) + 1, Len(p))
<1>1. Len(src) \in Nat /\ Len(p) \in Nat /\ Len(src) <= Len(p)
  BY DEF IsPrefix
<1>2. \A i \in (Len(src) + 1)..Len(p) : p[i] \in S
  BY <1>1
<1>3. t \in Seq(S) /\ Len(t) = Len(p) - Len(src)
      /\ \A i \in 1..(Len(p) - Len(src)) : t[i] = p[Len(src) + i]
  BY <1>1, <1>2
<1>4. Moved(p, src, to) = to \o t
  BY DEF Moved
<1> HIDE DEF t
<1>5. t \in Seq(S)
  BY <1>3
<1>6. /\ to \o t \in Seq(S) /\ Len(to \o t) = Len(to) + Len(t)
      /\ \A i \in 1..Len(to) : (to \o t)[i] = to[i]
      /\ \A i \in 1..Len(t) : (to \o t)[Len(to) + i] = t[i]
  BY <1>5, Concatenated
<1> QED
  BY <1>3, <1>4, <1>6 DEF IsMoved

\* A path that is below another is below what that is below.
LEMMA PrefixTrans ==
  ASSUME NEW S, NEW r \in Seq(S), NEW s \in Seq(S), NEW t \in Seq(S),
         IsPrefix(r, s), IsPrefix(s, t)
  PROVE  IsPrefix(r, t) /\ (r # s => r # t)
<1>1. /\ Len(r) <= Len(s) /\ \A i \in 1..Len(r) : r[i] = s[i]
      /\ Len(s) <= Len(t) /\ \A i \in 1..Len(s) : s[i] = t[i]
  BY PrefixPoints
<1>2. Len(r) <= Len(t) /\ \A i \in 1..Len(r) : r[i] = t[i]
  BY <1>1
<1>3. ASSUME r = t PROVE r = s
  BY <1>1, <1>3, SamePath
<1> QED
  BY <1>2, <1>3, PrefixPoints

\* Two nodes that were below the source are not moved to the same place.
LEMMA MovedApart ==
  ASSUME NEW S, NEW src \in Seq(S), NEW to \in Seq(S), NEW p \in Seq(S),
         NEW q \in Seq(S), IsPrefix(src, p), IsPrefix(src, q)
  PROVE  Moved(p, src, to) = Moved(q, src, to) => p = q
<1>1. /\ Len(p) \in Nat /\ Len(q) \in Nat /\ Len(src) \in Nat
      /\ Len(to) \in Nat /\ Len(src) <= Len(p)
  BY DEF IsPrefix
<1>2. PICK m : m = Moved(p, src, to) /\ IsMoved(m, p, src, to, S)
  BY MovedPoints
<1>3. /\ Len(m) = Len(to) + (Len(p) - Len(src))
      /\ \A i \in 1..(Len(p) - Len(src)) :
           m[Len(to) + i] = p[Len(src) + i]
  BY <1>2 DEF IsMoved
<1>4. PICK n : n = Moved(q, src, to) /\ IsMoved(n, q, src, to, S)
  BY MovedPoints
<1>5. /\ Len(n) = Len(to) + (Len(q) - Len(src))
      /\ \A i \in 1..(Len(q) - Len(src)) :
           n[Len(to) + i] = q[Len(src) + i]
  BY <1>4 DEF IsMoved
<1>6. \A i \in 1..Len(src) : p[i] = q[i]
  BY PrefixPoints
<1>7. SUFFICES ASSUME m = n PROVE p = q
  BY <1>2, <1>4
<1>8. Len(p) = Len(q)
  BY <1>1, <1>3, <1>5, <1>7
<1>9. ASSUME NEW i \in 1..Len(p)
      PROVE  p[i] = q[i]
  <2>1. CASE i \in 1..Len(src)
    BY <1>6, <2>1
  <2>2. CASE i \notin 1..Len(src)
    <3>1. i - Len(src) \in 1..(Len(p) - Len(src))
      BY <1>1, <2>2
    <3>2. Len(src) + (i - Len(src)) = i
      BY <1>1
    <3> QED
      BY <1>3, <1>5, <1>7, <1>8, <3>1, <3>2
  <2> QED
    BY <2>1, <2>2
<1> QED
  BY <1>8, <1>9, SamePath

\* A rename of something to itself moves nothing.
LEMMA MovedNowhere ==
  ASSUME NEW S, NEW s \in Seq(S), NEW p \in Seq(S), IsPrefix(s, p)
  PROVE  Moved(p, s, s) = p
<1>1. Len(p) \in Nat /\ Len(s) \in Nat
  OBVIOUS
<1>2. PICK m : m = Moved(p, s, s) /\ IsMoved(m, p, s, s, S)
  BY MovedPoints
<1>3. /\ m \in Seq(S) /\ Len(m) = Len(s) + (Len(p) - Len(s))
      /\ \A i \in 1..Len(s) : m[i] = s[i]
      /\ \A i \in 1..(Len(p) - Len(s)) : m[Len(s) + i] = p[Len(s) + i]
  BY <1>2 DEF IsMoved
<1>4. \A i \in 1..Len(s) : s[i] = p[i]
  BY PrefixPoints
<1>5. Len(m) = Len(p)
  BY <1>1, <1>3
<1>6. ASSUME NEW i \in 1..Len(p)
      PROVE  m[i] = p[i]
  <2>1. CASE i \in 1..Len(s)
    BY <1>3, <1>4, <2>1
  <2>2. CASE i \notin 1..Len(s)
    <3>1. i - Len(s) \in 1..(Len(p) - Len(s)) /\ Len(s) + (i - Len(s)) = i
      BY <1>1, <2>2
    <3> QED
      BY <1>3, <3>1
  <2> QED
    BY <2>1, <2>2
<1> QED
  BY <1>2, <1>3, <1>5, <1>6, SamePath

\* What is above the new place of a node, and not above the target, is the
\* new place of something that was above the node.
LEMMA MovedAbove ==
  ASSUME NEW S, NEW src \in Seq(S), NEW to \in Seq(S), NEW p \in Seq(S),
         IsPrefix(src, p), NEW r \in Seq(S),
         IsStrictPrefix(r, Moved(p, src, to)), ~ IsStrictPrefix(r, to)
  PROVE  \E s \in Seq(S) : /\ IsStrictPrefix(s, p) /\ IsPrefix(src, s)
                           /\ Moved(s, src, to) = r
<1>1. /\ Len(r) \in Nat /\ Len(to) \in Nat /\ Len(src) \in Nat
      /\ Len(p) \in Nat /\ Len(src) <= Len(p)
  BY DEF IsPrefix
<1>2. PICK q : q = Moved(p, src, to) /\ IsMoved(q, p, src, to, S)
  BY MovedPoints
<1>3. /\ q \in Seq(S) /\ Len(q) = Len(to) + (Len(p) - Len(src))
      /\ \A i \in 1..Len(to) : q[i] = to[i]
      /\ \A i \in 1..(Len(p) - Len(src)) :
           q[Len(to) + i] = p[Len(src) + i]
  BY <1>2 DEF IsMoved
<1>4. IsPrefix(r, q) /\ r # q
  BY <1>2 DEF IsStrictPrefix
<1>5. Len(r) <= Len(q) /\ \A i \in 1..Len(r) : r[i] = q[i]
  BY <1>3, <1>4, PrefixPoints
<1>6. Len(r) # Len(q)
  BY <1>3, <1>4, <1>5, SamePath
<1>7. Len(to) <= Len(r)
  <2>1. SUFFICES ASSUME Len(r) < Len(to) PROVE FALSE
    BY <1>1
  <2>2. \A i \in 1..Len(r) : r[i] = to[i]
    BY <1>1, <1>3, <1>5, <2>1
  <2>3. IsPrefix(r, to)
    BY <1>1, <2>1, <2>2, PrefixPoints
  <2> QED
    BY <1>1, <2>1, <2>3 DEF IsStrictPrefix
<1>8a. Len(src) + (Len(r) - Len(to)) \in Nat
  BY <1>1, <1>7
<1>8. PICK k \in Nat : k = Len(src) + (Len(r) - Len(to))
  BY <1>8a
<1>9. k \in 0..Len(p) /\ k < Len(p) /\ Len(src) <= k
  <2>1. Len(r) < Len(to) + (Len(p) - Len(src))
    <3>1. Len(r) <= Len(q)
      BY <1>5
    <3>2. Len(q) \in Nat /\ Len(r) \in Nat
      BY <1>3
    <3>3. Len(r) < Len(q)
      BY <1>6, <3>1, <3>2
    <3> QED
      BY <1>3, <3>3
  <2>2. /\ Len(src) + (Len(r) - Len(to)) < Len(p)
        /\ Len(src) <= Len(src) + (Len(r) - Len(to))
    BY <1>1, <1>7, <2>1
  <2> QED
    BY <1>1, <1>8, <2>2
<1>10. PICK s : s = SubSeq(p, 1, k)
  OBVIOUS
<1>11. s \in Seq(S) /\ Len(s) = k /\ \A i \in 1..k : s[i] = p[i]
  BY <1>9, <1>10, FirstNames
<1>12. IsStrictPrefix(s, p)
  <2>1. IsPrefix(s, p)
    BY <1>9, <1>11, PrefixPoints
  <2> QED
    BY <1>9, <1>11, <2>1 DEF IsStrictPrefix
<1>13. IsPrefix(src, s)
  <2>1. \A i \in 1..Len(src) : src[i] = p[i]
    BY PrefixPoints
  <2>2. \A i \in 1..Len(src) : src[i] = s[i]
    BY <1>1, <1>9, <1>11, <2>1
  <2> QED
    BY <1>9, <1>11, <2>2, PrefixPoints
<1>14. PICK m : m = Moved(s, src, to) /\ IsMoved(m, s, src, to, S)
  BY <1>11, <1>13, MovedPoints
<1>15. /\ m \in Seq(S) /\ Len(m) = Len(to) + (Len(s) - Len(src))
       /\ \A i \in 1..Len(to) : m[i] = to[i]
       /\ \A i \in 1..(Len(s) - Len(src)) :
            m[Len(to) + i] = s[Len(src) + i]
  BY <1>14 DEF IsMoved
<1>16. Len(m) = Len(r)
  BY <1>1, <1>8, <1>11, <1>15
<1>17. ASSUME NEW i \in 1..Len(r)
       PROVE  m[i] = r[i]
  <2>1. CASE i \in 1..Len(to)
    BY <1>3, <1>5, <1>15, <2>1
  <2>2. CASE i \notin 1..Len(to)
    <3>1a. i - Len(to) \in Nat
      BY <1>1, <2>2
    <3>1. PICK j \in Nat : j = i - Len(to)
      BY <3>1a
    <3>2. /\ j \in 1..(Len(s) - Len(src)) /\ j \in 1..(Len(p) - Len(src))
          /\ Len(to) + j = i /\ Len(src) + j \in 1..k
      BY <1>1, <1>8, <1>9, <1>11, <2>2, <3>1
    <3>3. m[i] = s[Len(src) + j]
      BY <1>15, <3>2
    <3>4. q[i] = p[Len(src) + j]
      BY <1>3, <3>2
    <3> QED
      BY <1>5, <1>11, <3>2, <3>3, <3>4
  <2> QED
    BY <2>1, <2>2
<1>18. m = r
  BY <1>15, <1>16, <1>17, SamePath
<1> QED
  BY <1>11, <1>12, <1>13, <1>14, <1>18

\* A rename that rename(2) does keeps the files a disk, and moves only what
\* is at or below its source and what was at its target.
LEMMA RenameGrounded ==
  ASSUME NEW S, NEW disk, Grounded(disk, S),
         NEW src \in Seq(S), NEW to \in Seq(S),
         MayDelete(disk, src), MayCreate(disk, to), CanRename(disk, src, to)
  PROVE  /\ Grounded(Rename(disk, src, to), S)
         /\ \A p \in DOMAIN disk :
              ~ IsPrefix(src, p) /\ p # to
                => /\ p \in DOMAIN Rename(disk, src, to)
                   /\ Rename(disk, src, to)[p] = disk[p]
<1> DEFINE T == Rename(disk, src, to)
           stay == IF src = to THEN DOMAIN disk ELSE DOMAIN disk \ {to}
           M(p) == Moved(p, src, to)
<1>0. stay \subseteq DOMAIN disk
  OBVIOUS
<1>1. \A p \in DOMAIN disk, q \in Seq(S) :
        IsStrictPrefix(q, p) => MayHold(disk, q)
  BY Ancestors DEF Grounded
<1>2. /\ src \in DOMAIN disk /\ to # <<>>
      /\ Parent(to) \in DOMAIN disk /\ MayHold(disk, Parent(to))
      /\ ~ IsStrictPrefix(src, to)
  BY DEF MayDelete, MayCreate, MayWriteDir, Exists, MayHold, CanRename
<1>3. DOMAIN disk \subseteq Seq(S) /\ \A p \in DOMAIN disk : disk[p] \in Nodes
  BY DEF Grounded
<1>4. \A p \in stay : ~ IsPrefix(src, p) => M(p) = p
  BY DEF Moved
<1>5. ASSUME src # to, NEW p \in DOMAIN disk
      PROVE  ~ IsStrictPrefix(to, p)
  <2>1. SUFFICES ASSUME IsStrictPrefix(to, p) PROVE FALSE
    OBVIOUS
  <2>2. to \in DOMAIN disk
    BY <1>1, <2>1 DEF MayHold, Exists
  <2>3. Below(disk, to) = {}
    BY <1>5, <2>2 DEF CanRename, Exists
  <2> QED
    BY <2>1, <2>3 DEF Below
<1>6. ASSUME NEW p \in stay, IsPrefix(src, p)
      PROVE  M(p) \in Seq(S) /\ IsPrefix(to, M(p))
  <2>1. /\ M(p) \in Seq(S)
        /\ Len(M(p)) = Len(to) + (Len(p) - Len(src))
        /\ \A i \in 1..Len(to) : M(p)[i] = to[i]
    BY <1>3, <1>6, MovedPoints DEF IsMoved
  <2>2. Len(src) <= Len(p) /\ Len(p) \in Nat /\ Len(src) \in Nat
        /\ Len(to) \in Nat
    BY <1>3, <1>6 DEF IsPrefix
  <2>3. Len(to) <= Len(M(p))
    BY <2>1, <2>2
  <2> QED
    BY <2>1, <2>3, PrefixPoints
<1>7. ASSUME NEW p \in stay, NEW q \in stay, M(p) = M(q)
      PROVE  p = q
  <2>1. CASE IsPrefix(src, p) /\ IsPrefix(src, q)
    BY <1>3, <1>7, <1>0, <2>1, MovedApart
  <2>2. CASE ~ IsPrefix(src, p) /\ ~ IsPrefix(src, q)
    BY <1>4, <1>7, <2>2
  <2>3. ASSUME NEW a \in stay, NEW b \in stay, ~ IsPrefix(src, a),
               IsPrefix(src, b), M(a) = M(b)
        PROVE  FALSE
    <3>1. a = M(b) /\ IsPrefix(to, a)
      BY <1>4, <1>6, <2>3
    <3>2. src # to
      BY <2>3, <3>1
    <3>3. a # to /\ a \in DOMAIN disk
      BY <3>2
    <3> QED
      BY <1>5, <3>1, <3>2, <3>3 DEF IsStrictPrefix
  <2> QED
    BY <1>7, <2>1, <2>2, <2>3
<1>8. /\ DOMAIN T = {M(p) : p \in stay}
      /\ \A p \in stay : T[M(p)] = disk[p]
  <2>1. T = [q \in {M(p) : p \in stay} |->
               disk[CHOOSE p \in stay : M(p) = q]]
    BY DEF Rename
  <2>2. ASSUME NEW p \in stay
        PROVE  (CHOOSE r \in stay : M(r) = M(p)) = p
    <3> HIDE DEF M, stay
    <3>1. \E r \in stay : M(r) = M(p)
      OBVIOUS
    <3>2. PICK r : r = CHOOSE x \in stay : M(x) = M(p)
      OBVIOUS
    <3>3. r \in stay /\ M(r) = M(p)
      BY <3>1, <3>2
    <3> QED
      BY <1>7, <3>2, <3>3
  <2> HIDE DEF T, M, stay
  <2> QED
    BY <2>1, <2>2
<1> HIDE DEF T
<1>9. \A q \in DOMAIN T : \E p \in stay : q = M(p) /\ T[q] = disk[p]
  <2> HIDE DEF M, stay
  <2> QED
    BY <1>8
<1>11. ASSUME NEW q \in DOMAIN T
       PROVE  q \in Seq(S) /\ T[q] \in Nodes
  <2>1. PICK p \in stay : q = M(p) /\ T[q] = disk[p]
    BY <1>9
  <2>2. p \in DOMAIN disk
    BY <1>0
  <2>3. CASE IsPrefix(src, p)
    BY <1>3, <1>6, <2>1, <2>2, <2>3
  <2>4. CASE ~ IsPrefix(src, p)
    BY <1>3, <1>4, <2>1, <2>2, <2>4
  <2> QED
    BY <2>3, <2>4
<1>12. ASSUME NEW r \in stay, ~ IsPrefix(src, r)
       PROVE  r \in DOMAIN T /\ T[r] = disk[r]
  BY <1>4, <1>8, <1>12
<1>13. ASSUME src = to
       PROVE  \A p \in stay : M(p) = p
  <2>1. ASSUME NEW p \in stay, IsPrefix(src, p)
        PROVE  M(p) = p
    <3>1. p \in Seq(S)
      BY <1>3, <1>0
    <3> QED
      BY <1>13, <2>1, <3>1, MovedNowhere
  <2> QED
    BY <1>4, <2>1
<1>14. ASSUME NEW r \in Seq(S), MayHold(disk, r), ~ IsPrefix(src, r),
              r # to
       PROVE  MayHold(T, r)
  BY <1>12, <1>14 DEF MayHold, Exists
<1>15. ASSUME NEW q \in DOMAIN T, NEW r \in Seq(S), IsStrictPrefix(r, q)
       PROVE  MayHold(T, r)
  <2>1. PICK p \in stay : q = M(p) /\ T[q] = disk[p]
    BY <1>9
  <2>2. p \in DOMAIN disk /\ p \in Seq(S)
    BY <1>3, <1>0
  <2>3. IsPrefix(r, q) /\ r # q
    BY <1>15 DEF IsStrictPrefix
  <2>4. CASE src = to
    <3>1. q = p /\ MayHold(disk, r)
      BY <1>1, <1>13, <1>15, <2>1, <2>2, <2>4
    <3>2. r \in stay /\ T[r] = disk[r] /\ r \in DOMAIN T
      BY <1>8, <1>13, <2>4, <3>1 DEF MayHold, Exists
    <3> QED
      BY <3>1, <3>2 DEF MayHold, Exists
  <2>5. CASE src # to /\ ~ IsPrefix(src, p)
    <3>1. q = p /\ MayHold(disk, r)
      BY <1>1, <1>4, <1>15, <2>1, <2>2, <2>5
    <3>2. ~ IsPrefix(src, r)
      BY <2>2, <2>3, <2>5, <3>1, PrefixTrans
    <3>3. r # to
      BY <1>5, <1>15, <2>2, <2>5, <3>1
    <3> QED
      BY <1>14, <3>1, <3>2, <3>3
  <2>6. CASE src # to /\ IsPrefix(src, p)
    <3>1. q \in Seq(S) /\ IsPrefix(to, q)
      BY <1>6, <2>1, <2>6
    <3>2. CASE IsStrictPrefix(r, to)
      <4>1. r = Parent(to) \/ IsStrictPrefix(r, Parent(to))
        BY <1>2, <3>2, BelowParent
      <4>2. MayHold(disk, r)
        BY <1>1, <1>2, <4>1
      <4>3. IsPrefix(r, to) /\ r # to
        BY <3>2 DEF IsStrictPrefix
      <4>4. ~ IsPrefix(src, r)
        <5>1. SUFFICES ASSUME IsPrefix(src, r) PROVE FALSE
          OBVIOUS
        <5>2. IsPrefix(src, to)
          BY <4>3, <5>1, PrefixTrans
        <5> QED
          BY <1>2, <2>6, <5>2 DEF IsStrictPrefix
      <4> QED
        BY <1>14, <4>2, <4>3, <4>4
    <3>3. CASE ~ IsStrictPrefix(r, to)
      <4>1. IsStrictPrefix(r, M(p))
        BY <1>15, <2>1
      <4>2. PICK s \in Seq(S) : /\ IsStrictPrefix(s, p) /\ IsPrefix(src, s)
                                /\ M(s) = r
        BY <2>2, <2>6, <3>3, <4>1, MovedAbove
      <4>3. MayHold(disk, s)
        BY <1>1, <2>2, <4>2
      <4>4. s # to
        BY <1>2, <2>6, <4>2 DEF IsStrictPrefix
      <4>5. s \in stay
        BY <2>6, <4>3, <4>4 DEF MayHold, Exists
      <4> HIDE DEF M, stay
      <4>6. r \in DOMAIN T /\ T[r] = disk[s]
        BY <1>8, <4>2, <4>5
      <4> QED
        BY <4>3, <4>6 DEF MayHold, Exists
    <3> QED
      BY <3>2, <3>3
  <2> QED
    BY <2>4, <2>5, <2>6
<1>16. DOMAIN T \subseteq Seq(S) /\ \A q \in DOMAIN T : T[q] \in Nodes
  BY <1>11
<1>17. Rooted(T)
  BY <1>15, <1>16, Ancestors
<1>18. ASSUME NEW p \in DOMAIN disk, ~ IsPrefix(src, p), p # to
       PROVE  p \in DOMAIN T /\ T[p] = disk[p]
  <2>1. p \in stay
    BY <1>18
  <2> QED
    BY <1>12, <1>18, <2>1
<1> QED
  BY <1>16, <1>17, <1>18 DEF Grounded, T

-----------------------------------------------------------------------------
(* Where a path leads, and what happens to a file that may not be written. *)

Scalars ==
  /\ named \in BOOLEAN /\ quitting \in BOOLEAN /\ fresh \in BOOLEAN
  /\ login \in Serials /\ logins \in Serials /\ login \in {0, logins}
  /\ rest \in [pos : Positions, of : Serials]
  /\ life \in {"open", "closing", "crashed"}

Channel ==
  /\ passive \in BOOLEAN
  /\ addr \in Addrs \cup {"own", "wiped"}
  /\ told \in Told
  /\ xfer \in {"none", "parked", "moving"}

\* Every path that is kept is made of real names.
PathsClean ==
  /\ cwd \in [at : Clean, of : Serials]
  /\ from \in [at : Clean, of : Serials]

DidClean == did.on \in Clean /\ did.to \in Clean

FilesTyped == changes \in 0 .. MaxChanges /\ Grounded(tree, STRING)

\* A path that may not be written stays, unless a rename of something above
\* it or to it takes or replaces it.
KeptStep ==
  \A path \in DOMAIN tree :
    \/ tree[path].write
    \/ path \in DOMAIN tree' /\ tree'[path] = tree[path]
    \/ did'.on # <<>> /\ (path = did'.to \/ IsStrictPrefix(did'.on, path))

SessionInv == Scalars /\ Channel /\ PathsClean /\ DidClean /\ FilesTyped

LEMMA OneOf ==
  ASSUME NEW S, NEW s \in Seq(S), NEW T, \A i \in 1..Len(s) : s[i] \in T
  PROVE  s \in Seq(T)
OBVIOUS

LEMMA CleanPaths ==
  /\ <<>> \in Clean
  /\ \A path \in Clean : /\ path \in Seq(STRING)
                         /\ ToSet(path) \cap {"", ".", ".."} = {}
<1>1. <<>> \in Clean
  BY DEF Clean
<1>2. ASSUME NEW path \in Clean
      PROVE  /\ path \in Seq(STRING)
             /\ ToSet(path) \cap {"", ".", ".."} = {}
  <2>1. path \in Seq(Real)
    BY DEF Clean
  <2>2. ToSet(path) \subseteq Real
    BY <2>1, SequenceOf
  <2>3. Real \subseteq STRING /\ Real \cap {"", ".", ".."} = {}
    BY DEF Real
  <2>4. path \in Seq(STRING)
    <3>1. \A i \in 1..Len(path) : path[i] \in Real
      BY <2>1
    <3>2. \A i \in 1..Len(path) : path[i] \in STRING
      BY <2>3, <3>1
    <3> QED
      BY <2>1, <3>2, OneOf
  <2> QED
    BY <2>2, <2>3, <2>4
<1> QED
  BY <1>1, <1>2

LEMMA ResolveClean ==
  ASSUME PathsClean, NEW arg \in Args
  PROVE  Resolve(arg) \in Clean
<1>1. cwd.at \in Clean
  BY DEF PathsClean
<1>2. arg \in [absolute : BOOLEAN, parts : Seq(STRING)]
  BY SessionConstants
<1> QED
  BY <1>1, <1>2, ChdirClean DEF Resolve

LEMMA InitSession == Init => SessionInv
<1> SUFFICES ASSUME Init PROVE SessionInv
  OBVIOUS
<1>1. 0 \in Serials /\ 0 \in Positions /\ 0 \in 0 .. MaxChanges
  BY SessionConstants DEF Serials, Positions
<1>2. Scalars
  BY <1>1 DEF Init, Scalars, Start
<1>3. Channel
  BY DEF Init, Channel, Told
<1>4. PathsClean /\ DidClean
  BY <1>1, CleanPaths DEF Init, PathsClean, DidClean, Home, Nothing
<1>5. FilesTyped
  BY <1>1, SessionConstants DEF Init, FilesTyped, Grounded
<1> QED
  BY <1>2, <1>3, <1>4, <1>5 DEF SessionInv

LEMMA DidNothing ==
  ASSUME did' = Nothing
  PROVE  DidClean' /\ did'.on = <<>>
BY CleanPaths DEF DidClean, Nothing

LEMMA FilesUnchanged ==
  ASSUME FilesTyped, UNCHANGED files
  PROVE  FilesTyped' /\ KeptStep
BY DEF FilesTyped, KeptStep, files

\* One more change is within the bound.
LEMMA ChangingTyped ==
  ASSUME changes \in 0 .. MaxChanges, Changing
  PROVE  changes' \in 0 .. MaxChanges
BY SessionConstants DEF Changing

\* Something is stored or made where there was nothing.
LEMMA WithKept ==
  ASSUME FilesTyped, NEW path \in Clean, ~ Exists(tree, path),
         MayCreate(tree, path), Changing, NEW sort \in {"dir", "file"},
         tree' = With(tree, path, NewNode(sort))
  PROVE  FilesTyped' /\ KeptStep
<1>1. path \in Seq(STRING)
  BY CleanPaths
<1>2. Grounded(With(tree, path, NewNode(sort)), STRING)
  BY <1>1, WithGrounded DEF FilesTyped
<1>3. \A p \in DOMAIN tree : p \in DOMAIN tree' /\ tree'[p] = tree[p]
  BY DEF With, Exists
<1> QED
  BY <1>2, <1>3, ChangingTyped DEF FilesTyped, KeptStep

LEMMA AuthStep ==
  ASSUME SessionInv, User \/ Pass \/ Rein \/ Quit
  PROVE  SessionInv' /\ KeptStep
<1> USE DEF SessionInv
<1>1. 0 \in Serials /\ 0 \in Positions
  BY SessionConstants DEF Serials, Positions
<1>2. did' = Nothing /\ UNCHANGED <<channel, files>>
  BY DEF User, Pass, Rein, Quit
<1>4. ASSUME LoseAuth
      PROVE  /\ PathsClean' /\ named' \in BOOLEAN /\ fresh' \in BOOLEAN
             /\ rest' \in [pos : Positions, of : Serials]
  BY <1>1, <1>4, CleanPaths DEF LoseAuth, PathsClean, Home, Start
<1>7. Scalars' /\ PathsClean'
  <2>1. CASE User
    BY <2>1 DEF User, Scalars, PathsClean, places, ending
  <2>2. CASE Pass
    <3>1. login' \in Serials /\ logins' \in Serials /\ login' \in {0, logins'}
      BY <1>1, <2>2, SessionConstants DEF Pass, Scalars, Serials
    <3> QED
      BY <1>4, <2>2, <3>1 DEF Pass, Scalars, ending
  <2>3. CASE Rein \/ Quit
    <3>1. login' = 0 /\ UNCHANGED logins /\ LoseAuth
      BY <2>3 DEF Rein, Quit
    <3>2. quitting' \in BOOLEAN /\ life' \in {"open", "closing", "crashed"}
      BY <2>3 DEF Rein, Quit, Scalars, ending
    <3> QED
      BY <1>1, <1>4, <3>1, <3>2 DEF Scalars
  <2> QED
    BY <2>1, <2>2, <2>3
<1>8. Channel'
  BY <1>2 DEF Channel, channel
<1> QED
  BY <1>2, <1>7, <1>8, DidNothing, FilesUnchanged

LEMMA PlacesStep ==
  ASSUME SessionInv,
         \/ \E pos \in Positions : Rest(pos)
         \/ \E arg \in Args : Cwd(arg) \/ Rnfr(arg)
  PROVE  SessionInv' /\ KeptStep
<1> USE DEF SessionInv
<1>1. /\ UNCHANGED <<auth, channel, ending, files>>
      /\ did'.on = <<>> /\ did'.to = <<>>
  BY DEF Rest, Cwd, Rnfr, Nothing
<1>2. Channel' /\ DidClean' /\ FilesTyped' /\ KeptStep
  BY <1>1, CleanPaths, FilesUnchanged DEF Channel, channel, DidClean
<1>3. CASE \E pos \in Positions : Rest(pos)
  <2>1. Scalars' /\ PathsClean'
    BY <1>3 DEF Rest, Scalars, PathsClean, auth, ending
  <2> QED
    BY <1>2, <2>1
<1>4. CASE \E arg \in Args : Cwd(arg) \/ Rnfr(arg)
  <2>1. PICK arg \in Args : Cwd(arg) \/ Rnfr(arg)
    BY <1>4
  <2>2. Resolve(arg) \in Clean /\ login \in Serials
    BY ResolveClean DEF Scalars
  <2>3. Scalars'
    BY <2>1 DEF Cwd, Rnfr, Scalars, auth, ending
  <2>4. PathsClean'
    BY <2>1, <2>2 DEF Cwd, Rnfr, PathsClean
  <2> QED
    BY <1>2, <2>3, <2>4
<1> QED
  BY <1>3, <1>4

LEMMA CrashKeeps ==
  ASSUME SessionInv, Crash
  PROVE  SessionInv' /\ KeptStep
<1> USE DEF SessionInv
<1>1. Scalars' /\ PathsClean' /\ Channel'
  BY DEF Crash, Scalars, PathsClean, Channel, auth, places, channel
<1>2. did' = Nothing /\ UNCHANGED files
  BY DEF Crash
<1> QED
  BY <1>1, <1>2, DidNothing, FilesUnchanged

LEMMA RntoStep ==
  ASSUME SessionInv, NEW arg \in Args, Rnto(arg)
  PROVE  SessionInv' /\ KeptStep
<1> DEFINE to == Resolve(arg)
<1> USE DEF SessionInv
<1>1. to \in Clean /\ from.at \in Clean /\ 0 \in Serials
  BY ResolveClean, SessionConstants DEF PathsClean, Serials
<1>2. to \in Seq(STRING) /\ from.at \in Seq(STRING) /\ <<>> \in Clean
  BY <1>1, CleanPaths
<1>3. /\ from.at # <<>>
      /\ MayDelete(tree, from.at) /\ MayCreate(tree, to)
      /\ did'.on = from.at /\ did'.to = to
      /\ from' = Home /\ UNCHANGED <<cwd, rest, fresh, auth, channel, ending>>
  BY DEF Rnto, Nothing
<1> HIDE DEF to
<1>4. Scalars' /\ PathsClean' /\ Channel' /\ DidClean'
  BY <1>1, <1>2, <1>3
  DEF Scalars, PathsClean, Channel, DidClean, Home, auth, channel, ending
<1>5. CASE UNCHANGED files
  BY <1>4, <1>5, FilesUnchanged
<1>6. CASE /\ CanRename(tree, from.at, to)
           /\ Changing /\ tree' = Rename(tree, from.at, to)
  <2>1. /\ Grounded(tree', STRING)
        /\ \A p \in DOMAIN tree :
             ~ IsPrefix(from.at, p) /\ p # to
               => p \in DOMAIN tree' /\ tree'[p] = tree[p]
    BY <1>2, <1>3, <1>6, RenameGrounded DEF FilesTyped
  <2>2. tree[from.at].write
    BY <1>3 DEF MayDelete
  <2>3. KeptStep
    BY <1>3, <2>1, <2>2 DEF KeptStep, IsStrictPrefix
  <2>4. FilesTyped'
    BY <1>6, <2>1, ChangingTyped DEF FilesTyped
  <2> QED
    BY <1>4, <2>3, <2>4
<1>7. \/ UNCHANGED files
      \/ /\ CanRename(tree, from.at, to)
         /\ Changing /\ tree' = Rename(tree, from.at, to)
  BY DEF Rnto, to
<1> QED
  BY <1>5, <1>6, <1>7

LEMMA DeleteStep ==
  ASSUME SessionInv, NEW arg \in Args, NEW op \in {"unlink", "rmdir"},
         DeleteOne(op, arg)
  PROVE  SessionInv' /\ KeptStep
<1> DEFINE path == Resolve(arg)
<1> USE DEF SessionInv
<1>1. CASE Crash
  BY <1>1, CrashKeeps
<1>2. CASE ~ Crash
  <2>1. /\ MayDelete(tree, path)
        /\ CanUnlink(tree, path) \/ CanRmdir(tree, path)
        /\ Changing /\ tree' = Without(tree, path)
        /\ did'.on = <<>> /\ did'.to = <<>>
        /\ UNCHANGED <<auth, places, channel, ending>>
    BY <1>2 DEF DeleteOne, Nothing
  <2> HIDE DEF path
  <2>2. Scalars' /\ PathsClean' /\ Channel' /\ DidClean'
    BY <2>1, CleanPaths
    DEF Scalars, PathsClean, Channel, DidClean, auth, places, channel, ending
  <2>3. path \in DOMAIN tree /\ tree[path].write
    BY <2>1 DEF MayDelete, Exists
  <2>4. Grounded(tree', STRING)
    BY <2>1, <2>3, WithoutGrounded DEF FilesTyped
  <2>5. \A p \in DOMAIN tree :
          p # path => p \in DOMAIN tree' /\ tree'[p] = tree[p]
    BY <2>1 DEF Without
  <2>6. KeptStep
    BY <2>3, <2>5 DEF KeptStep
  <2>7. FilesTyped'
    BY <2>1, <2>4, ChangingTyped DEF FilesTyped
  <2> QED
    BY <2>2, <2>6, <2>7
<1> QED
  BY <1>1, <1>2

LEMMA MkdStep ==
  ASSUME SessionInv, NEW arg \in Args, Mkd(arg)
  PROVE  SessionInv' /\ KeptStep
<1> DEFINE path == Resolve(arg)
<1> USE DEF SessionInv
<1>1. /\ MayCreate(tree, path) /\ ~ Exists(tree, path) /\ Changing
      /\ tree' = With(tree, path, NewNode("dir"))
      /\ did'.on = <<>> /\ did'.to = <<>>
      /\ UNCHANGED <<auth, places, channel, ending>>
  BY DEF Mkd, CanMkdir, Nothing
<1>2. path \in Clean
  BY ResolveClean
<1> HIDE DEF path
<1>3. Scalars' /\ PathsClean' /\ Channel' /\ DidClean'
  BY <1>1, CleanPaths
  DEF Scalars, PathsClean, Channel, DidClean, auth, places, channel, ending
<1> QED
  BY <1>1, <1>2, <1>3, WithKept

LEMMA PassiveStep ==
  ASSUME SessionInv,
         \/ \E cmd \in {"PASV", "EPSV"} : PassiveOn(cmd)
         \/ \E a \in Addrs, good \in BOOLEAN : Port(a, good) \/ Eprt(a, good)
  PROVE  SessionInv' /\ KeptStep
<1> USE DEF SessionInv
<1>1. CASE Crash
  BY <1>1, CrashKeeps
<1>2. CASE ~ Crash
  <2>1. did' = Nothing /\ UNCHANGED <<auth, places, ending, files>>
    BY <1>2 DEF PassiveOn, Port, Eprt
  <2>2. Scalars' /\ PathsClean'
    BY <2>1 DEF Scalars, PathsClean, auth, places, ending
  <2>3. Channel'
    <3>1. ASSUME NEW cmd \in {"PASV", "EPSV"}, PassiveOn(cmd)
          PROVE  Channel'
      <4>1. /\ passive' \in BOOLEAN /\ UNCHANGED <<addr, xfer>>
            /\ \E mode \in {"active", "passive", "unsure"} :
                 told' = [told EXCEPT !.mode = mode]
        BY <1>2, <3>1 DEF PassiveOn
      <4>2. told' \in Told
        BY <4>1 DEF Channel, Told
      <4> QED
        BY <4>1, <4>2 DEF Channel
    <3>2. ASSUME NEW a \in Addrs, NEW good \in BOOLEAN,
                 Port(a, good) \/ Eprt(a, good)
          PROVE  Channel'
      <4>1. /\ passive' = FALSE /\ UNCHANGED xfer
            /\ addr' \in {a, "wiped"} /\ told' \in {Active(a), Unsure}
        BY <1>2, <3>2 DEF Port, Eprt
      <4>2. told' \in Told
        BY <4>1 DEF Told, Active, Unsure
      <4> QED
        BY <4>1, <4>2 DEF Channel
    <3> QED
      BY <3>1, <3>2
  <2> QED
    BY <2>1, <2>2, <2>3, DidNothing, FilesUnchanged
<1> QED
  BY <1>1, <1>2

LEMMA EventStep ==
  ASSUME SessionInv, ListenerGone \/ Accept \/ XferDone
  PROVE  SessionInv' /\ KeptStep
<1> USE DEF SessionInv
<1>1. /\ did' = Nothing /\ UNCHANGED <<addr, quitting, auth, places, files>>
      /\ life' \in {life, "closing"} /\ passive' \in BOOLEAN
      /\ xfer' \in {xfer, "none", "moving"}
      /\ \E mode \in {told.mode, "unsure"} :
           told' = [told EXCEPT !.mode = mode]
  <2>1. CASE ListenerGone
    BY <2>1 DEF ListenerGone, ending
  <2>2. CASE Accept
    BY <2>2 DEF Accept, ending
  <2>3. CASE XferDone
    BY <2>3 DEF XferDone, Channel
  <2> QED
    BY <2>1, <2>2, <2>3
<1>2. Scalars' /\ PathsClean'
  BY <1>1 DEF Scalars, PathsClean, auth, places
<1>3. told' \in Told
  BY <1>1 DEF Channel, Told
<1>4. Channel'
  BY <1>1, <1>3 DEF Channel
<1> QED
  BY <1>1, <1>2, <1>4, DidNothing, FilesUnchanged

\* Starting a transfer moves no path and no file.
LEMMA StartXferTyped ==
  ASSUME SessionInv, NEW effect, StartXfer(effect),
         {"on", "to"} \subseteq DOMAIN effect,
         effect.on = <<>>, effect.to = <<>>
  PROVE  /\ Channel' /\ DidClean'
         /\ quitting' = quitting /\ life' \in {life, "closing"}
<1> USE DEF SessionInv
<1>1. did'.on = <<>> /\ did'.to = <<>>
  BY DEF StartXfer
<1>2. /\ UNCHANGED <<passive, addr, told, quitting>>
      /\ xfer' \in {xfer, "parked", "moving"} /\ life' \in {life, "closing"}
  BY DEF StartXfer, channel, ending
<1> QED
  BY <1>1, <1>2, CleanPaths DEF Channel, DidClean

LEMMA FileXferStep ==
  ASSUME SessionInv, NEW arg \in Args, NEW dir \in {"retrieve", "store"},
         FileXfer(dir, arg)
  PROVE  SessionInv' /\ KeptStep
<1> DEFINE path == Resolve(arg)
           owners == OwnersOf(arg) \cup
                       (IF rest.pos = 0 THEN {} ELSE {rest.of})
           effect == [Nothing EXCEPT !.owners = owners, !.pos = rest.pos,
                                     !.once = fresh]
<1> USE DEF SessionInv
<1>1. /\ rest' = Start /\ fresh' = FALSE /\ UNCHANGED <<cwd, from, auth>>
      /\ \/ StartXfer(effect)
         \/ did' = effect /\ UNCHANGED <<channel, ending>>
  BY DEF FileXfer, TakeRestart
<1> HIDE DEF owners
<1>2. /\ Channel' /\ DidClean'
      /\ quitting' = quitting /\ life' \in {life, "closing"}
  <2>1. CASE StartXfer(effect)
    <3>1. /\ {"on", "to"} \subseteq DOMAIN effect
          /\ effect.on = <<>> /\ effect.to = <<>>
      BY DEF Nothing
    <3> HIDE DEF effect
    <3> QED
      BY <2>1, <3>1, StartXferTyped
  <2>2. CASE did' = effect /\ UNCHANGED <<channel, ending>>
    <3>1. did'.on = <<>> /\ did'.to = <<>>
      BY <2>2 DEF Nothing
    <3> QED
      BY <2>2, <3>1, CleanPaths DEF Channel, DidClean, channel, ending
  <2> QED
    BY <1>1, <2>1, <2>2
<1>3. Scalars' /\ PathsClean'
  <2>1. 0 \in Serials /\ 0 \in Positions
    BY SessionConstants DEF Serials, Positions
  <2> QED
    BY <1>1, <1>2, <2>1 DEF Scalars, PathsClean, Start, auth
<1>4. FilesTyped' /\ KeptStep
  <2>1. CASE UNCHANGED files
    BY <2>1, FilesUnchanged
  <2>2. CASE /\ MayStore(tree, path) /\ ~ Exists(tree, path)
             /\ Changing /\ tree' = With(tree, path, NewNode("file"))
    <3>1. path \in Clean
      BY ResolveClean
    <3>2. MayCreate(tree, path)
      BY <2>2 DEF MayStore
    <3> HIDE DEF path
    <3> QED
      BY <2>2, <3>1, <3>2, WithKept
  <2>3. \/ UNCHANGED files
        \/ /\ MayStore(tree, path) /\ ~ Exists(tree, path)
           /\ Changing /\ tree' = With(tree, path, NewNode("file"))
    BY DEF FileXfer
  <2> QED
    BY <2>1, <2>2, <2>3
<1> QED
  BY <1>2, <1>3, <1>4

LEMMA ListXferStep ==
  ASSUME SessionInv, NEW arg \in Args, ListXfer(arg)
  PROVE  SessionInv' /\ KeptStep
<1> USE DEF SessionInv
<1>1. /\ StartXfer([Nothing EXCEPT !.owners = OwnersOf(arg)])
      /\ UNCHANGED <<places, auth, files>>
  BY DEF ListXfer
<1>2. LET effect == [Nothing EXCEPT !.owners = OwnersOf(arg)]
      IN  /\ {"on", "to"} \subseteq DOMAIN effect
          /\ effect.on = <<>> /\ effect.to = <<>>
  BY DEF Nothing
<1>3. /\ Channel' /\ DidClean'
      /\ quitting' = quitting /\ life' \in {life, "closing"}
  BY <1>1, <1>2, StartXferTyped
<1>4. Scalars' /\ PathsClean'
  BY <1>1, <1>3 DEF Scalars, PathsClean, places, auth
<1> QED
  BY <1>1, <1>3, <1>4, FilesUnchanged

LEMMA NextSession ==
  SessionInv /\ [Next]_vars => SessionInv' /\ (Next => KeptStep)
<1> SUFFICES ASSUME SessionInv, [Next]_vars
             PROVE  SessionInv' /\ (Next => KeptStep)
  OBVIOUS
<1>1. CASE UNCHANGED vars
  <2>1. SessionInv'
    BY <1>1
    DEF vars, auth, places, channel, ending, files, SessionInv, Scalars,
        Channel, PathsClean, DidClean, FilesTyped
  <2>2. KeptStep
    BY <1>1 DEF vars, files, KeptStep
  <2> QED
    BY <2>1, <2>2
<1>2. CASE Next
  BY <1>2, AuthStep, PlacesStep, RntoStep, DeleteStep, MkdStep, PassiveStep,
     EventStep, FileXferStep, ListXferStep
  DEF Next
<1> QED
  BY <1>1, <1>2

\* Whatever is asked for, in whatever working directory, no path that the
\* session keeps leads out of the user's directory, and the files stay a tree.
THEOREM TypeCorrect == Spec => []TypeOK
<1>1. SessionInv => TypeOK
  <2> SUFFICES ASSUME SessionInv PROVE TypeOK
    OBVIOUS
  <2>1. {cwd.at, from.at, did.on, did.to} \subseteq Clean
    BY DEF SessionInv, PathsClean, DidClean
  <2>2. \A path \in {cwd.at, from.at, did.on, did.to} :
          ToSet(path) \cap {"", ".", ".."} = {}
    BY <2>1, CleanPaths
  <2>3. cwd.of \in Serials /\ from.of \in Serials
    BY DEF SessionInv, PathsClean
  <2>4. /\ changes \in 0 .. MaxChanges /\ Rooted(tree)
        /\ \A path \in DOMAIN tree : tree[path] \in Nodes
    BY DEF SessionInv, FilesTyped, Grounded
  <2> QED
    BY <2>2, <2>3, <2>4 DEF SessionInv, Scalars, Channel, Told, TypeOK
<1>2. SessionInv /\ [Next]_vars => SessionInv'
  BY NextSession
<1> QED
  BY <1>1, <1>2, InitSession, PTL DEF Spec

\* A file or directory that may not be written stays where it is, as it is,
\* whatever command comes; but a rename takes along what is below its source
\* and replaces its target.
THEOREM ReadOnlyStays == Spec => FilesKept
<1>1. SessionInv /\ [Next]_vars => SessionInv'
  BY NextSession
<1>2. SessionInv /\ [Next]_vars
        => [\A path \in DOMAIN tree :
              \/ tree[path].write
              \/ path \in DOMAIN tree' /\ tree'[path] = tree[path]
              \/ did'.on # <<>>
                 /\ (path = did'.to \/ IsStrictPrefix(did'.on, path))]_vars
  BY NextSession DEF KeptStep
<1> QED
  BY <1>1, <1>2, InitSession, PTL DEF Spec, FilesKept

-----------------------------------------------------------------------------
(* The search for a port.                                                  *)

Values(s) == {s[i] : i \in DOMAIN s}
Distinct(s) == \A i, j \in DOMAIN s : i # j => s[i] # s[j]

Seen == Values(tried)

\* How far ahead of port q the port p is, around the range from lo to hi, and
\* the ports that are n places ahead of q at least.
Ahead(p, q, lo, hi) == IF p >= q THEN p - q ELSE p - q + (hi - lo + 1)

Beyond(q, n, lo, hi) == {p \in lo..hi : Ahead(p, q, lo, hi) >= n}

Searching ==
  /\ tries \in 1..(range[2] - range[1] + 1)
  /\ port \in range[1]..range[2]
  /\ Seen = Beyond(port, tries, range[1], range[2])

Typed ==
  /\ search \in {"no", "on", "bound", "inuse", "failed", "crash"}
  /\ range \in Int \X Int
  /\ tries \in Int /\ port \in Int
  /\ tried \in Seq(Int)

PortsInv ==
  /\ Typed
  /\ Distinct(tried)
  /\ search = "no" => tried = <<>>
  /\ search = "on" => Searching
  /\ search # "crash" => Seen \subseteq range[1]..range[2] \/ search = "no"
  /\ search = "inuse" => Seen = range[1]..range[2]
  /\ search = "bound" => port \in Seen
  /\ search = "crash" => range[2] < range[1]

LEMMA InitInv == PortsInit => PortsInv
BY DEF PortsInit, PortsInv, Typed, Distinct, Seen, Values

\* What appending to a sequence adds to the values in it.
LEMMA Appended ==
  ASSUME NEW s \in Seq(Int), NEW e \in Int
  PROVE  /\ Append(s, e) \in Seq(Int)
         /\ Values(Append(s, e)) = Values(s) \cup {e}
         /\ e \notin Values(s) /\ Distinct(s) => Distinct(Append(s, e))
<1> DEFINE t == Append(s, e)
<1>1. /\ t \in Seq(Int) /\ DOMAIN s = 1..Len(s) /\ DOMAIN t = 1..(Len(s) + 1)
      /\ Len(s) \in Nat /\ t[Len(s) + 1] = e
      /\ \A i \in 1..Len(s) : t[i] = s[i]
  OBVIOUS
<1> HIDE DEF t
<1>2. Values(t) = Values(s) \cup {e}
  <2>1. \A i \in DOMAIN s : i \in DOMAIN t /\ t[i] = s[i]
    BY <1>1
  <2>2. \A i \in DOMAIN t : i \in DOMAIN s \/ i = Len(s) + 1
    BY <1>1
  <2>3. Len(s) + 1 \in DOMAIN t
    BY <1>1
  <2> QED
    BY <1>1, <2>1, <2>2, <2>3 DEF Values
<1>3. ASSUME e \notin Values(s), Distinct(s), NEW i \in DOMAIN t,
             NEW j \in DOMAIN t, i # j
      PROVE  t[i] # t[j]
  <2>1. \A k \in 1..Len(s) : t[k] # e
    BY <1>1, <1>3 DEF Values
  <2>2. CASE i = Len(s) + 1 \/ j = Len(s) + 1
    BY <1>1, <1>3, <2>1, <2>2
  <2>3. CASE i \in 1..Len(s) /\ j \in 1..Len(s)
    BY <1>1, <1>3, <2>3 DEF Distinct
  <2> QED
    BY <1>1, <2>2, <2>3
<1> QED
  BY <1>1, <1>2, <1>3 DEF Distinct, t

LEMMA PassiveInv ==
  ASSUME PortsInv, Passive
  PROVE  PortsInv'
<1>1. PICK min \in Int, max \in Int :
        LET n == max - min + 1
            spread == IF n < 0 THEN 0 - n ELSE n
        IN  /\ range' = <<min, max>>
            /\ tries' = n
            /\ \/ /\ n = 0 /\ search' = "crash" /\ port' = port
               \/ /\ n # 0
                  /\ search' = IF n < 0 THEN "crash" ELSE "on"
                  /\ \E r \in 0..(spread - 1) : port' = min + r
  <2>1. \A b \in Nat : b % Width \in Int
    BY PortsConstants
  <2> QED
    BY <2>1, PortsConstants DEF Passive, Tries
<1>2. tried = <<>> /\ tried' = <<>>
  BY DEF PortsInv, Passive
<1>3. Seen' = {}
  BY <1>2 DEF Seen, Values
<1>4. CASE search' = "crash"
  <2>1. max < min /\ range' = <<min, max>> /\ tries' \in Int /\ port' \in Int
    BY <1>1, <1>4 DEF PortsInv, Typed
  <2>2. Typed'
    BY <2>1, <1>2, <1>4 DEF Typed
  <2>3. Distinct(tried')
    BY <1>2 DEF Distinct
  <2> QED
    BY <2>1, <2>2, <2>3, <1>2, <1>4 DEF PortsInv
<1>5. CASE search' # "crash"
  <2>1. /\ search' = "on" /\ max >= min /\ tries' = max - min + 1
        /\ port' \in min..max /\ range' = <<min, max>>
    BY <1>1, <1>5
  <2>2. Beyond(port', tries', min, max) = {}
    BY <2>1 DEF Beyond, Ahead
  <2> QED
    BY <2>1, <2>2, <1>2, <1>3 DEF PortsInv, Typed, Distinct, Searching
<1> QED
  BY <1>4, <1>5

\* What is beyond the next port and one try less.
LEMMA OneFurther ==
  ASSUME NEW lo \in Int, NEW hi \in Int, NEW q \in lo..hi,
         NEW n \in 1..(hi - lo + 1)
  PROVE  LET next == IF q + 1 > hi THEN lo ELSE q + 1
         IN  /\ next \in lo..hi
             /\ Beyond(next, n - 1, lo, hi) = Beyond(q, n, lo, hi) \cup {q}
             /\ q \notin Beyond(q, n, lo, hi)
             /\ n = 1 => Beyond(q, n, lo, hi) \cup {q} = lo..hi
<1> DEFINE next == IF q + 1 > hi THEN lo ELSE q + 1
<1>1. next \in lo..hi
  OBVIOUS
<1>2. ASSUME NEW p \in lo..hi
      PROVE  p \in Beyond(next, n - 1, lo, hi)
               <=> p \in Beyond(q, n, lo, hi) \/ p = q
  <2>1. CASE p = q
    BY <2>1 DEF Beyond, Ahead
  <2>2. CASE p # q
    <3>1. Ahead(p, next, lo, hi) = Ahead(p, q, lo, hi) - 1
      BY <2>2 DEF Ahead
    <3>2. Ahead(p, q, lo, hi) \in Int
      BY DEF Ahead
    <3> HIDE DEF next
    <3> QED
      BY <2>2, <3>1, <3>2 DEF Beyond
  <2> QED
    BY <2>1, <2>2
<1>3. q \notin Beyond(q, n, lo, hi)
  BY DEF Beyond, Ahead
<1>4. ASSUME n = 1, NEW p \in lo..hi
      PROVE  p \in Beyond(q, n, lo, hi) \/ p = q
  BY <1>4 DEF Beyond, Ahead
<1>5. q \in lo..hi /\ \A k, m : Beyond(k, m, lo, hi) \subseteq lo..hi
  BY DEF Beyond
<1> HIDE DEF next
<1>6. Beyond(next, n - 1, lo, hi) = Beyond(q, n, lo, hi) \cup {q}
  BY <1>2, <1>5
<1>7. n = 1 => Beyond(q, n, lo, hi) \cup {q} = lo..hi
  BY <1>4, <1>5
<1> QED
  BY <1>1, <1>3, <1>6, <1>7 DEF next

LEMMA TryInv ==
  ASSUME PortsInv, Try
  PROVE  PortsInv'
<1>1. PICK lo \in Int, hi \in Int : lo = range[1] /\ hi = range[2]
  BY DEF PortsInv, Typed
<1>2. /\ tries \in 1..(hi - lo + 1) /\ port \in lo..hi
      /\ Seen = Beyond(port, tries, lo, hi) /\ tried \in Seq(Int)
  BY <1>1 DEF PortsInv, Typed, Searching, Try
<1>3. /\ tried' = Append(tried, port) /\ range' = range
      /\ range'[1] = lo /\ range'[2] = hi
  BY <1>1 DEF Try
<1>4. /\ port \notin Seen
      /\ tries = 1 => Seen \cup {port} = lo..hi
  BY <1>2, OneFurther
<1>5. /\ tried' \in Seq(Int)
      /\ Seen' = Seen \cup {port}
      /\ Distinct(tried')
  BY <1>2, <1>3, <1>4, Appended DEF PortsInv, Seen
<1>6. Seen' \subseteq lo..hi
  BY <1>2, <1>5 DEF Beyond
<1>7. CASE search' \in {"bound", "failed"} /\ port' = port /\ tries' = tries
  BY <1>2, <1>3, <1>5, <1>6, <1>7 DEF PortsInv, Typed
<1>8. CASE /\ search' = IF tries = 1 THEN "inuse" ELSE "on"
           /\ port' = IF port + 1 > hi THEN lo ELSE port + 1
           /\ tries' = tries - 1
  <2>1. /\ Seen' = Beyond(port', tries', lo, hi)
        /\ port' \in lo..hi
    <3>1. PICK q \in lo..hi, n \in 1..(hi - lo + 1) : q = port /\ n = tries
      BY <1>2
    <3>2. PICK next : next = IF q + 1 > hi THEN lo ELSE q + 1
      OBVIOUS
    <3>3. /\ next \in lo..hi
          /\ Beyond(next, n - 1, lo, hi) = Beyond(q, n, lo, hi) \cup {q}
      BY <3>2, OneFurther
    <3>4. port' = next /\ tries' = n - 1
      BY <3>1, <3>2, <1>8
    <3> QED
      BY <3>1, <3>3, <3>4, <1>2, <1>5
  <2>2. Typed'
    BY <1>2, <1>3, <1>5, <1>8, <2>1 DEF Typed, PortsInv
  <2>3. CASE tries = 1
    BY <1>3, <1>4, <1>5, <1>6, <1>8, <2>2, <2>3 DEF PortsInv
  <2>4. CASE tries # 1
    <3>1. Searching'
      BY <1>2, <1>3, <1>8, <2>1, <2>4 DEF Searching
    <3> QED
      BY <1>3, <1>5, <1>6, <1>8, <2>2, <2>4, <3>1 DEF PortsInv
  <2> QED
    BY <2>3, <2>4
<1> QED
  BY <1>1, <1>7, <1>8 DEF Try

LEMMA StepInv == PortsInv /\ [PortsNext]_ports => PortsInv'
<1> SUFFICES ASSUME PortsInv, [PortsNext]_ports
             PROVE  PortsInv'
  OBVIOUS
<1>1. CASE Passive
  BY <1>1, PassiveInv
<1>2. CASE Try
  BY <1>2, TryInv
<1>3. CASE Elsewhere \/ UNCHANGED ports
  <2>1. UNCHANGED <<search, range, tries, port, tried>>
    BY <1>3 DEF Elsewhere, ports
  <2> QED
    BY <2>1 DEF PortsInv, Typed, Distinct, Searching, Seen
<1> QED
  BY <1>1, <1>2, <1>3 DEF PortsNext

LEMMA InvGives == PortsInv => EachPortOnce
BY DEF PortsInv, EachPortOnce, Distinct, Typed, Seen, Values

\* Stream::listen_ipv4_range says that the ports are in use only after each
\* one was tried, and tries none twice, however wide the range is, wherever
\* it begins and whatever others take and give back meanwhile.
THEOREM PortsTriedOnce == PortsSpec => []EachPortOnce
BY InitInv, StepInv, InvGives, PTL DEF PortsSpec

-----------------------------------------------------------------------------
(* Loops over a text, as recursive functions.                              *)

\* The states that a loop goes through in its first n turns.
Traces(n, g, f, start, text) ==
  /\ g[0] = start
  /\ \A i \in 1..n : g[i] = f[g[i - 1]][text[i]]

\* A recursion over a sequence has a solution, here with a step that is a
\* function.
LEMMA TraceExists ==
  ASSUME NEW S, NEW B, NEW f \in [S -> [B -> S]], NEW start \in S,
         NEW text \in Seq(B)
  PROVE  \E g \in [0..Len(text) -> S] : Traces(Len(text), g, f, start, text)
<1> DEFINE A == {n \in Nat : n <= Len(text) =>
                   \E g \in [0..n -> S] : Traces(n, g, f, start, text)}
<1>1. 0 \in A
  <2> DEFINE g0 == [i \in 0..0 |-> start]
  <2>1. g0 \in [0..0 -> S] /\ g0[0] = start /\ 1..0 = {}
    OBVIOUS
  <2> HIDE DEF g0
  <2>2. Traces(0, g0, f, start, text)
    BY <2>1 DEF Traces
  <2> QED BY <2>1, <2>2
<1>2. ASSUME NEW n \in Nat, n \in A PROVE n + 1 \in A
  <2>1. SUFFICES ASSUME n + 1 <= Len(text)
                 PROVE  \E g \in [0..(n + 1) -> S] :
                          Traces(n + 1, g, f, start, text)
    OBVIOUS
  <2>2. PICK g \in [0..n -> S] : Traces(n, g, f, start, text)
    BY <1>2, <2>1
  <2>3. text[n + 1] \in B /\ g[n] \in S BY <2>1
  <2>4. f[g[n]][text[n + 1]] \in S BY <2>3
  <2> DEFINE h == [i \in 0..(n + 1) |->
                     IF i = n + 1 THEN f[g[n]][text[n + 1]] ELSE g[i]]
  <2>5. h \in [0..(n + 1) -> S] BY <2>4
  <2>6. h[0] = start /\ h[n + 1] = f[g[n]][text[n + 1]]
    BY <2>2 DEF Traces
  <2>7. \A i \in 0..n : h[i] = g[i] OBVIOUS
  <2> HIDE DEF h
  <2>8. ASSUME NEW i \in 1..(n + 1)
        PROVE  h[i] = f[h[i - 1]][text[i]]
    <3>1. CASE i = n + 1
      <4>1. i - 1 = n /\ n \in 0..n BY <3>1
      <4>2. h[n] = g[n] BY <2>7, <4>1
      <4> QED BY <2>6, <3>1, <4>1, <4>2
    <3>2. CASE i # n + 1
      <4>1. i \in 1..n /\ i \in 0..n /\ i - 1 \in 0..n BY <3>2
      <4> QED BY <2>2, <2>7, <4>1 DEF Traces
    <3> QED BY <3>1, <3>2
  <2>9. Traces(n + 1, h, f, start, text)
    BY <2>6, <2>8 DEF Traces
  <2> QED BY <2>5, <2>9
<1> HIDE DEF A
<1>3. Nat \subseteq A BY <1>1, <1>2, Counting
<1>4. Len(text) \in A BY <1>3
<1> QED BY <1>4 DEF A

\* Two loops that go on alike are alike.
Alike(n, g, h) ==
  g[0] = h[0] /\ \A i \in 1..n : g[i - 1] = h[i - 1] => g[i] = h[i]

LEMMA SameTrace ==
  ASSUME NEW n \in Nat, NEW g, NEW h, Alike(n, g, h)
  PROVE  \A i \in 0..n : g[i] = h[i]
<1> DEFINE A == {k \in Nat : k <= n => g[k] = h[k]}
<1>1. 0 \in A BY DEF Alike
<1>2. ASSUME NEW k \in Nat, k \in A PROVE k + 1 \in A
  <2>1. k + 1 <= n => k + 1 \in 1..n /\ (k + 1) - 1 = k OBVIOUS
  <2> QED BY <1>2, <2>1 DEF Alike
<1> HIDE DEF A
<1>3. Nat \subseteq A BY <1>1, <1>2, Counting
<1> QED BY <1>3 DEF A

-----------------------------------------------------------------------------
(* Paths as they are written.                                              *)

Proper == FileName \ Dots
Piece == Seq(Byte \ {Slash})
AppendStates == [path : Seq(Proper), piece : Piece]

LEMMA FrontOf ==
  ASSUME NEW S, NEW s \in Seq(S), s # <<>>
  PROVE  Front(s) \in Seq(S)
BY DEF Front

\* Path::append_one adds no name that leads elsewhere.
LEMMA AppendNameProper ==
  ASSUME NEW path \in Seq(Proper), NEW name \in Piece
  PROVE  AppendName(path, name) \in Seq(Proper)
<1>1. CASE name \in {<<>>, <<Dot>>}
  BY <1>1 DEF AppendName
<1>2. CASE name = <<Dot, Dot>> /\ name \notin {<<>>, <<Dot>>}
  BY <1>2, FrontOf DEF AppendName
<1>3. CASE name \notin {<<>>, <<Dot>>, <<Dot, Dot>>}
  <2>1. AppendName(path, name) = Append(path, name)
    BY <1>3 DEF AppendName
  <2>2. name \in Proper
    BY <1>3 DEF Proper, FileName, Piece, Dots
  <2> QED BY <2>1, <2>2
<1> QED BY <1>1, <1>2, <1>3

LEMMA AppendByteState ==
  ASSUME NEW s \in AppendStates, NEW c \in Byte
  PROVE  AppendByte(s, c) \in AppendStates
<1>1. s.path \in Seq(Proper) /\ s.piece \in Piece BY DEF AppendStates
<1>2. CASE c = Slash
  <2>1. AppendName(s.path, s.piece) \in Seq(Proper) /\ <<>> \in Piece
    BY <1>1, AppendNameProper DEF Piece
  <2> QED BY <1>2, <2>1 DEF AppendByte, AppendStates
<1>3. CASE c # Slash
  <2>1. Append(s.piece, c) \in Piece BY <1>1, <1>3 DEF Piece
  <2> QED BY <1>1, <1>3, <2>1 DEF AppendByte, AppendStates
<1> QED BY <1>2, <1>3

Appending(start, text) == Scan(AppendByte, start, text)

LEMMA AppendTrace ==
  ASSUME NEW start \in AppendStates, NEW text \in Seq(Byte)
  PROVE  \E g \in [0..Len(text) -> AppendStates] :
           /\ g[0] = start
           /\ \A i \in 1..Len(text) : g[i] = AppendByte(g[i - 1], text[i])
           /\ Appending(start, text) = g[Len(text)]
<1> DEFINE f == [s \in AppendStates |-> [c \in Byte |-> AppendByte(s, c)]]
           Solves(g) == g = [i \in 0..Len(text) |->
                               IF i = 0 THEN start
                               ELSE AppendByte(g[i - 1], text[i])]
           a == CHOOSE g : Solves(g)
<1>1. f \in [AppendStates -> [Byte -> AppendStates]]
  BY AppendByteState
<1>2. \A s \in AppendStates, c \in Byte : f[s][c] = AppendByte(s, c)
  OBVIOUS
<1> HIDE DEF f
<1>3. PICK g \in [0..Len(text) -> AppendStates] :
        Traces(Len(text), g, f, start, text)
  BY <1>1, TraceExists
<1>4. \A i \in 1..Len(text) : g[i] = AppendByte(g[i - 1], text[i])
  <2>1. \A i \in 1..Len(text) : i - 1 \in 0..Len(text) /\ text[i] \in Byte
    OBVIOUS
  <2> QED BY <1>2, <1>3, <2>1 DEF Traces
<1>5. Solves(g) BY <1>3, <1>4 DEF Traces
<1>6. Solves(a)
  <2> HIDE DEF Solves
  <2> QED BY <1>5
<1>7. Appending(start, text) = a[Len(text)] BY DEF Appending, Scan
<1> HIDE DEF a
<1>8. \A i \in 0..Len(text) : a[i] = g[i]
  <2>1. a[0] = start /\ \A i \in 1..Len(text) :
                          a[i] = AppendByte(a[i - 1], text[i])
    BY <1>6
  <2>2. Len(text) \in Nat /\ a[0] = g[0] BY <1>3, <2>1 DEF Traces
  <2>3. \A i \in 1..Len(text) : a[i - 1] = g[i - 1] => a[i] = g[i]
    BY <1>4, <2>1
  <2>4. Alike(Len(text), a, g) BY <2>2, <2>3 DEF Alike
  <2> QED BY <2>2, <2>4, SameTrace
<1> QED BY <1>3, <1>4, <1>7, <1>8 DEF Traces

-----------------------------------------------------------------------------
LEMMA SeqEq ==
  ASSUME NEW S, NEW u \in Seq(S), NEW v \in Seq(S), Len(u) = Len(v),
         \A i \in 1..Len(u) : u[i] = v[i]
  PROVE  u = v
OBVIOUS

LEMMA EmptyFirst ==
  ASSUME NEW S, NEW v \in Seq(S)
  PROVE  <<>> \o v = v /\ v \o <<>> = v
OBVIOUS

LEMMA ConcatSnoc ==
  ASSUME NEW S, NEW u \in Seq(S), NEW v \in Seq(S), NEW c \in S
  PROVE  u \o Append(v, c) = Append(u \o v, c)
<1> DEFINE l == u \o Append(v, c)
           r == Append(u \o v, c)
<1>1. l \in Seq(S) /\ r \in Seq(S) /\ Len(l) = Len(r)
  OBVIOUS
<1>2. \A i \in 1..Len(l) : l[i] = r[i]
  OBVIOUS
<1> HIDE DEF l, r
<1> QED BY <1>1, <1>2, SeqEq

LEMMA ConcatAssoc ==
  ASSUME NEW S, NEW u \in Seq(S), NEW v \in Seq(S), NEW w \in Seq(S)
  PROVE  (u \o v) \o w = u \o (v \o w)
<1> DEFINE l == (u \o v) \o w
           r == u \o (v \o w)
<1>1. l \in Seq(S) /\ r \in Seq(S) /\ Len(l) = Len(r)
  OBVIOUS
<1>2. \A i \in 1..Len(l) : l[i] = r[i]
  OBVIOUS
<1> HIDE DEF l, r
<1> QED BY <1>1, <1>2, SeqEq

LEMMA PrefixEnds ==
  ASSUME NEW S, NEW v \in Seq(S)
  PROVE  SubSeq(v, 1, 0) = <<>> /\ SubSeq(v, 1, Len(v)) = v
OBVIOUS

LEMMA PrefixStep ==
  ASSUME NEW S, NEW v \in Seq(S), NEW n \in Nat, n + 1 <= Len(v)
  PROVE  /\ SubSeq(v, 1, n) \in Seq(S) /\ v[n + 1] \in S
         /\ SubSeq(v, 1, n + 1) = Append(SubSeq(v, 1, n), v[n + 1])
<1> DEFINE l == SubSeq(v, 1, n + 1)
           r == Append(SubSeq(v, 1, n), v[n + 1])
<1>1. l \in Seq(S) /\ r \in Seq(S) /\ Len(l) = Len(r)
  OBVIOUS
<1>2. \A i \in 1..Len(l) : l[i] = r[i]
  OBVIOUS
<1>3. l = r
  <2> HIDE DEF l, r
  <2> QED BY <1>1, <1>2, SeqEq
<1>4. SubSeq(v, 1, n) \in Seq(S) /\ v[n + 1] \in S
  OBVIOUS
<1> QED BY <1>3, <1>4

\* What holds of the empty text and of a text with a byte more holds of all.
LEMMA TextInduction ==
  ASSUME NEW S, NEW v \in Seq(S), NEW A, <<>> \in A,
         \A w \in Seq(S), c \in S : w \in A => Append(w, c) \in A
  PROVE  v \in A
<1> DEFINE K == {n \in Nat : n <= Len(v) => SubSeq(v, 1, n) \in A}
<1>1. 0 \in K
  <2>1. SubSeq(v, 1, 0) = <<>> OBVIOUS
  <2> QED BY <2>1
<1>2. ASSUME NEW n \in Nat, n \in K PROVE n + 1 \in K
  <2>1. SUFFICES ASSUME n + 1 <= Len(v) PROVE SubSeq(v, 1, n + 1) \in A
    OBVIOUS
  <2>2. SubSeq(v, 1, n) \in A /\ n \in 0..Len(v) BY <1>2, <2>1
  <2>3. /\ SubSeq(v, 1, n) \in Seq(S) /\ v[n + 1] \in S
        /\ SubSeq(v, 1, n + 1) = Append(SubSeq(v, 1, n), v[n + 1])
    BY <2>1, PrefixStep
  <2> DEFINE w == SubSeq(v, 1, n)
  <2>4. SubSeq(v, 1, n + 1) = Append(w, v[n + 1]) BY <2>3
  <2>5. w \in Seq(S) /\ w \in A BY <2>2, <2>3
  <2> HIDE DEF w
  <2>6. Append(w, v[n + 1]) \in A BY <2>3, <2>5
  <2> QED BY <2>4, <2>6
<1> HIDE DEF K
<1>3. Nat \subseteq K BY <1>1, <1>2, Counting
<1>4. Len(v) \in K BY <1>3
<1>5. SubSeq(v, 1, Len(v)) = v BY PrefixEnds
<1>6. SubSeq(v, 1, Len(v)) \in A BY <1>4 DEF K
<1> QED BY <1>5, <1>6

\* Path::append goes over a text byte by byte.
LEMMA AppendingNone ==
  ASSUME NEW start \in AppendStates
  PROVE  Appending(start, <<>>) = start
<1>1. <<>> \in Seq(Byte) /\ Len(<<>>) = 0 OBVIOUS
<1>2. PICK g \in [0..Len(<<>>) -> AppendStates] :
        /\ g[0] = start
        /\ Appending(start, <<>>) = g[Len(<<>>)]
  BY <1>1, AppendTrace
<1> QED BY <1>1, <1>2

LEMMA AppendingState ==
  ASSUME NEW start \in AppendStates, NEW text \in Seq(Byte)
  PROVE  Appending(start, text) \in AppendStates
<1>1. PICK g \in [0..Len(text) -> AppendStates] :
        Appending(start, text) = g[Len(text)]
  BY AppendTrace
<1> QED BY <1>1

LEMMA AppendingByte ==
  ASSUME NEW start \in AppendStates, NEW text \in Seq(Byte), NEW c \in Byte
  PROVE  Appending(start, Append(text, c)) =
           AppendByte(Appending(start, text), c)
<1> DEFINE more == Append(text, c)
           n == Len(text)
<1>1. /\ more \in Seq(Byte) /\ Len(more) = n + 1 /\ n \in Nat
      /\ more[n + 1] = c /\ \A i \in 1..n : more[i] = text[i]
  OBVIOUS
<1> HIDE DEF more
<1>2. PICK g \in [0..Len(text) -> AppendStates] :
        /\ g[0] = start
        /\ \A i \in 1..Len(text) : g[i] = AppendByte(g[i - 1], text[i])
        /\ Appending(start, text) = g[Len(text)]
  BY AppendTrace
<1>3. PICK h \in [0..Len(more) -> AppendStates] :
        /\ h[0] = start
        /\ \A i \in 1..Len(more) : h[i] = AppendByte(h[i - 1], more[i])
        /\ Appending(start, more) = h[Len(more)]
  BY <1>1, AppendTrace
<1> HIDE DEF n
<1>4. \A i \in 1..n : h[i - 1] = g[i - 1] => h[i] = g[i]
  <2>1. \A i \in 1..n : i \in 1..Len(more) /\ i \in 1..Len(text)
    BY <1>1 DEF n
  <2> QED BY <1>1, <1>2, <1>3, <2>1
<1>5. h[0] = g[0] BY <1>2, <1>3
<1>6. \A i \in 0..n : h[i] = g[i]
  <2>1. n \in Nat BY <1>1
  <2>2. Alike(n, h, g) BY <1>4, <1>5 DEF Alike
  <2> QED BY <2>1, <2>2, SameTrace
<1>7. h[n] = Appending(start, text) BY <1>1, <1>2, <1>6 DEF n
<1>8. n + 1 \in 1..Len(more) /\ (n + 1) - 1 = n BY <1>1
<1>9. h[n + 1] = AppendByte(h[n], c) BY <1>1, <1>3, <1>8
<1>10. Appending(start, more) = AppendByte(Appending(start, text), c)
  BY <1>1, <1>3, <1>7, <1>9
<1> QED BY <1>10 DEF more

\* It may stop between two texts.
LEMMA AppendingBoth ==
  ASSUME NEW start \in AppendStates, NEW text \in Seq(Byte),
         NEW more \in Seq(Byte)
  PROVE  Appending(start, text \o more) =
           Appending(Appending(start, text), more)
<1> DEFINE mid == Appending(start, text)
           A == {w \in Seq(Byte) :
                   Appending(start, text \o w) = Appending(mid, w)}
<1>0. mid \in AppendStates BY AppendingState
<1>1. <<>> \in A
  <2>1. <<>> \in Seq(Byte) /\ text \o <<>> = text BY EmptyFirst
  <2> QED BY <1>0, <2>1, AppendingNone
<1>2. ASSUME NEW w \in Seq(Byte), NEW c \in Byte, w \in A
      PROVE  Append(w, c) \in A
  <2>1. text \o Append(w, c) = Append(text \o w, c) BY ConcatSnoc
  <2>2. text \o w \in Seq(Byte) /\ Append(w, c) \in Seq(Byte) OBVIOUS
  <2>3. Appending(start, Append(text \o w, c)) =
          AppendByte(Appending(start, text \o w), c)
    BY <2>2, AppendingByte
  <2> HIDE DEF mid
  <2>4. Appending(mid, Append(w, c)) = AppendByte(Appending(mid, w), c)
    BY <1>0, AppendingByte
  <2>5. Appending(start, text \o w) = Appending(mid, w) BY <1>2
  <2> QED BY <2>1, <2>2, <2>3, <2>4, <2>5
<1> HIDE DEF A
<1>3. more \in A BY <1>1, <1>2, TextInduction
<1> QED BY <1>3 DEF A

\* A name is read as it is.
LEMMA NameRun ==
  ASSUME NEW path \in Seq(Proper), NEW name \in Piece
  PROVE  Appending([path |-> path, piece |-> <<>>], name) =
           [path |-> path, piece |-> name]
<1> DEFINE start == [path |-> path, piece |-> <<>>]
           A == {w \in Piece : Appending(start, w) =
                                 [path |-> path, piece |-> w]}
<1>1. start \in AppendStates BY DEF AppendStates, Piece
<1>2. <<>> \in A BY <1>1, AppendingNone DEF Piece
<1>3. ASSUME NEW w \in Piece, NEW c \in Byte \ {Slash}, w \in A
      PROVE  Append(w, c) \in A
  <2>1. w \in Seq(Byte) /\ c \in Byte /\ c # Slash /\ Append(w, c) \in Piece
    BY DEF Piece
  <2> HIDE DEF start
  <2>2. Appending(start, Append(w, c)) = AppendByte(Appending(start, w), c)
    BY <1>1, <2>1, AppendingByte
  <2>3. Appending(start, w) = [path |-> path, piece |-> w] BY <1>3
  <2> QED BY <2>1, <2>2, <2>3 DEF AppendByte
<1> HIDE DEF A
<1>4. \A w \in Seq(Byte \ {Slash}), c \in Byte \ {Slash} :
        w \in A => Append(w, c) \in A
  BY <1>3 DEF Piece
<1>5. name \in A BY <1>2, <1>4, TextInduction DEF Piece
<1> QED BY <1>5 DEF A

\* FlattenSeq of the community modules, as a loop.
FlattenTraces(n, g, seqs) ==
  g[0] = <<>> /\ \A i \in 1..n : g[i] = g[i - 1] \o seqs[i]

LEMMA FlattenTrace ==
  ASSUME NEW S, NEW seqs \in Seq(Seq(S))
  PROVE  \E g \in [0..Len(seqs) -> Seq(S)] :
           /\ FlattenTraces(Len(seqs), g, seqs)
           /\ FlattenSeq(seqs) = g[Len(seqs)]
<1> DEFINE n == Len(seqs)
           T == Seq(S)
           f == [u \in T |-> [v \in T |-> u \o v]]
           Solves(g) == g = [i \in 1..n |-> IF i = 1 THEN seqs[i]
                                            ELSE g[i - 1] \o seqs[i]]
           a == CHOOSE g : Solves(g)
<1>0. n \in Nat OBVIOUS
<1>1. f \in [T -> [T -> T]] /\ <<>> \in T
  OBVIOUS
<1>2. \A u, v \in T : f[u][v] = u \o v
  OBVIOUS
<1>3. seqs \in Seq(T) OBVIOUS
<1> HIDE DEF f, T
<1>4. PICK g \in [0..Len(seqs) -> T] : Traces(Len(seqs), g, f, <<>>, seqs)
  BY <1>1, <1>3, TraceExists
<1>5. \A i \in 1..n : g[i] = g[i - 1] \o seqs[i]
  <2>1. \A i \in 1..n : i - 1 \in 0..Len(seqs) /\ seqs[i] \in T
    BY <1>3
  <2>2. \A i \in 1..n : g[i] = f[g[i - 1]][seqs[i]]
    BY <1>4 DEF Traces
  <2> QED BY <1>2, <1>4, <2>1, <2>2
<1>6. g[0] = <<>> BY <1>4 DEF Traces
<1>7. FlattenTraces(n, g, seqs) BY <1>5, <1>6 DEF FlattenTraces
<1>8. CASE n = 0
  <2>1. FlattenSeq(seqs) = seqs /\ seqs = <<>> BY <1>8 DEF FlattenSeq
  <2> QED BY <1>4, <1>6, <1>7, <1>8, <2>1 DEF T
<1>9. CASE n # 0
  <2> DEFINE b == [i \in 1..n |-> g[i]]
  <2>1. g[0] \o seqs[1] = seqs[1]
    <3>1. seqs[1] \in Seq(S) BY <1>9
    <3> QED BY <1>6, <3>1, EmptyFirst
  <2>2. Solves(b)
    <3>1. \A i \in 1..n : i # 1 => i - 1 \in 1..n BY <1>0
    <3>2. \A i \in 1..n : g[i] = IF i = 1 THEN seqs[i]
                                 ELSE b[i - 1] \o seqs[i]
      <4> SUFFICES ASSUME NEW i \in 1..n
                   PROVE  g[i] = IF i = 1 THEN seqs[i]
                                 ELSE b[i - 1] \o seqs[i]
        OBVIOUS
      <4>1. g[i] = g[i - 1] \o seqs[i] BY <1>5
      <4>2. CASE i = 1
        <5>1. i - 1 = 0 BY <4>2
        <5> QED BY <2>1, <4>1, <4>2, <5>1
      <4>3. CASE i # 1
        <5>1. b[i - 1] = g[i - 1] BY <3>1, <4>3
        <5> QED BY <4>1, <4>3, <5>1
      <4> QED BY <4>2, <4>3
    <3> QED BY <3>2
  <2>3. Solves(a)
    <3> HIDE DEF Solves, b
    <3> QED BY <2>2
  <2>4. FlattenSeq(seqs) = a[n] BY <1>9 DEF FlattenSeq
  <2> DEFINE c == [i \in 0..n |-> IF i = 0 THEN <<>> ELSE a[i]]
  <2> HIDE DEF a
  <2>5. \A i \in 1..n : a[i] = IF i = 1 THEN seqs[i]
                               ELSE a[i - 1] \o seqs[i]
    BY <2>3
  <2> HIDE DEF Solves, b
  <2>6. c[0] = <<>> /\ \A i \in 1..n : c[i] = a[i]
    BY <1>0
  <2>7. \A i \in 1..n : i # 1 => i - 1 \in 1..n
    BY <1>0
  <2> HIDE DEF c
  <2>8. \A i \in 1..n : c[i - 1] = g[i - 1] => c[i] = g[i]
    <3> SUFFICES ASSUME NEW i \in 1..n, c[i - 1] = g[i - 1]
                 PROVE  c[i] = g[i]
      OBVIOUS
    <3>1. g[i] = g[i - 1] \o seqs[i] /\ c[i] = a[i] BY <1>5, <2>6
    <3>2. CASE i = 1
      <4>1. i - 1 = 0 BY <3>2
      <4>2. a[i] = seqs[i] BY <2>5, <3>2
      <4> QED BY <2>1, <3>1, <3>2, <4>1, <4>2
    <3>3. CASE i # 1
      <4>1. a[i] = a[i - 1] \o seqs[i] BY <2>5, <3>3
      <4>2. c[i - 1] = a[i - 1] BY <2>6, <2>7, <3>3
      <4> QED BY <3>1, <4>1, <4>2
    <3> QED BY <3>2, <3>3
  <2>9. Alike(n, c, g) BY <1>6, <2>6, <2>8 DEF Alike
  <2>10. \A i \in 0..n : c[i] = g[i] BY <1>0, <2>9, SameTrace
  <2>11. a[n] = g[n]
    <3>1. n \in 1..n /\ n \in 0..n BY <1>0, <1>9
    <3> HIDE DEF n
    <3> QED BY <2>6, <2>10, <3>1
  <2> QED BY <1>4, <1>7, <2>4, <2>11 DEF T
<1> QED BY <1>8, <1>9

LEMMA FlattenNone == FlattenSeq(<<>>) = <<>>
BY DEF FlattenSeq

LEMMA FlattenType ==
  ASSUME NEW S, NEW seqs \in Seq(Seq(S))
  PROVE  FlattenSeq(seqs) \in Seq(S)
<1>1. PICK g \in [0..Len(seqs) -> Seq(S)] : FlattenSeq(seqs) = g[Len(seqs)]
  BY FlattenTrace
<1>2. Len(seqs) \in 0..Len(seqs) OBVIOUS
<1> QED BY <1>1, <1>2

LEMMA FlattenSnoc ==
  ASSUME NEW S, NEW seqs \in Seq(Seq(S)), NEW s \in Seq(S)
  PROVE  FlattenSeq(Append(seqs, s)) = FlattenSeq(seqs) \o s
<1> DEFINE more == Append(seqs, s)
           n == Len(seqs)
<1>1. /\ more \in Seq(Seq(S)) /\ Len(more) = n + 1 /\ n \in Nat
      /\ more[n + 1] = s /\ \A i \in 1..n : more[i] = seqs[i]
  OBVIOUS
<1> HIDE DEF more
<1>2. PICK g \in [0..Len(seqs) -> Seq(S)] :
        /\ FlattenTraces(Len(seqs), g, seqs)
        /\ FlattenSeq(seqs) = g[Len(seqs)]
  BY FlattenTrace
<1>3. PICK h \in [0..Len(more) -> Seq(S)] :
        /\ FlattenTraces(Len(more), h, more)
        /\ FlattenSeq(more) = h[Len(more)]
  BY <1>1, FlattenTrace
<1>4. /\ g[0] = <<>> /\ h[0] = <<>>
      /\ \A i \in 1..n : g[i] = g[i - 1] \o seqs[i]
      /\ \A i \in 1..(n + 1) : h[i] = h[i - 1] \o more[i]
  BY <1>1, <1>2, <1>3 DEF FlattenTraces
<1>5. FlattenSeq(seqs) = g[n] /\ FlattenSeq(more) = h[n + 1]
  BY <1>1, <1>2, <1>3
<1>6. n \in Nat BY <1>1
<1> HIDE DEF n
<1>7. \A i \in 1..n : i \in 1..(n + 1) BY <1>6
<1>8. Alike(n, h, g) BY <1>1, <1>4, <1>7 DEF Alike
<1>9. h[n] = g[n] BY <1>6, <1>8, SameTrace
<1>10. n + 1 \in 1..(n + 1) /\ (n + 1) - 1 = n BY <1>6
<1>11. h[n + 1] = h[n] \o s BY <1>1, <1>4, <1>10
<1> QED BY <1>5, <1>9, <1>11 DEF more

-----------------------------------------------------------------------------
(* A path that is written with its slashes is read as it was.              *)

LEMMA SlashedNone == Slashed(<<>>) = <<>>
<1>1. [i \in DOMAIN <<>> |-> <<Slash>> \o <<>>[i]] = <<>> OBVIOUS
<1> QED BY <1>1, FlattenNone DEF Slashed

LEMMA SlashedParts ==
  ASSUME NEW path \in Seq(Piece)
  PROVE  [i \in DOMAIN path |-> <<Slash>> \o path[i]] \in Seq(Seq(Byte))
<1>1. \A i \in 1..Len(path) : <<Slash>> \o path[i] \in Seq(Byte)
  <2> SUFFICES ASSUME NEW i \in 1..Len(path)
               PROVE  <<Slash>> \o path[i] \in Seq(Byte)
    OBVIOUS
  <2>1. path[i] \in Seq(Byte) BY DEF Piece
  <2>2. <<Slash>> \in Seq(Byte) BY DEF Slash, Byte
  <2> QED BY <2>1, <2>2
<1>2. DOMAIN path = 1..Len(path) /\ Len(path) \in Nat OBVIOUS
<1> QED BY <1>1, <1>2

LEMMA SlashedType ==
  ASSUME NEW path \in Seq(Piece)
  PROVE  Slashed(path) \in Seq(Byte)
BY SlashedParts, FlattenType DEF Slashed

LEMMA SlashedSnoc ==
  ASSUME NEW path \in Seq(Piece), NEW name \in Piece
  PROVE  Slashed(Append(path, name)) =
           Slashed(path) \o (<<Slash>> \o name)
<1> DEFINE s == <<Slash>> \o name
           p == [i \in DOMAIN path |-> <<Slash>> \o path[i]]
           m == Append(path, name)
           q == [i \in DOMAIN m |-> <<Slash>> \o m[i]]
<1>1. p \in Seq(Seq(Byte)) BY SlashedParts
<1>2. m \in Seq(Piece) OBVIOUS
<1>3. q \in Seq(Seq(Byte))
  <2> HIDE DEF m
  <2> QED BY <1>2, SlashedParts
<1>4. s \in Seq(Byte)
  <2>1. name \in Seq(Byte) BY DEF Piece
  <2>2. <<Slash>> \in Seq(Byte) BY DEF Slash, Byte
  <2> QED BY <2>1, <2>2
<1>5. q = Append(p, s)
  <2>1. Len(q) = Len(path) + 1 /\ Len(p) = Len(path) /\ Len(path) \in Nat
    OBVIOUS
  <2>2. \A i \in 1..Len(path) : q[i] = p[i] OBVIOUS
  <2>3. q[Len(path) + 1] = s OBVIOUS
  <2> DEFINE r == Append(p, s)
  <2> HIDE DEF p, q, s
  <2>4. r \in Seq(Seq(Byte)) /\ Len(r) = Len(path) + 1
    BY <1>1, <1>4, <2>1
  <2>5. \A i \in 1..Len(q) : q[i] = r[i]
    BY <1>1, <1>4, <2>1, <2>2, <2>3
  <2> HIDE DEF r
  <2>6. q = r BY <1>3, <2>1, <2>4, <2>5, SeqEq
  <2> QED BY <2>6 DEF r
<1>6. FlattenSeq(Append(p, s)) = FlattenSeq(p) \o s
  <2> HIDE DEF p, s
  <2> QED BY <1>1, <1>4, FlattenSnoc
<1> QED BY <1>5, <1>6 DEF Slashed

LEMMA ProperPieces == Proper \subseteq Piece /\ Seq(Proper) \subseteq Seq(Piece)
<1>1. Proper \subseteq Piece BY DEF Proper, FileName, Piece
<1> QED BY <1>1

Begun == [path |-> <<>>, piece |-> <<>>]

LEMMA SlashedRun ==
  ASSUME NEW path \in Seq(Proper)
  PROVE  AppendText(<<>>, Slashed(path)) = path
<1> DEFINE end(p) == Appending(Begun, Slashed(p))
           A == {p \in Seq(Proper) : AppendName(end(p).path, end(p).piece) = p}
<1>1. Begun \in AppendStates BY DEF AppendStates, Piece, Begun
<1>2. <<>> \in A
  <2>1. end(<<>>) = Begun BY <1>1, SlashedNone, AppendingNone
  <2> QED BY <2>1 DEF Begun, AppendName
<1>3. ASSUME NEW p \in Seq(Proper), NEW name \in Proper, p \in A
      PROVE  Append(p, name) \in A
  <2>1. p \in Seq(Piece) /\ name \in Piece BY ProperPieces
  <2>2. Slashed(p) \in Seq(Byte) BY <2>1, SlashedType
  <2>3. <<Slash>> \in Seq(Byte) /\ name \in Seq(Byte) /\ Slash \in Byte
    BY <2>1 DEF Piece, Slash, Byte
  <2>4. Slashed(Append(p, name)) = Slashed(p) \o (<<Slash>> \o name)
    BY <2>1, SlashedSnoc
  <2>5. end(p) \in AppendStates BY <1>1, <2>2, AppendingState
  <2>6. Appending(end(p), <<Slash>>) = [path |-> p, piece |-> <<>>]
    <3>1. <<Slash>> = Append(<<>>, Slash) /\ <<>> \in Seq(Byte) OBVIOUS
    <3>2. Appending(end(p), Append(<<>>, Slash)) =
            AppendByte(Appending(end(p), <<>>), Slash)
      BY <2>3, <2>5, <3>1, AppendingByte
    <3>3. Appending(end(p), <<>>) = end(p) BY <2>5, AppendingNone
    <3>4. AppendName(end(p).path, end(p).piece) = p BY <1>3
    <3> QED BY <3>1, <3>2, <3>3, <3>4 DEF AppendByte
  <2> DEFINE s == [path |-> p, piece |-> <<>>]
  <2>7. Appending(s, name) = [path |-> p, piece |-> name]
    BY <2>1, NameRun
  <2>8. s \in AppendStates BY DEF AppendStates, Piece
  <2>9. Appending(end(p), <<Slash>> \o name) = [path |-> p, piece |-> name]
    <3> HIDE DEF s, end
    <3>1. Appending(end(p), <<Slash>> \o name) =
            Appending(Appending(end(p), <<Slash>>), name)
      BY <2>3, <2>5, AppendingBoth
    <3>2. Appending(end(p), <<Slash>>) = s BY <2>6 DEF s
    <3> QED BY <2>7, <3>1, <3>2
  <2>10. end(Append(p, name)) = Appending(end(p), <<Slash>> \o name)
    <3>1. <<Slash>> \o name \in Seq(Byte) BY <2>3
    <3> DEFINE more == <<Slash>> \o name
    <3> HIDE DEF more
    <3>2. Appending(Begun, Slashed(p) \o more) =
            Appending(Appending(Begun, Slashed(p)), more)
      BY <1>1, <2>2, <3>1, AppendingBoth DEF more
    <3> QED BY <2>4, <3>2 DEF more
  <2>11. AppendName(p, name) = Append(p, name)
    BY DEF AppendName, Proper, FileName, Dots
  <2>12. Append(p, name) \in Seq(Proper) OBVIOUS
  <2>13. end(Append(p, name)) = [path |-> p, piece |-> name]
    BY <2>9, <2>10
  <2> HIDE DEF end
  <2> QED BY <2>11, <2>12, <2>13
<1> HIDE DEF A
<1>4. path \in A BY <1>2, <1>3, TextInduction
<1> QED BY <1>4 DEF A, AppendText, Appending, Begun

\* A path that is not the root's begins with its slash.
LEMMA SlashedFirst ==
  ASSUME NEW path \in Seq(Piece), path # <<>>
  PROVE  /\ Slashed(path) \in Seq(Byte) /\ Slashed(path) # <<>>
         /\ Slashed(path)[1] = Slash
<1> DEFINE A == {p \in Seq(Piece) : p # <<>> =>
                   Slashed(p) # <<>> /\ Slashed(p)[1] = Slash}
<1>1. <<>> \in A OBVIOUS
<1>2. ASSUME NEW p \in Seq(Piece), NEW name \in Piece, p \in A
      PROVE  Append(p, name) \in A
  <2> DEFINE s == Slashed(p)
             t == <<Slash>> \o name
  <2>1. s \in Seq(Byte) BY SlashedType
  <2>2. name \in Seq(Byte) /\ <<Slash>> \in Seq(Byte)
    BY DEF Piece, Slash, Byte
  <2>3. t \in Seq(Byte) /\ t # <<>> /\ t[1] = Slash BY <2>2
  <2>4. Slashed(Append(p, name)) = s \o t BY SlashedSnoc
  <2>5. CASE p = <<>>
    <3>1. s = <<>> BY <2>5, SlashedNone
    <3> HIDE DEF t
    <3>2. s \o t = t BY <2>3, <3>1
    <3> QED BY <2>3, <2>4, <3>2
  <2>6. CASE p # <<>>
    <3>1. s # <<>> /\ s[1] = Slash BY <1>2, <2>6
    <3> HIDE DEF s, t
    <3>2. s \o t # <<>> /\ (s \o t)[1] = s[1]
      BY <2>1, <2>3, <3>1
    <3> QED BY <2>4, <3>1, <3>2
  <2> QED BY <2>5, <2>6
<1> HIDE DEF A
<1>3. path \in A BY <1>1, <1>2, TextInduction
<1> QED BY <1>3, SlashedType DEF A

LEMMA SlashAndStr ==
  ASSUME NEW path \in Seq(Piece), path # <<>>
  PROVE  Str(path) \in Seq(Byte) /\ <<Slash>> \o Str(path) = Slashed(path)
<1> DEFINE s == Slashed(path)
<1>1. s \in Seq(Byte) /\ s # <<>> /\ s[1] = Slash BY SlashedFirst
<1>2. Str(path) = Tail(s) BY DEF Str
<1> HIDE DEF s
<1>3. Tail(s) \in Seq(Byte) BY <1>1
<1>4. <<Slash>> \o Tail(s) = s
  <2> DEFINE r == <<Slash>> \o Tail(s)
  <2>1. <<Slash>> \in Seq(Byte) BY DEF Slash, Byte
  <2>2. r \in Seq(Byte) /\ Len(r) = Len(s) BY <1>1, <1>3, <2>1
  <2>3. \A i \in 1..Len(s) : r[i] = s[i] BY <1>1, <1>3
  <2> HIDE DEF r
  <2>4. r = s BY <1>1, <2>2, <2>3, SeqEq
  <2> QED BY <2>4 DEF r
<1> QED BY <1>2, <1>3, <1>4 DEF s

\* MLSD's name of a file leads to it from any directory.
LEMMA PathLeads ==
  ASSUME NEW path \in Seq(Proper), path # <<>>, NEW dir
  PROVE  ChdirText(dir, <<Slash>> \o Str(path)) = path
<1>1. path \in Seq(Piece) BY ProperPieces
<1>2. <<Slash>> \o Str(path) = Slashed(path) BY <1>1, SlashAndStr
<1>3. Slashed(path) # <<>> /\ Slashed(path)[1] = Slash BY <1>1, SlashedFirst
<1> QED BY <1>2, <1>3, SlashedRun DEF ChdirText

-----------------------------------------------------------------------------
(* Quoting, and back.                                                      *)

DequoteStates == [out : Seq(Nat), held : Seq(Nat)]

LEMMA DigitIsNumber == \A c \in Nat : Digit(c) \in Nat
BY DEF Digit

LEMMA DequoteByteState ==
  ASSUME NEW s \in DequoteStates, NEW c \in Byte
  PROVE  DequoteByte(s, c) \in DequoteStates
<1>1. s.out \in Seq(Nat) /\ s.held \in Seq(Nat) /\ c \in Nat
      /\ s = [out |-> s.out, held |-> s.held]
  BY DEF DequoteStates, Byte
<1>2. CASE s.held = <<>> /\ c # Percent
  <2>1. DequoteByte(s, c) = [s EXCEPT !.out = Append(@, c)]
    BY <1>2 DEF DequoteByte
  <2>2. DequoteByte(s, c) = [out |-> Append(s.out, c), held |-> s.held]
    BY <2>1 DEF DequoteStates
  <2>3. Append(s.out, c) \in Seq(Nat) BY <1>1
  <2> QED BY <1>1, <2>2, <2>3 DEF DequoteStates
<1>3. CASE Len(s.held) = 2
  <2>1. DequoteByte(s, c) = [out  |-> Append(s.out, Decoded(s.held[2], c)),
                             held |-> <<>>]
    BY <1>1, <1>3 DEF DequoteByte
  <2>2. s.held[2] \in Nat BY <1>1, <1>3
  <2>3. Decoded(s.held[2], c) \in Nat
    BY <1>1, <2>2, DigitIsNumber DEF Decoded
  <2> QED BY <1>1, <2>1, <2>3 DEF DequoteStates
<1>4. CASE ~ (s.held = <<>> /\ c # Percent) /\ Len(s.held) # 2
  <2>1. DequoteByte(s, c) = [s EXCEPT !.held = Append(@, c)]
    BY <1>4 DEF DequoteByte
  <2>2. DequoteByte(s, c) = [out |-> s.out, held |-> Append(s.held, c)]
    BY <2>1 DEF DequoteStates
  <2>3. Append(s.held, c) \in Seq(Nat) BY <1>1
  <2> QED BY <1>1, <2>2, <2>3 DEF DequoteStates
<1> QED BY <1>2, <1>3, <1>4

DequoteRun(start, text) == Scan(DequoteByte, start, text)

LEMMA DequoteTrace ==
  ASSUME NEW start \in DequoteStates, NEW text \in Seq(Byte)
  PROVE  \E g \in [0..Len(text) -> DequoteStates] :
           /\ g[0] = start
           /\ \A i \in 1..Len(text) : g[i] = DequoteByte(g[i - 1], text[i])
           /\ DequoteRun(start, text) = g[Len(text)]
<1> DEFINE f == [s \in DequoteStates |-> [c \in Byte |-> DequoteByte(s, c)]]
           Solves(g) == g = [i \in 0..Len(text) |->
                               IF i = 0 THEN start
                               ELSE DequoteByte(g[i - 1], text[i])]
           a == CHOOSE g : Solves(g)
<1>1. f \in [DequoteStates -> [Byte -> DequoteStates]]
  BY DequoteByteState
<1>2. \A s \in DequoteStates, c \in Byte : f[s][c] = DequoteByte(s, c)
  OBVIOUS
<1> HIDE DEF f
<1>3. PICK g \in [0..Len(text) -> DequoteStates] :
        Traces(Len(text), g, f, start, text)
  BY <1>1, TraceExists
<1>4. \A i \in 1..Len(text) : g[i] = DequoteByte(g[i - 1], text[i])
  <2>1. \A i \in 1..Len(text) : i - 1 \in 0..Len(text) /\ text[i] \in Byte
    OBVIOUS
  <2> QED BY <1>2, <1>3, <2>1 DEF Traces
<1>5. Solves(g) BY <1>3, <1>4 DEF Traces
<1>6. Solves(a)
  <2> HIDE DEF Solves
  <2> QED BY <1>5
<1>7. DequoteRun(start, text) = a[Len(text)] BY DEF DequoteRun, Scan
<1> HIDE DEF a
<1>8. \A i \in 0..Len(text) : a[i] = g[i]
  <2>1. a[0] = start /\ \A i \in 1..Len(text) :
                          a[i] = DequoteByte(a[i - 1], text[i])
    BY <1>6
  <2>2. Len(text) \in Nat /\ a[0] = g[0] BY <1>3, <2>1 DEF Traces
  <2>3. \A i \in 1..Len(text) : a[i - 1] = g[i - 1] => a[i] = g[i]
    BY <1>4, <2>1
  <2>4. Alike(Len(text), a, g) BY <2>2, <2>3 DEF Alike
  <2> QED BY <2>2, <2>4, SameTrace
<1> QED BY <1>3, <1>4, <1>7, <1>8 DEF Traces


LEMMA DequoteRunNone ==
  ASSUME NEW start \in DequoteStates
  PROVE  DequoteRun(start, <<>>) = start
<1>1. <<>> \in Seq(Byte) /\ Len(<<>>) = 0 OBVIOUS
<1>2. PICK g \in [0..Len(<<>>) -> DequoteStates] :
        /\ g[0] = start
        /\ DequoteRun(start, <<>>) = g[Len(<<>>)]
  BY <1>1, DequoteTrace
<1> QED BY <1>1, <1>2

LEMMA DequoteRunState ==
  ASSUME NEW start \in DequoteStates, NEW text \in Seq(Byte)
  PROVE  DequoteRun(start, text) \in DequoteStates
<1>1. PICK g \in [0..Len(text) -> DequoteStates] :
        DequoteRun(start, text) = g[Len(text)]
  BY DequoteTrace
<1> QED BY <1>1

LEMMA DequoteRunByte ==
  ASSUME NEW start \in DequoteStates, NEW text \in Seq(Byte), NEW c \in Byte
  PROVE  DequoteRun(start, Append(text, c)) =
           DequoteByte(DequoteRun(start, text), c)
<1> DEFINE more == Append(text, c)
           n == Len(text)
<1>1. /\ more \in Seq(Byte) /\ Len(more) = n + 1 /\ n \in Nat
      /\ more[n + 1] = c /\ \A i \in 1..n : more[i] = text[i]
  OBVIOUS
<1> HIDE DEF more
<1>2. PICK g \in [0..Len(text) -> DequoteStates] :
        /\ g[0] = start
        /\ \A i \in 1..Len(text) : g[i] = DequoteByte(g[i - 1], text[i])
        /\ DequoteRun(start, text) = g[Len(text)]
  BY DequoteTrace
<1>3. PICK h \in [0..Len(more) -> DequoteStates] :
        /\ h[0] = start
        /\ \A i \in 1..Len(more) : h[i] = DequoteByte(h[i - 1], more[i])
        /\ DequoteRun(start, more) = h[Len(more)]
  BY <1>1, DequoteTrace
<1> HIDE DEF n
<1>4. \A i \in 1..n : h[i - 1] = g[i - 1] => h[i] = g[i]
  <2>1. \A i \in 1..n : i \in 1..Len(more) /\ i \in 1..Len(text)
    BY <1>1 DEF n
  <2> QED BY <1>1, <1>2, <1>3, <2>1
<1>5. h[0] = g[0] BY <1>2, <1>3
<1>6. \A i \in 0..n : h[i] = g[i]
  <2>1. n \in Nat BY <1>1
  <2>2. Alike(n, h, g) BY <1>4, <1>5 DEF Alike
  <2> QED BY <2>1, <2>2, SameTrace
<1>7. h[n] = DequoteRun(start, text) BY <1>1, <1>2, <1>6 DEF n
<1>8. n + 1 \in 1..Len(more) /\ (n + 1) - 1 = n BY <1>1
<1>9. h[n + 1] = DequoteByte(h[n], c) BY <1>1, <1>3, <1>8
<1>10. DequoteRun(start, more) = DequoteByte(DequoteRun(start, text), c)
  BY <1>1, <1>3, <1>7, <1>9
<1> QED BY <1>10 DEF more

\* It may stop between two texts.
LEMMA DequoteRunBoth ==
  ASSUME NEW start \in DequoteStates, NEW text \in Seq(Byte),
         NEW more \in Seq(Byte)
  PROVE  DequoteRun(start, text \o more) =
           DequoteRun(DequoteRun(start, text), more)
<1> DEFINE mid == DequoteRun(start, text)
           A == {w \in Seq(Byte) :
                   DequoteRun(start, text \o w) = DequoteRun(mid, w)}
<1>0. mid \in DequoteStates BY DequoteRunState
<1>1. <<>> \in A
  <2>1. <<>> \in Seq(Byte) /\ text \o <<>> = text BY EmptyFirst
  <2> QED BY <1>0, <2>1, DequoteRunNone
<1>2. ASSUME NEW w \in Seq(Byte), NEW c \in Byte, w \in A
      PROVE  Append(w, c) \in A
  <2>1. text \o Append(w, c) = Append(text \o w, c) BY ConcatSnoc
  <2>2. text \o w \in Seq(Byte) /\ Append(w, c) \in Seq(Byte) OBVIOUS
  <2>3. DequoteRun(start, Append(text \o w, c)) =
          DequoteByte(DequoteRun(start, text \o w), c)
    BY <2>2, DequoteRunByte
  <2> HIDE DEF mid
  <2>4. DequoteRun(mid, Append(w, c)) = DequoteByte(DequoteRun(mid, w), c)
    BY <1>0, DequoteRunByte
  <2>5. DequoteRun(start, text \o w) = DequoteRun(mid, w) BY <1>2
  <2> QED BY <2>1, <2>2, <2>3, <2>4, <2>5
<1> HIDE DEF A
<1>3. more \in A BY <1>1, <1>2, TextInduction
<1> QED BY <1>3 DEF A

LEMMA LargerSeq ==
  ASSUME NEW S, NEW T, S \subseteq T, NEW u \in Seq(S)
  PROVE  u \in Seq(T)
OBVIOUS

\* What has been read, with nothing held.
Read(text) == [out |-> text, held |-> <<>>]

LEMMA ReadState ==
  ASSUME NEW u \in Seq(Byte)
  PROVE  Read(u) \in DequoteStates
<1>1. Byte \subseteq Nat BY DEF Byte
<1>2. u \in Seq(Nat) BY <1>1, LargerSeq
<1> QED BY <1>2 DEF Read, DequoteStates

LEMMA DequoteOne ==
  ASSUME NEW s \in DequoteStates, NEW c \in Byte
  PROVE  DequoteRun(s, <<c>>) = DequoteByte(s, c)
<1>1. <<c>> = Append(<<>>, c) /\ <<>> \in Seq(Byte) OBVIOUS
<1>2. DequoteRun(s, Append(<<>>, c)) = DequoteByte(DequoteRun(s, <<>>), c)
  BY <1>1, DequoteRunByte
<1> QED BY <1>1, <1>2, DequoteRunNone

\* A character other than the percent sign is read as it is.
LEMMA DequotePlain ==
  ASSUME NEW u \in Seq(Byte), NEW c \in Byte, c # Percent
  PROVE  DequoteByte(Read(u), c) = Read(Append(u, c))
<1> DEFINE s == Read(u)
<1>1. s.held = <<>> /\ s.out = u /\ Len(s.held) # 2 BY DEF Read
<1>2. DequoteByte(s, c) = [s EXCEPT !.out = Append(@, c)]
  <2> HIDE DEF s
  <2> QED BY <1>1 DEF DequoteByte
<1> QED BY <1>2 DEF Read

LEMMA HexDigits ==
  ASSUME NEW n \in 0..15
  PROVE  HexDigit(n) \in Byte /\ Digit(HexDigit(n)) = n
<1>1. CASE n <= 9
  <2>1. HexDigit(n) = n + 48 /\ n + 48 \in 48..57 BY <1>1 DEF HexDigit
  <2>2. ~ (n + 48 \in 65..70) /\ ~ (n + 48 \in 97..102) BY <1>1
  <2>3. Digit(n + 48) = (n + 48) - 48 BY <2>1, <2>2 DEF Digit
  <2> QED BY <2>1, <2>3 DEF Byte
<1>2. CASE ~ (n <= 9)
  <2>1. HexDigit(n) = n + 55 /\ n + 55 \in 65..70 BY <1>2 DEF HexDigit
  <2>2. ~ (n + 55 \in 48..57) /\ ~ (n + 55 \in 97..102) BY <1>2
  <2>3. Digit(n + 55) = (n + 55) - 55 BY <2>1, <2>2 DEF Digit
  <2> QED BY <2>1, <2>3 DEF Byte
<1> QED BY <1>1, <1>2

LEMMA Halves ==
  ASSUME NEW c \in Byte
  PROVE  /\ c \div 16 \in 0..15 /\ c % 16 \in 0..15
         /\ 16 * (c \div 16) + (c % 16) = c
<1>1. c \in Int /\ 1 <= c /\ c <= 255 BY DEF Byte
<1>2. c \div 16 \in Int /\ c % 16 \in 0..15
      /\ c = 16 * (c \div 16) + (c % 16)
  BY <1>1
<1>3. 0 <= c \div 16 /\ c \div 16 <= 15 BY <1>1, <1>2
<1> QED BY <1>2, <1>3

\* hexdigitise and hexdigit agree, for every byte.
LEMMA DecodedIs ==
  ASSUME NEW c \in Byte
  PROVE  /\ HexDigit(c \div 16) \in Byte /\ HexDigit(c % 16) \in Byte
         /\ Decoded(HexDigit(c \div 16), HexDigit(c % 16)) = c
<1>1. /\ c \div 16 \in 0..15 /\ c % 16 \in 0..15
      /\ 16 * (c \div 16) + (c % 16) = c
  BY Halves
<1>2. HexDigit(c \div 16) \in Byte /\ Digit(HexDigit(c \div 16)) = c \div 16
  BY <1>1, HexDigits
<1>3. HexDigit(c % 16) \in Byte /\ Digit(HexDigit(c % 16)) = c % 16
  BY <1>1, HexDigits
<1> DEFINE a == c \div 16
           b == c % 16
           h == HexDigit(a)
           l == HexDigit(b)
<1> HIDE DEF a, b
<1>4. Decoded(h, l) = 16 * a + b
  <2>1. Digit(h) = a /\ Digit(l) = b BY <1>2, <1>3 DEF a, b
  <2> HIDE DEF h, l
  <2> QED BY <2>1 DEF Decoded
<1>5. 16 * a + b = c BY <1>1 DEF a, b
<1> QED BY <1>2, <1>3, <1>4, <1>5 DEF a, b

LEMMA QuotedType ==
  ASSUME NEW c \in Byte
  PROVE  Quoted(c) \in Seq(Byte)
<1>1. Percent \in Byte BY DEF Percent, Byte
<1> QED BY <1>1, DecodedIs DEF Quoted

\* The sequence that stands for a byte is read as that byte.
LEMMA QuotedRun ==
  ASSUME NEW u \in Seq(Byte), NEW c \in Byte
  PROVE  DequoteRun(Read(u), Quoted(c)) = Read(Append(u, c))
<1>0. Read(u) \in DequoteStates BY ReadState
<1>1. CASE Safe(c)
  <2>1. c # Percent BY <1>1 DEF Safe, Unreserved, Percent
  <2>2. Quoted(c) = <<c>> BY <1>1 DEF Quoted
  <2> QED BY <1>0, <2>1, <2>2, DequoteOne, DequotePlain
<1>2. CASE ~ Safe(c)
  <2> DEFINE h == HexDigit(c \div 16)
             l == HexDigit(c % 16)
             s1 == [out |-> u, held |-> <<Percent>>]
             s2 == [out |-> u, held |-> <<Percent, h>>]
  <2>1. h \in Byte /\ l \in Byte /\ Decoded(h, l) = c BY DecodedIs
  <2>2. Percent \in Byte BY DEF Percent, Byte
  <2>3. Quoted(c) = <<Percent, h, l>> BY <1>2 DEF Quoted
  <2> HIDE DEF h, l
  <2>4. u \in Seq(Nat) /\ Percent \in Nat /\ h \in Nat
    <3>1. Byte \subseteq Nat BY DEF Byte
    <3> QED BY <2>1, <2>2, <3>1, LargerSeq
  <2>5. s1 \in DequoteStates /\ s2 \in DequoteStates
    BY <2>4 DEF DequoteStates
  <2>6. DequoteByte(Read(u), Percent) = s1 BY DEF DequoteByte, Read
  <2>7. DequoteByte(s1, h) = s2
    <3>1. s1.held # <<>> /\ Len(s1.held) # 2 OBVIOUS
    <3>2. DequoteByte(s1, h) = [s1 EXCEPT !.held = Append(@, h)]
      BY <3>1 DEF DequoteByte
    <3> QED BY <3>2
  <2>8. DequoteByte(s2, l) = Read(Append(u, c))
    <3>1. s2.held # <<>> /\ Len(s2.held) = 2 /\ s2.held[2] = h OBVIOUS
    <3>2. DequoteByte(s2, l) = [out |-> Append(u, Decoded(h, l)),
                                held |-> <<>>]
      BY <3>1 DEF DequoteByte
    <3> QED BY <2>1, <3>2 DEF Read
  <2> HIDE DEF s1, s2
  <2> DEFINE t1 == <<Percent>>
             t2 == <<Percent, h>>
  <2>9. t1 \in Seq(Byte) /\ t2 \in Seq(Byte) BY <2>1, <2>2
  <2>10. t2 = Append(t1, h) /\ <<Percent, h, l>> = Append(t2, l) OBVIOUS
  <2>11. DequoteRun(Read(u), t1) = s1 BY <1>0, <2>2, <2>6, DequoteOne
  <2> HIDE DEF t1, t2
  <2>12. DequoteRun(Read(u), t2) = s2
    BY <1>0, <2>1, <2>7, <2>9, <2>10, <2>11, DequoteRunByte
  <2>13. DequoteRun(Read(u), Append(t2, l)) = Read(Append(u, c))
    BY <1>0, <2>1, <2>8, <2>9, <2>12, DequoteRunByte
  <2> QED BY <2>3, <2>10, <2>13
<1> QED BY <1>1, <1>2

-----------------------------------------------------------------------------
LEMMA QuoteNone == Quote(<<>>) = <<>>
<1>1. [i \in DOMAIN <<>> |-> Quoted(<<>>[i])] = <<>> OBVIOUS
<1> QED BY <1>1, FlattenNone DEF Quote

LEMMA QuoteParts ==
  ASSUME NEW text \in Seq(Byte)
  PROVE  [i \in DOMAIN text |-> Quoted(text[i])] \in Seq(Seq(Byte))
<1>1. \A i \in 1..Len(text) : Quoted(text[i]) \in Seq(Byte)
  BY QuotedType
<1>2. DOMAIN text = 1..Len(text) /\ Len(text) \in Nat OBVIOUS
<1> QED BY <1>1, <1>2

LEMMA QuoteType ==
  ASSUME NEW text \in Seq(Byte)
  PROVE  Quote(text) \in Seq(Byte)
BY QuoteParts, FlattenType DEF Quote

LEMMA QuoteSnoc ==
  ASSUME NEW text \in Seq(Byte), NEW c \in Byte
  PROVE  Quote(Append(text, c)) = Quote(text) \o Quoted(c)
<1> DEFINE s == Quoted(c)
           p == [i \in DOMAIN text |-> Quoted(text[i])]
           m == Append(text, c)
           q == [i \in DOMAIN m |-> Quoted(m[i])]
<1>1. p \in Seq(Seq(Byte)) BY QuoteParts
<1>2. m \in Seq(Byte) OBVIOUS
<1>3. q \in Seq(Seq(Byte))
  <2> HIDE DEF m
  <2> QED BY <1>2, QuoteParts
<1>4. s \in Seq(Byte) BY QuotedType
<1>5. q = Append(p, s)
  <2>1. Len(q) = Len(text) + 1 /\ Len(p) = Len(text) /\ Len(text) \in Nat
    OBVIOUS
  <2>2. \A i \in 1..Len(text) : q[i] = p[i] OBVIOUS
  <2>3. q[Len(text) + 1] = s OBVIOUS
  <2> DEFINE r == Append(p, s)
  <2> HIDE DEF p, q, s
  <2>4. r \in Seq(Seq(Byte)) /\ Len(r) = Len(text) + 1
    BY <1>1, <1>4, <2>1
  <2>5. \A i \in 1..Len(q) : q[i] = r[i]
    BY <1>1, <1>4, <2>1, <2>2, <2>3
  <2> HIDE DEF r
  <2>6. q = r BY <1>3, <2>1, <2>4, <2>5, SeqEq
  <2> QED BY <2>6 DEF r
<1>6. FlattenSeq(Append(p, s)) = FlattenSeq(p) \o s
  <2> HIDE DEF p, s
  <2> QED BY <1>1, <1>4, FlattenSnoc
<1> QED BY <1>5, <1>6 DEF Quote

\* A safe character stays in front.
LEMMA QuoteCons ==
  ASSUME NEW c \in Byte, Safe(c), NEW text \in Seq(Byte)
  PROVE  Quote(<<c>> \o text) = <<c>> \o Quote(text)
<1> DEFINE A == {t \in Seq(Byte) : Quote(<<c>> \o t) = <<c>> \o Quote(t)}
<1>0. <<c>> \in Seq(Byte) /\ <<c>> = Append(<<>>, c) /\ <<>> \in Seq(Byte)
  OBVIOUS
<1>1. <<>> \in A
  <2>1. <<c>> \o <<>> = <<c>> BY <1>0, EmptyFirst
  <2>2. Quote(Append(<<>>, c)) = Quote(<<>>) \o Quoted(c)
    BY <1>0, QuoteSnoc
  <2>3. Quoted(c) = <<c>> BY DEF Quoted
  <2>4. <<>> \o <<c>> = <<c>> BY <1>0, EmptyFirst
  <2> QED BY <1>0, <2>1, <2>2, <2>3, <2>4, QuoteNone
<1>2. ASSUME NEW t \in Seq(Byte), NEW d \in Byte, t \in A
      PROVE  Append(t, d) \in A
  <2> DEFINE u == <<c>>
             q == Quote(t)
             e == Quoted(d)
  <2>1. q \in Seq(Byte) /\ e \in Seq(Byte) BY QuoteType, QuotedType
  <2>2. u \in Seq(Byte) BY <1>0
  <2>3. Quote(u \o t) = u \o q BY <1>2
  <2> HIDE DEF u
  <2>4. u \o Append(t, d) = Append(u \o t, d) /\ u \o t \in Seq(Byte)
    BY <2>2, ConcatSnoc
  <2>5. Quote(Append(u \o t, d)) = Quote(u \o t) \o e BY <2>4, QuoteSnoc
  <2>6. Quote(Append(t, d)) = q \o e BY QuoteSnoc
  <2> HIDE DEF q, e
  <2>7. (u \o q) \o e = u \o (q \o e) BY <2>1, <2>2, ConcatAssoc
  <2>8. Append(t, d) \in Seq(Byte) OBVIOUS
  <2>9. Quote(u \o Append(t, d)) = u \o Quote(Append(t, d))
    BY <2>3, <2>4, <2>5, <2>6, <2>7
  <2> QED BY <2>8, <2>9 DEF u
<1> HIDE DEF A
<1>3. text \in A BY <1>1, <1>2, TextInduction
<1> QED BY <1>3 DEF A

\* URI::dequote_percent gives back every text that URI::quote_percent quotes,
\* whatever bytes are in it, percent signs, slashes and those above 127 too.
THEOREM QuoteRoundTrip ==
  ASSUME NEW text \in Seq(Byte)
  PROVE  Dequote(Quote(text)) = text
<1> DEFINE A == {t \in Seq(Byte) : DequoteRun(Read(<<>>), Quote(t)) = Read(t)}
<1>0. <<>> \in Seq(Byte) OBVIOUS
<1>1. Read(<<>>) \in DequoteStates BY <1>0, ReadState
<1>2. <<>> \in A BY <1>0, <1>1, QuoteNone, DequoteRunNone
<1>3. ASSUME NEW t \in Seq(Byte), NEW c \in Byte, t \in A
      PROVE  Append(t, c) \in A
  <2>1. Quote(t) \in Seq(Byte) /\ Quoted(c) \in Seq(Byte)
    BY QuoteType, QuotedType
  <2>2. Quote(Append(t, c)) = Quote(t) \o Quoted(c) BY QuoteSnoc
  <2>3. DequoteRun(Read(<<>>), Quote(t) \o Quoted(c)) =
          DequoteRun(DequoteRun(Read(<<>>), Quote(t)), Quoted(c))
    BY <1>1, <2>1, DequoteRunBoth
  <2>4. DequoteRun(Read(<<>>), Quote(t)) = Read(t) BY <1>3
  <2>5. DequoteRun(Read(t), Quoted(c)) = Read(Append(t, c)) BY QuotedRun
  <2>6. Append(t, c) \in Seq(Byte) OBVIOUS
  <2> QED BY <2>2, <2>3, <2>4, <2>5, <2>6
<1> HIDE DEF A
<1>4. text \in A BY <1>2, <1>3, TextInduction
<1>5. DequoteRun(Read(<<>>), Quote(text)) = Read(text) BY <1>4 DEF A
<1> QED BY <1>5 DEF Dequote, DequoteRun, Read

\* A text without a percent sign means itself.
LEMMA PlainDequote ==
  ASSUME NEW text \in Seq(Byte \ {Percent})
  PROVE  Dequote(text) = text
<1> DEFINE A == {t \in Seq(Byte) : DequoteRun(Read(<<>>), t) = Read(t)}
<1>0. <<>> \in Seq(Byte) OBVIOUS
<1>1. Read(<<>>) \in DequoteStates BY <1>0, ReadState
<1>2. <<>> \in A BY <1>0, <1>1, DequoteRunNone
<1>3. ASSUME NEW t \in Seq(Byte \ {Percent}), NEW c \in Byte \ {Percent},
             t \in A
      PROVE  Append(t, c) \in A
  <2>1. t \in Seq(Byte) /\ c \in Byte /\ c # Percent
        /\ Append(t, c) \in Seq(Byte)
    OBVIOUS
  <2>2. DequoteRun(Read(<<>>), Append(t, c)) =
          DequoteByte(DequoteRun(Read(<<>>), t), c)
    BY <1>1, <2>1, DequoteRunByte
  <2>3. DequoteRun(Read(<<>>), t) = Read(t) BY <1>3
  <2> QED BY <2>1, <2>2, <2>3, DequotePlain
<1> HIDE DEF A
<1>4. text \in A BY <1>2, <1>3, TextInduction
<1>5. DequoteRun(Read(<<>>), text) = Read(text) BY <1>4 DEF A
<1> QED BY <1>5 DEF Dequote, DequoteRun, Read

-----------------------------------------------------------------------------
(* Links.                                                                  *)

LEMMA MinIs ==
  ASSUME NEW A, NEW n \in A, n \in Int, \A j \in A : j \in Int /\ n <= j
  PROVE  Min(A) = n
<1>1. \E x \in A : \A y \in A : x <= y OBVIOUS
<1> DEFINE m == Min(A)
<1>2. m \in A /\ \A y \in A : m <= y BY <1>1 DEF Min
<1> HIDE DEF m
<1>3. m \in Int /\ n <= m /\ m <= n BY <1>2
<1> QED BY <1>3 DEF m

LEMMA FindIs ==
  ASSUME NEW text \in Seq(Byte), NEW c, NEW n \in 1..Len(text), text[n] = c,
         \A j \in 1..Len(text) : j < n => text[j] # c
  PROVE  Find(text, c) = n
<1> DEFINE at == {i \in DOMAIN text : text[i] = c}
<1>1. n \in at /\ n \in Int OBVIOUS
<1>2. \A j \in at : j \in Int /\ n <= j OBVIOUS
<1> HIDE DEF at
<1>3. Min(at) = n BY <1>1, <1>2, MinIs
<1> QED BY <1>1, <1>3 DEF Find, at

LEMMA FromSeq ==
  ASSUME NEW S, NEW s \in Seq(S), NEW n \in 1..(Len(s) + 1)
  PROVE  From(s, n) \in Seq(S) /\ Len(From(s, n)) = (Len(s) + 1) - n
BY DEF From

LEMMA FromAt ==
  ASSUME NEW S, NEW s \in Seq(S), NEW n \in 1..(Len(s) + 1),
         NEW i \in 1..((Len(s) + 1) - n)
  PROVE  From(s, n)[i] = s[(i + n) - 1]
BY DEF From

LEMMA ConcatSeq ==
  ASSUME NEW S, NEW s \in Seq(S), NEW t \in Seq(S)
  PROVE  s \o t \in Seq(S) /\ Len(s \o t) = Len(s) + Len(t)
OBVIOUS

LEMMA ConcatFirst ==
  ASSUME NEW S, NEW s \in Seq(S), NEW t \in Seq(S), NEW i \in 1..Len(s)
  PROVE  (s \o t)[i] = s[i]
OBVIOUS

LEMMA ConcatThen ==
  ASSUME NEW S, NEW s \in Seq(S), NEW t \in Seq(S), NEW i \in 1..Len(t)
  PROVE  (s \o t)[i + Len(s)] = t[i]
OBVIOUS

\* What begins with a slash is a path.
LEMMA ParseOfPath ==
  ASSUME NEW text \in Seq(Byte), text # <<>>, text[1] = Slash
  PROVE  /\ Parse(text) = ParsePath(<<>>, <<>>, text)
         /\ Find(text, Slash) = 1
<1>1. Find(text, Slash) = 1
  <2>1. 1 \in 1..Len(text) OBVIOUS
  <2>2. \A j \in 1..Len(text) : j < 1 => text[j] # Slash OBVIOUS
  <2> QED BY <2>1, <2>2, FindIs
<1>2. {i \in 1..(1 - 1) : EndsScheme(text, i)} = {} OBVIOUS
<1>3. 1 - 1 \notin {} OBVIOUS
<1> QED BY <1>1, <1>2, <1>3 DEF Parse

\* So is what follows the name of the host.
LEMMA ParseOfHost ==
  ASSUME NEW scheme, NEW text \in Seq(Byte), text # <<>>, text[1] = Slash
  PROVE  ParseAuthority(scheme, <<104>> \o text) =
           ParsePath(scheme, <<104>>, text)
<1> DEFINE all == <<104>> \o text
<1>1. 104 \in Byte /\ 104 # Percent /\ 104 # Slash
  BY DEF Byte, Percent, Slash
<1>2. <<104>> \in Seq(Byte) BY <1>1
<1>3. /\ all \in Seq(Byte) /\ Len(all) = Len(text) + 1 /\ Len(text) >= 1
      /\ all[1] = 104 /\ all[2] = Slash
      /\ \A i \in 1..Len(text) : all[i + 1] = text[i]
  BY <1>2
<1> HIDE DEF all
<1>4. Find(all, Slash) = 2
  <2>1. 2 \in 1..Len(all) BY <1>3
  <2>2. \A j \in 1..Len(all) : j < 2 => all[j] # Slash
    BY <1>1, <1>3
  <2> QED BY <1>3, <2>1, <2>2, FindIs
<1>5. Upto(all, 2 - 1) = <<104>>
  <2>1. Upto(all, 1) \in Seq(Byte) /\ Len(Upto(all, 1)) = 1
        /\ Upto(all, 1)[1] = 104
    BY <1>3 DEF Upto
  <2> QED BY <2>1
<1>6. From(all, 2) = text
  <2> DEFINE r == From(all, 2)
  <2>1. r \in Seq(Byte) /\ Len(r) = Len(text) BY <1>3 DEF From
  <2>2. \A i \in 1..Len(r) : r[i] = text[i] BY <1>3 DEF From
  <2> HIDE DEF r
  <2>3. r = text BY <2>1, <2>2, SeqEq
  <2> QED BY <2>3 DEF r
<1>7. Dequote(<<104>>) = <<104>>
  <2>1. <<104>> \in Seq(Byte \ {Percent}) BY <1>1
  <2> QED BY <2>1, PlainDequote
<1> QED BY <1>4, <1>5, <1>6, <1>7 DEF ParseAuthority, all

Http == <<104, 116, 116, 112>>
Site == Http \o <<Colon, Slash, Slash, 104>>

\* A whole URI is taken apart where it should be.
LEMMA ParseOfSite ==
  ASSUME NEW text \in Seq(Byte), text # <<>>, text[1] = Slash
  PROVE  Parse(Site \o text) = ParsePath(Http, <<104>>, text)
<1> DEFINE s == <<104, 116, 116, 112, Colon, Slash, Slash, 104>>
           all == s \o text
<1>1. Site = s
  <2> DEFINE u == <<104, 116, 116, 112>>
             v == <<Colon, Slash, Slash, 104>>
  <2>1. u \in Seq(Byte) /\ v \in Seq(Byte)
    BY DEF Colon, Slash, Byte
  <2>2. s \in Seq(Byte) /\ Len(s) = 8 /\ Len(u) = 4 /\ Len(v) = 4
    BY DEF Colon, Slash, Byte
  <2>3. \A i \in 1..4 : s[i] = u[i] /\ s[i + 4] = v[i] OBVIOUS
  <2> HIDE DEF u, v, s
  <2> DEFINE r == u \o v
  <2>4. r \in Seq(Byte) /\ Len(r) = Len(u) + Len(v) BY <2>1, ConcatSeq
  <2>5. \A i \in 1..Len(u) : r[i] = u[i] BY <2>1, ConcatFirst
  <2>6. \A i \in 1..Len(v) : r[i + Len(u)] = v[i] BY <2>1, ConcatThen
  <2> HIDE DEF r
  <2>7. Len(r) = 8 /\ \A i \in 1..4 : r[i] = u[i] /\ r[i + 4] = v[i]
    BY <2>2, <2>4, <2>5, <2>6
  <2>8. \A i \in 1..Len(s) : s[i] = r[i]
    <3> SUFFICES ASSUME NEW i \in 1..8 PROVE s[i] = r[i]
      BY <2>2
    <3>1. CASE i \in 1..4 BY <2>3, <2>7, <3>1
    <3>2. CASE i \notin 1..4
      <4>1. i - 4 \in 1..4 /\ (i - 4) + 4 = i BY <3>2
      <4> QED BY <2>3, <2>7, <4>1
    <3> QED BY <3>1, <3>2
  <2>9. Len(s) = Len(r) BY <2>2, <2>7
  <2>10. s \in Seq(Byte) BY <2>2
  <2>11. s = r BY <2>4, <2>9, <2>10, <2>8, SeqEq
  <2> QED BY <2>11 DEF Site, Http, u, v, r
<1>2. s \in Seq(Byte) /\ Len(s) = 8
  BY DEF Byte, Colon, Slash
<1>3. /\ s[1] = 104 /\ s[2] = 116 /\ s[3] = 116 /\ s[4] = 112
      /\ s[5] = Colon /\ s[6] = Slash /\ s[7] = Slash /\ s[8] = 104
  OBVIOUS
<1> HIDE DEF s
<1>4. s \in Seq(Byte) BY <1>2
<1>5. all \in Seq(Byte) /\ Len(all) = Len(s) + Len(text)
  BY <1>4, ConcatSeq
<1>6. \A i \in 1..Len(s) : all[i] = s[i] BY <1>4, ConcatFirst
<1>7. \A i \in 1..Len(text) : all[i + Len(s)] = text[i] BY <1>4, ConcatThen
<1>8. Len(text) >= 1 /\ Len(text) \in Nat OBVIOUS
<1> HIDE DEF all
<1>9. all \in Seq(Byte) BY <1>5
<1>10. /\ Len(all) = Len(text) + 8
       /\ \A i \in 1..8 : all[i] = s[i]
       /\ \A i \in 1..Len(text) : all[i + 8] = text[i]
  BY <1>2, <1>5, <1>6, <1>7, <1>8
<1>11. /\ all[1] = 104 /\ all[2] = 116 /\ all[3] = 116 /\ all[4] = 112
       /\ all[5] = Colon /\ all[6] = Slash /\ all[7] = Slash /\ all[8] = 104
  BY <1>3, <1>10
<1>12. \A j \in 1..5 : all[j] # Slash BY <1>11 DEF Slash, Colon
<1>13. Find(all, Slash) = 6
  <2>1. 6 \in 1..Len(all) BY <1>10, <1>8
  <2>2. \A j \in 1..Len(all) : j < 6 => j \in 1..5 BY <1>10, <1>8
  <2>3. \A j \in 1..Len(all) : j < 6 => all[j] # Slash BY <1>12, <2>2
  <2> QED BY <1>11, <1>9, <2>1, <2>3, FindIs
<1> DEFINE colons == {i \in 1..(6 - 1) : EndsScheme(all, i)}
<1>14. 5 \in colons
  <2> DEFINE before == {j \in 1..(5 - 1) : all[j] # Colon}
  <2>1. 4 \in before /\ \A j \in before : j \in Int /\ 4 >= j
    BY <1>11 DEF Colon
  <2>2. Max(before) = 4 /\ before # {}
    <3> HIDE DEF before
    <3> QED BY <2>1 DEF Max
  <2>3. 5 - 1 - 4 = 0 /\ 0 % 2 = 0 OBVIOUS
  <2> HIDE DEF before
  <2>4. (5 - 1 - (IF before = {} THEN 0 ELSE Max(before))) % 2 = 0
    BY <2>2, <2>3
  <2> QED BY <1>11, <2>4 DEF EndsScheme, before
<1>15. \A i \in colons : i \in Int /\ 5 >= i OBVIOUS
<1> HIDE DEF colons
<1>16. Max(colons) = 5 /\ colons # {} BY <1>14, <1>15 DEF Max
<1>17. Dequote(Upto(all, 5 - 1)) = Http
  <2> DEFINE r == Upto(all, 4)
  <2>1. r \in Seq(Byte) /\ Len(r) = 4 /\ r[1] = 104 /\ r[2] = 116
        /\ r[3] = 116 /\ r[4] = 112
    BY <1>10, <1>11, <1>8, <1>9 DEF Upto
  <2> HIDE DEF r
  <2>2. r = Http BY <2>1 DEF Http
  <2>3. Http \in Seq(Byte \ {Percent}) BY DEF Http, Byte, Percent
  <2>4. Dequote(Http) = Http BY <2>3, PlainDequote
  <2> QED BY <2>2, <2>4 DEF r
<1> DEFINE after == From(all, 6 + 1)
<1>18. 7 \in 1..(Len(all) + 1) /\ 6 + 1 = 7 BY <1>10, <1>8
<1>19. after \in Seq(Byte) /\ Len(after) = (Len(all) + 1) - 7
  BY <1>9, <1>18, FromSeq
<1>20. \A i \in 1..((Len(all) + 1) - 7) : after[i] = all[(i + 7) - 1]
  BY <1>9, <1>18, FromAt
<1> HIDE DEF after
<1>21. /\ Len(after) = Len(text) + 2 /\ after[1] = Slash /\ after[2] = 104
       /\ \A i \in 1..Len(text) : after[i + 2] = text[i]
  <2>1. Len(after) = Len(text) + 2 BY <1>10, <1>8, <1>19
  <2>2. \A i \in 1..(Len(text) + 2) : after[i] = all[i + 6]
    <3> SUFFICES ASSUME NEW i \in 1..(Len(text) + 2)
                 PROVE  after[i] = all[i + 6]
      OBVIOUS
    <3>1. i \in 1..((Len(all) + 1) - 7) /\ (i + 7) - 1 = i + 6
      BY <1>10, <1>8
    <3> QED BY <1>20, <3>1
  <2>3. 1 \in 1..(Len(text) + 2) /\ 2 \in 1..(Len(text) + 2)
        /\ 1 + 6 = 7 /\ 2 + 6 = 8
    BY <1>8
  <2>4. after[1] = Slash /\ after[2] = 104
    BY <1>11, <2>2, <2>3
  <2>5. ASSUME NEW i \in 1..Len(text) PROVE after[i + 2] = text[i]
    <3>1. i + 2 \in 1..(Len(text) + 2) /\ (i + 2) + 6 = i + 8 BY <1>8
    <3>2. after[i + 2] = all[i + 8] BY <2>2, <3>1
    <3> QED BY <1>10, <3>2
  <2> QED BY <2>1, <2>4, <2>5
<1>22. From(after, 2) = <<104>> \o text
  <2> DEFINE r == From(after, 2)
             o == <<104>>
             w == o \o text
  <2>1. 2 \in 1..(Len(after) + 1) BY <1>21, <1>8
  <2>2. after \in Seq(Byte) BY <1>19
  <2>3. r \in Seq(Byte) /\ Len(r) = (Len(after) + 1) - 2
    BY <2>1, <2>2, FromSeq
  <2>4. \A i \in 1..((Len(after) + 1) - 2) : r[i] = after[(i + 2) - 1]
    BY <2>1, <2>2, FromAt
  <2>5. o \in Seq(Byte) BY DEF Byte
  <2>6. Len(o) = 1 /\ o[1] = 104 OBVIOUS
  <2> HIDE DEF o, r
  <2>7. w \in Seq(Byte) /\ Len(w) = Len(o) + Len(text) BY <2>5, ConcatSeq
  <2>8. \A i \in 1..Len(o) : w[i] = o[i] BY <2>5, ConcatFirst
  <2>9. \A i \in 1..Len(text) : w[i + Len(o)] = text[i]
    BY <2>5, ConcatThen
  <2> HIDE DEF w
  <2>10. Len(r) = Len(text) + 1 /\ Len(w) = Len(text) + 1
    BY <1>21, <1>8, <2>3, <2>6, <2>7
  <2>11. \A i \in 1..Len(r) : r[i] = w[i]
    <3> SUFFICES ASSUME NEW i \in 1..(Len(text) + 1) PROVE r[i] = w[i]
      BY <2>10
    <3>1. r[i] = after[i + 1]
      <4>1. i \in 1..((Len(after) + 1) - 2) /\ (i + 2) - 1 = i + 1
        BY <1>21, <1>8
      <4> QED BY <2>4, <4>1
    <3>2. CASE i = 1
      <4>1. 1 \in 1..Len(o) /\ 1 + 1 = 2 BY <2>6
      <4> QED BY <1>21, <2>6, <2>8, <3>1, <3>2, <4>1
    <3>3. CASE i # 1
      <4>1. i - 1 \in 1..Len(text) /\ (i - 1) + 2 = i + 1
            /\ (i - 1) + 1 = i
        BY <1>8, <3>3
      <4>2. after[i + 1] = text[i - 1] BY <1>21, <4>1
      <4>3. w[i] = text[i - 1] BY <2>6, <2>9, <4>1
      <4> QED BY <3>1, <4>2, <4>3
    <3> QED BY <3>2, <3>3
  <2>12. Len(r) = Len(w) BY <2>10
  <2>13. r \in Seq(Byte) /\ w \in Seq(Byte) BY <2>3, <2>7
  <2>14. r = w BY <2>11, <2>12, <2>13, SeqEq
  <2> QED BY <2>14 DEF r, w, o
<1>23. after # <<>> BY <1>21, <1>8
<1>24. ParseAuthority(Http, <<104>> \o text) = ParsePath(Http, <<104>>, text)
  BY ParseOfHost
<1>25. 6 - 1 = 5 OBVIOUS
<1>26. Parse(all) = ParseAuthority(Http, From(after, 2))
  BY <1>13, <1>14, <1>16, <1>17, <1>21, <1>23, <1>25 DEF Parse, colons, after
<1> QED BY <1>1, <1>22, <1>24, <1>26 DEF all

LEMMA LinkLeads ==
  ASSUME NEW path \in Seq(Proper), path # <<>>
  PROVE  LET text == <<Slash>> \o HtmlQuoted(path)
         IN  /\ Parse(text) = URI(<<>>, <<>>, path)
             /\ Parse(Http \o <<Colon, Slash, Slash, 104>> \o text) =
                  URI(Http, <<104>>, path)
<1> DEFINE text == <<Slash>> \o HtmlQuoted(path)
<1>1. path \in Seq(Piece) BY ProperPieces
<1>2. Str(path) \in Seq(Byte) /\ <<Slash>> \o Str(path) = Slashed(path)
  BY <1>1, SlashAndStr
<1>3. Slash \in Byte /\ Safe(Slash) BY DEF Slash, Byte, Safe, Unreserved
<1>4. text = Quote(Slashed(path))
  BY <1>2, <1>3, QuoteCons DEF HtmlQuoted
<1>5. Slashed(path) \in Seq(Byte) BY <1>1, SlashedType
<1>6. Dequote(text) = Slashed(path) BY <1>4, <1>5, QuoteRoundTrip
<1>7. AppendText(<<>>, Dequote(text)) = path BY <1>6, SlashedRun
<1>8. text \in Seq(Byte) /\ text # <<>> /\ text[1] = Slash
  <2>1. HtmlQuoted(path) \in Seq(Byte) BY <1>2, QuoteType DEF HtmlQuoted
  <2>2. <<Slash>> \in Seq(Byte) BY <1>3
  <2> QED BY <2>1, <2>2
<1> HIDE DEF text
<1>9. \A s, a : ParsePath(s, a, text) = URI(s, a, path)
  BY <1>7 DEF ParsePath
<1>10. Parse(text) = URI(<<>>, <<>>, path) BY <1>8, <1>9, ParseOfPath
<1>11. Parse(Site \o text) = URI(Http, <<104>>, path)
  BY <1>8, <1>9, ParseOfSite
<1> QED BY <1>10, <1>11 DEF Site, text

-----------------------------------------------------------------------------
(* Patterns.                                                               *)

\* A cut at q goes with the cut before it.
Fits(name, pat, q, cut) ==
  IF pat[q] = Star THEN cut[q - 1] <= cut[q]
  ELSE cut[q] = cut[q - 1] + 1 /\ pat[q] \in {Question, name[cut[q]]}

\* What the pattern from p on means for the name from i on.
Tails(name, pat, p, i) ==
  \E cut \in [(p - 1)..Len(pat) -> 0..Len(name)] :
    /\ cut[p - 1] = i - 1 /\ cut[Len(pat)] = Len(name)
    /\ \A q \in p..Len(pat) : Fits(name, pat, q, cut)

\* The same of one character of the pattern, between places of the name.
Fit(name, pat, p, i, j) ==
  IF pat[p] = Star THEN i <= j
  ELSE j = i + 1 /\ pat[p] \in {Question, name[i]}

LEMMA MeansTails ==
  ASSUME NEW name \in Seq(Byte), NEW pat \in Seq(Byte)
  PROVE  Means(name, pat) <=> Tails(name, pat, 1, 1)
<1>1. 1 - 1 = 0 OBVIOUS
<1> QED BY <1>1 DEF Means, Tails, Fits

LEMMA TailsNone ==
  ASSUME NEW name \in Seq(Byte), NEW pat \in Seq(Byte),
         NEW i \in 1..(Len(name) + 1)
  PROVE  Tails(name, pat, Len(pat) + 1, i) <=> i = Len(name) + 1
<1> DEFINE m == Len(pat)
           n == Len(name)
<1>0. m \in Nat /\ n \in Nat /\ (m + 1) - 1 = m /\ (m + 1)..m = {} OBVIOUS
<1>1. ASSUME Tails(name, pat, m + 1, i) PROVE i = n + 1
  <2>1. PICK cut \in [((m + 1) - 1)..m -> 0..n] :
          cut[(m + 1) - 1] = i - 1 /\ cut[m] = n
    BY <1>1 DEF Tails
  <2>2. i - 1 = n BY <1>0, <2>1
  <2> QED BY <1>0, <2>2
<1>2. ASSUME i = n + 1 PROVE Tails(name, pat, m + 1, i)
  <2> DEFINE cut == [q \in m..m |-> n]
  <2>1. cut \in [m..m -> 0..n] /\ cut[m] = n BY <1>0
  <2>2. i - 1 = n BY <1>0, <1>2
  <2> HIDE DEF cut
  <2> QED BY <1>0, <2>1, <2>2 DEF Tails
<1> QED BY <1>1, <1>2

LEMMA TailsOne ==
  ASSUME NEW name \in Seq(Byte), NEW pat \in Seq(Byte),
         NEW p \in 1..Len(pat), NEW i \in 1..(Len(name) + 1)
  PROVE  Tails(name, pat, p, i) <=>
           \E j \in 1..(Len(name) + 1) :
             Fit(name, pat, p, i, j) /\ Tails(name, pat, p + 1, j)
<1> DEFINE m == Len(pat)
           n == Len(name)
<1>0. m \in Nat /\ n \in Nat /\ (p + 1) - 1 = p /\ p \in p..m
      /\ p - 1 \in (p - 1)..m /\ p \in (p - 1)..m
  OBVIOUS
<1>1. ASSUME Tails(name, pat, p, i)
      PROVE  \E j \in 1..(n + 1) :
               Fit(name, pat, p, i, j) /\ Tails(name, pat, p + 1, j)
  <2>1. PICK cut \in [(p - 1)..m -> 0..n] :
          /\ cut[p - 1] = i - 1 /\ cut[m] = n
          /\ \A q \in p..m : Fits(name, pat, q, cut)
    BY <1>1 DEF Tails
  <2> DEFINE j == cut[p] + 1
             c == [q \in p..m |-> cut[q]]
  <2>2. cut[p] \in 0..n BY <1>0, <2>1
  <2>3. j \in 1..(n + 1) /\ j - 1 = cut[p] BY <1>0, <2>2
  <2>4. Fits(name, pat, p, cut) BY <1>0, <2>1
  <2>5. Fit(name, pat, p, i, j)
    <3>1. CASE pat[p] = Star
      <4>1. i - 1 <= cut[p] BY <2>1, <2>4, <3>1 DEF Fits
      <4>2. i <= j BY <2>2, <4>1
      <4> QED BY <3>1, <4>2 DEF Fit
    <3>2. CASE pat[p] # Star
      <4>1. cut[p] = (i - 1) + 1 /\ pat[p] \in {Question, name[cut[p]]}
        BY <2>1, <2>4, <3>2 DEF Fits
      <4>2. cut[p] = i BY <4>1
      <4> QED BY <3>2, <4>1, <4>2 DEF Fit
    <3> QED BY <3>1, <3>2
  <2>6. c \in [p..m -> 0..n] /\ \A q \in p..m : c[q] = cut[q]
    BY <1>0, <2>1
  <2> HIDE DEF c, j
  <2>7. c[p] = j - 1 /\ c[m] = n BY <1>0, <2>1, <2>3, <2>6
  <2>8. ASSUME NEW q \in (p + 1)..m PROVE Fits(name, pat, q, c)
    <3>1. q \in p..m /\ q - 1 \in p..m BY <1>0
    <3>2. Fits(name, pat, q, cut) /\ c[q] = cut[q] /\ c[q - 1] = cut[q - 1]
      BY <2>1, <2>6, <3>1
    <3> QED BY <3>2 DEF Fits
  <2>9. Tails(name, pat, p + 1, j) BY <1>0, <2>6, <2>7, <2>8 DEF Tails
  <2> QED BY <2>3, <2>5, <2>9
<1>2. ASSUME NEW j \in 1..(n + 1), Fit(name, pat, p, i, j),
             Tails(name, pat, p + 1, j)
      PROVE  Tails(name, pat, p, i)
  <2>1. PICK cut \in [p..m -> 0..n] :
          /\ cut[p] = j - 1 /\ cut[m] = n
          /\ \A q \in (p + 1)..m : Fits(name, pat, q, cut)
    BY <1>0, <1>2 DEF Tails
  <2> DEFINE c == [q \in (p - 1)..m |-> IF q = p - 1 THEN i - 1 ELSE cut[q]]
  <2>2. i - 1 \in 0..n BY <1>0
  <2>3. \A q \in (p - 1)..m : q # p - 1 => q \in p..m BY <1>0
  <2>4. c \in [(p - 1)..m -> 0..n] BY <2>1, <2>2, <2>3
  <2>5. c[p - 1] = i - 1 BY <1>0
  <2>6. \A q \in p..m : q # p - 1 /\ q \in (p - 1)..m BY <1>0
  <2>7. \A q \in p..m : c[q] = cut[q] BY <2>6
  <2> HIDE DEF c
  <2>8. c[m] = n BY <1>0, <2>1, <2>7
  <2>9. ASSUME NEW q \in p..m PROVE Fits(name, pat, q, c)
    <3>1. CASE q = p
      <4>1. c[q] = j - 1 /\ c[q - 1] = i - 1
        BY <1>0, <2>1, <2>5, <2>7, <3>1
      <4>2. CASE pat[p] = Star
        <5>1. i <= j BY <1>2, <4>2 DEF Fit
        <5>2. i - 1 <= j - 1 BY <5>1
        <5> QED BY <3>1, <4>1, <4>2, <5>2 DEF Fits
      <4>3. CASE pat[p] # Star
        <5>1. j = i + 1 /\ pat[p] \in {Question, name[i]}
          BY <1>2, <4>3 DEF Fit
        <5>2. c[q] = i /\ i = (i - 1) + 1 BY <4>1, <5>1
        <5> QED BY <3>1, <4>1, <4>3, <5>1, <5>2 DEF Fits
      <4> QED BY <4>2, <4>3
    <3>2. CASE q # p
      <4>1. q \in (p + 1)..m /\ q - 1 \in p..m BY <3>2
      <4>2. Fits(name, pat, q, cut) BY <2>1, <4>1
      <4>3. c[q] = cut[q] /\ c[q - 1] = cut[q - 1] BY <2>7, <4>1
      <4> QED BY <4>2, <4>3 DEF Fits
    <3> QED BY <3>1, <3>2
  <2> QED BY <2>4, <2>5, <2>8, <2>9 DEF Tails
<1> QED BY <1>1, <1>2

\* The places from which the pattern from p on means the rest of the name.
Places(name, pat, p) ==
  {i \in 1..(Len(name) + 1) : Tails(name, pat, p, i)}

PlacesOne(name, pat, p, next) ==
  CASE pat[p] # Star ->
         {i \in 1..Len(name) :
            pat[p] \in {Question, name[i]} /\ i + 1 \in next}
    [] pat[p] = Star /\ p = Len(pat) ->
         1..(Len(name) + 1)
    [] pat[p] = Star /\ p < Len(pat) ->
         IF pat[p + 1] = Star THEN next
         ELSE {i \in 1..(Len(name) + 1) :
                 \E j \in Rests(i, Len(name)) : j \in next}

\* One character of the pattern is matched as it means.
LEMMA PlacesGrow ==
  ASSUME NEW name \in Seq(Byte), NEW pat \in Seq(Byte),
         NEW p \in 1..Len(pat)
  PROVE  Places(name, pat, p) =
           PlacesOne(name, pat, p, Places(name, pat, p + 1))
<1> DEFINE m == Len(pat)
           n == Len(name)
           next == Places(name, pat, p + 1)
           T(q, i) == Tails(name, pat, q, i)
<1>0. m \in Nat /\ n \in Nat /\ p \in Int OBVIOUS
<1>1. \A i \in 1..(n + 1) :
        T(p, i) <=> \E j \in 1..(n + 1) : Fit(name, pat, p, i, j) /\ T(p + 1, j)
  BY TailsOne
<1>2. \A j : j \in next <=> j \in 1..(n + 1) /\ T(p + 1, j) BY DEF Places
<1>3. \A i : i \in Places(name, pat, p) <=> i \in 1..(n + 1) /\ T(p, i)
  BY DEF Places
<1> HIDE DEF m, n, next, T
<1>4. CASE pat[p] # Star
  <2> DEFINE R == {i \in 1..n : pat[p] \in {Question, name[i]}
                                 /\ i + 1 \in next}
  <2>1. \A i \in 1..(n + 1), j \in 1..(n + 1) :
          Fit(name, pat, p, i, j) <=>
            j = i + 1 /\ pat[p] \in {Question, name[i]}
    BY <1>4 DEF Fit
  <2>2. ASSUME NEW i \in 1..(n + 1)
        PROVE  T(p, i) <=> i \in R
    <3>1. i + 1 \in 1..(n + 1) <=> i \in 1..n BY <1>0
    <3> QED BY <1>1, <1>2, <2>1, <3>1
  <2>3. \A i \in R : i \in 1..(n + 1) BY <1>0
  <2> HIDE DEF R
  <2>4. Places(name, pat, p) = R BY <1>3, <2>2, <2>3
  <2> QED BY <1>4, <2>4 DEF PlacesOne, R, n, next
<1>5. CASE pat[p] = Star
  <2>1. \A i \in 1..(n + 1), j \in 1..(n + 1) :
          Fit(name, pat, p, i, j) <=> i <= j
    BY <1>5 DEF Fit
  <2>2. \A i \in 1..(n + 1) :
          T(p, i) <=> \E j \in 1..(n + 1) : i <= j /\ T(p + 1, j)
    BY <1>1, <2>1
  <2>3. CASE p = m
    <3>1. T(p + 1, n + 1) /\ n + 1 \in 1..(n + 1)
      BY <1>0, <2>3, TailsNone DEF T, m, n
    <3>2. \A i \in 1..(n + 1) : i <= n + 1 BY <1>0
    <3>3. \A i \in 1..(n + 1) : T(p, i) BY <2>2, <3>1, <3>2
    <3>4. Places(name, pat, p) = 1..(n + 1) BY <1>3, <3>3
    <3> QED BY <1>5, <2>3, <3>4 DEF PlacesOne, m, n
  <2>4. CASE p # m
    <3>1. p < m /\ p + 1 \in 1..m BY <1>0, <2>4 DEF m
    <3>2. \A j \in 1..(n + 1) :
            T(p + 1, j) <=> \E k \in 1..(n + 1) :
              Fit(name, pat, p + 1, j, k) /\ T((p + 1) + 1, k)
      BY <3>1, TailsOne DEF T, m, n
    <3>3. CASE pat[p + 1] = Star
      <4>1. \A j \in 1..(n + 1), k \in 1..(n + 1) :
              Fit(name, pat, p + 1, j, k) <=> j <= k
        BY <3>3 DEF Fit
      <4>2. \A j \in 1..(n + 1) :
              T(p + 1, j) <=>
                \E k \in 1..(n + 1) : j <= k /\ T((p + 1) + 1, k)
        BY <3>2, <4>1
      <4>3. \A i \in 1..(n + 1) : T(p, i) <=> T(p + 1, i)
        <5> SUFFICES ASSUME NEW i \in 1..(n + 1)
                     PROVE  T(p, i) <=> T(p + 1, i)
          OBVIOUS
        <5>1. ASSUME T(p + 1, i) PROVE T(p, i)
          <6>1. i <= i BY <1>0
          <6> QED BY <2>2, <5>1, <6>1
        <5>2. ASSUME T(p, i) PROVE T(p + 1, i)
          <6>1. PICK j \in 1..(n + 1) : i <= j /\ T(p + 1, j)
            BY <2>2, <5>2
          <6>2. PICK k \in 1..(n + 1) : j <= k /\ T((p + 1) + 1, k)
            BY <4>2, <6>1
          <6>3. i <= k BY <1>0, <6>1, <6>2
          <6> QED BY <4>2, <6>2, <6>3
        <5> QED BY <5>1, <5>2
      <4>4. Places(name, pat, p) = next BY <1>2, <1>3, <4>3
      <4> QED BY <1>5, <2>4, <3>1, <3>3, <4>4 DEF PlacesOne, m, next
    <3>4. CASE pat[p + 1] # Star
      <4> DEFINE R == {i \in 1..(n + 1) : \E j \in Rests(i, n) : j \in next}
      <4>1. \A j \in 1..(n + 1) : T(p + 1, j) => j \in 1..n
        <5> SUFFICES ASSUME NEW j \in 1..(n + 1), T(p + 1, j)
                     PROVE  j \in 1..n
          OBVIOUS
        <5>1. PICK k \in 1..(n + 1) : Fit(name, pat, p + 1, j, k)
          BY <3>2
        <5>2. k = j + 1 BY <3>4, <5>1 DEF Fit
        <5> QED BY <1>0, <5>2
      <4>2. ASSUME NEW i \in 1..(n + 1)
            PROVE  T(p, i) <=> \E j \in Rests(i, n) : j \in next
        <5>1. \A j : j \in Rests(i, n) <=> j \in 1..n /\ i <= j
          BY <1>0 DEF Rests
        <5>2. \A j : j \in 1..n => j \in 1..(n + 1) BY <1>0
        <5> QED BY <1>2, <2>2, <4>1, <5>1, <5>2
      <4>3. Places(name, pat, p) = R BY <1>3, <4>2
      <4> QED BY <1>5, <2>4, <3>1, <3>4, <4>3 DEF PlacesOne, m, n, next
    <3> QED BY <3>3, <3>4
  <2> QED BY <2>3, <2>4
<1> QED BY <1>4, <1>5

LEMMA PlacesLast ==
  ASSUME NEW name \in Seq(Byte), NEW pat \in Seq(Byte)
  PROVE  Places(name, pat, Len(pat) + 1) = {Len(name) + 1}
<1>1. Len(name) + 1 \in 1..(Len(name) + 1) OBVIOUS
<1> QED BY <1>1, TailsNone DEF Places

LEMMA MatchingIsPlaces ==
  ASSUME NEW name \in Seq(Byte), NEW pat \in Seq(Byte)
  PROVE  \A p \in 1..(Len(pat) + 1) :
           Matching(name, pat)[p] = Places(name, pat, p)
<1> DEFINE end == Len(pat) + 1
           Solves(g) == g = [p \in 1..end |->
             IF p = end THEN {Len(name) + 1}
             ELSE PlacesOne(name, pat, p, g[p + 1])]
           a == CHOOSE g : Solves(g)
           b == [p \in 1..end |-> Places(name, pat, p)]
<1>0. end \in Nat /\ end >= 1 OBVIOUS
<1>1. \A p \in 1..end : p # end => p \in 1..Len(pat) /\ p + 1 \in 1..end
  OBVIOUS
<1>2. Solves(b)
  <2>1. \A p \in 1..end : b[p] = IF p = end THEN {Len(name) + 1}
                                 ELSE PlacesOne(name, pat, p, b[p + 1])
    <3> SUFFICES ASSUME NEW p \in 1..end
                 PROVE  b[p] = IF p = end THEN {Len(name) + 1}
                               ELSE PlacesOne(name, pat, p, b[p + 1])
      OBVIOUS
    <3>1. CASE p = end BY <3>1, PlacesLast
    <3>2. CASE p # end
      <4>1. p \in 1..Len(pat) /\ b[p + 1] = Places(name, pat, p + 1)
        BY <1>1, <3>2
      <4> QED BY <3>2, <4>1, PlacesGrow
    <3> QED BY <3>1, <3>2
  <2> QED BY <2>1
<1>3. Solves(a)
  <2> HIDE DEF Solves, b
  <2> QED BY <1>2
<1>4. Matching(name, pat) = a BY DEF Matching, PlacesOne
<1> HIDE DEF a
<1>5. \A p \in 1..end : a[p] = IF p = end THEN {Len(name) + 1}
                               ELSE PlacesOne(name, pat, p, a[p + 1])
  BY <1>3
<1>6. \A p \in 1..end : b[p] = IF p = end THEN {Len(name) + 1}
                               ELSE PlacesOne(name, pat, p, b[p + 1])
  BY <1>2
<1>7. \A p \in 1..end : b[p] = Places(name, pat, p) OBVIOUS
<1> HIDE DEF Solves, b, end
<1> DEFINE n == end - 1
           g == [k \in 0..n |-> a[end - k]]
           h == [k \in 0..n |-> b[end - k]]
<1>8. n \in Nat BY <1>0
<1>9. Alike(n, g, h)
  <2>1. g[0] = h[0]
    <3>1. 0 \in 0..n /\ end - 0 = end /\ end \in 1..end BY <1>0
    <3> QED BY <1>5, <1>6, <3>1
  <2>2. ASSUME NEW k \in 1..n, g[k - 1] = h[k - 1] PROVE g[k] = h[k]
    <3> DEFINE p == end - k
    <3>1. k \in 0..n /\ k - 1 \in 0..n /\ p \in 1..end /\ p # end
          /\ end - (k - 1) = p + 1
      BY <1>0
    <3>2. a[p + 1] = b[p + 1] BY <2>2, <3>1
    <3>3. g[k] = a[p] /\ h[k] = b[p] BY <3>1
    <3> HIDE DEF p, g, h
    <3> QED BY <1>5, <1>6, <3>1, <3>2, <3>3
  <2> QED BY <2>1, <2>2 DEF Alike
<1>10. \A k \in 0..n : g[k] = h[k]
  <2> HIDE DEF n, g, h
  <2> QED BY <1>8, <1>9, SameTrace
<1>11. ASSUME NEW p \in 1..end PROVE a[p] = b[p]
  <2>1. end - p \in 0..n /\ end - (end - p) = p BY <1>0
  <2>2. g[end - p] = a[p] /\ h[end - p] = b[p] BY <2>1
  <2> HIDE DEF g, h
  <2> QED BY <1>10, <2>1, <2>2
<1> QED BY <1>4, <1>7, <1>11 DEF end

\* FileListerGlob::match, which tries a star with ever shorter rests of the name
\* and gives up at the first byte that differs, says yes just where there are
\* places in the name that the bytes of the pattern, its stars and its question
\* marks stand for, for every pattern and every name.
THEOREM MatchMeans ==
  ASSUME NEW name \in Seq(Byte), NEW pat \in Seq(Byte)
  PROVE  Match(name, pat) <=> Means(name, pat)
<1>1. 1 \in 1..(Len(pat) + 1) /\ 1 \in 1..(Len(name) + 1) OBVIOUS
<1>2. Matching(name, pat)[1] = Places(name, pat, 1)
  BY <1>1, MatchingIsPlaces
<1>3. Match(name, pat) <=> Tails(name, pat, 1, 1)
  BY <1>1, <1>2 DEF Match, Places
<1> QED BY <1>3, MeansTails

-----------------------------------------------------------------------------
(* The rest of a sequence.                                                 *)

LEMMA FromEnd ==
  ASSUME NEW S, NEW s \in Seq(S), NEW n \in 1..(Len(s) + 1)
  PROVE  From(s, n) = <<>> <=> n = Len(s) + 1
<1>1. From(s, n) \in Seq(S) /\ Len(From(s, n)) = (Len(s) + 1) - n
  BY FromSeq
<1> DEFINE r == From(s, n)
<1> HIDE DEF r
<1>2. r = <<>> <=> Len(r) = 0 BY <1>1 DEF r
<1>3. Len(s) \in Nat OBVIOUS
<1> QED BY <1>1, <1>2, <1>3 DEF r

\* FromFirst, of the set of the places that are as wanted.
FromSet(s, A) == IF A = {} THEN <<>> ELSE From(s, Min(A))

LEMMA MinOf ==
  ASSUME NEW A \in SUBSET Nat, A # {}
  PROVE  Min(A) \in A /\ \A m \in A : Min(A) <= m
<1>1. PICK n \in A : \A m \in A : n <= m BY LeastOf
<1>2. n \in Int /\ \A m \in A : m \in Int /\ n <= m BY <1>1
<1>3. Min(A) = n BY <1>2, MinIs
<1> QED BY <1>1, <1>3

LEMMA FromSetIs ==
  ASSUME NEW S, NEW s \in Seq(S), NEW A \in SUBSET (1..Len(s))
  PROVE  \E m \in 1..(Len(s) + 1) :
           /\ FromSet(s, A) = From(s, m)
           /\ m <= Len(s) => m \in A
           /\ \A k \in A : m <= k
<1>0. Len(s) \in Nat OBVIOUS
<1>1. CASE A = {}
  <2> DEFINE m == Len(s) + 1
  <2>1. m \in 1..(Len(s) + 1) /\ ~ (m <= Len(s)) BY <1>0
  <2>2. From(s, m) = <<>> BY <2>1, FromEnd
  <2>3. FromSet(s, A) = <<>> BY <1>1 DEF FromSet
  <2> QED BY <1>1, <2>1, <2>2, <2>3
<1>2. CASE A # {}
  <2>1. A \in SUBSET Nat BY <1>0
  <2>2. Min(A) \in A /\ \A k \in A : Min(A) <= k BY <1>2, <2>1, MinOf
  <2>3. FromSet(s, A) = From(s, Min(A)) BY <1>2 DEF FromSet
  <2> DEFINE m == Min(A)
  <2>4. m \in 1..Len(s) BY <2>2
  <2> HIDE DEF m
  <2>5. m \in 1..(Len(s) + 1) BY <1>0, <2>4
  <2> QED BY <2>2, <2>3, <2>5 DEF m
<1> QED BY <1>1, <1>2

-----------------------------------------------------------------------------
(* What the listers pass over.                                             *)

\* From place i on, up to place m, a lister gives nothing that stays.
Passes(entries, pat, i, m) ==
  \A k \in i..(m - 1) :
    Gives(entries[k], pat) => entries[k].path \in gone

LEMMA ReadsIs ==
  ASSUME NEW S, NEW entries \in Seq(S), NEW pat,
         NEW i \in 1..(Len(entries) + 1), NEW dir \in {"none", "open"},
         NEW r \in Reads(entries, pat, i, dir)
  PROVE  /\ r.place \in i..(Len(entries) + 1)
         /\ r.stream \in {"none", "open", "failed"}
         /\ r.stream = "failed" => r.place = Len(entries) + 1
         /\ r.stream # "failed" =>
              /\ r.place <= Len(entries) => Gives(entries[r.place], pat)
              /\ Passes(entries, pat, i, r.place)
<1> DEFINE end == Len(entries) + 1
           Passed(l) == Gives(entries[l], pat) => entries[l].path \in gone
           Stop(l) == l \in DOMAIN entries => Gives(entries[l], pat)
           stops == {l \in i..end :
                       Stop(l) /\ \A j \in i..(l - 1) : Passed(j)}
<1>0. Len(entries) \in Nat /\ DOMAIN entries = 1..Len(entries) OBVIOUS
<1>1. \/ \E l \in stops : r = [place |-> l, stream |-> dir]
      \/ r = [place |-> end, stream |-> "failed"]
  BY DEF Reads
<1>2. CASE r = [place |-> end, stream |-> "failed"]
  <2>1. end \in i..(Len(entries) + 1) BY <1>0
  <2> QED BY <1>2, <2>1
<1>3. ASSUME NEW l \in stops, r = [place |-> l, stream |-> dir]
      PROVE  /\ r.place \in i..(Len(entries) + 1)
             /\ r.stream = dir
             /\ r.place <= Len(entries) => Gives(entries[r.place], pat)
             /\ Passes(entries, pat, i, r.place)
  <2>1. r.place = l /\ r.stream = dir BY <1>3
  <2>2. l \in i..(Len(entries) + 1) /\ Stop(l)
        /\ \A j \in i..(l - 1) : Passed(j)
    OBVIOUS
  <2>3. l <= Len(entries) => l \in DOMAIN entries BY <1>0, <2>2
  <2>4. Passes(entries, pat, i, l) BY <2>2 DEF Passes
  <2> QED BY <2>1, <2>2, <2>3, <2>4
<1> QED BY <1>1, <1>2, <1>3

-----------------------------------------------------------------------------
(* The invariant of a listing.                                             *)

Entries == {e \in [name : FileName, path : Seq(FileName)] :
              /\ e.path # <<>>
              /\ e.name \notin Dots => e.path \in Seq(Proper)}

LineSet == [part : {"entry", "total", "head", "foot", "torn"},
            text : Seq(Byte), path : Seq(FileName)]

PathsDiffer(entries) ==
  \A i, j \in 1..Len(entries) : entries[i].path = entries[j].path => i = j

\* What is written, and the line being written.
Lines == out \o buf

Wanted == {k \in 1..Len(asked) : Gives(asked[k], pattern)}

\* What is told of the entries before n, in lines.
TellsOnly(lines, n) ==
  \A i \in 1..Len(lines) : lines[i].part = "entry" =>
    \E k \in Wanted : k < n /\ lines[i] = LineOf(asked[k])

\* The line i is of the entry k.
IsOf(lines, i, k) ==
  lines[i].part = "entry" /\ lines[i].path = asked[k].path

InOrder(lines) ==
  \A i, j \in 1..Len(lines), k, l \in 1..Len(asked) :
    i < j /\ IsOf(lines, i, k) /\ IsOf(lines, j, l) => k < l

IsTold(lines, k) == \E i \in 1..Len(lines) : IsOf(lines, i, k)

\* What a listing may leave out.
Lacks == gone \cup {line.path : line \in lost}

TellsAll(lines, n, lack) ==
  \A k \in Wanted : k < n => asked[k].path \in lack \/ IsTold(lines, k)

Tells(lines, n, lack) ==
  TellsOnly(lines, n) /\ InOrder(lines) /\ TellsAll(lines, n, lack)

\* The lister is at the entry n, the first that is not told and that it gives,
\* unless it broke off there.
Stands(n) ==
  /\ stream # "failed" => place = n /\ (n <= Len(asked) => n \in Wanted)
  /\ stream = "failed" => place = Len(asked) + 1

AtNext(n) == Stands(n) /\ Tells(Lines, n, Lacks)

ListingTypes ==
  /\ asked \in Seq(Entries) /\ PathsDiffer(asked)
  /\ place \in 1..(Len(asked) + 1) /\ stream \in {"none", "open", "failed"}
  /\ pattern \in Seq(Byte)
  /\ out \in Seq(LineSet) /\ buf \in Seq(LineSet)
  /\ footed \in BOOLEAN /\ done \in BOOLEAN

\* A page, but for the lines that are missing.
HeadFirst(lines, missing) ==
  /\ \A i \in 1..Len(lines) : lines[i] = Around("head") => i = 1
  /\ \/ Around("head") \in missing
     \/ lines # <<>> /\ lines[1] = Around("head")

FootLast(lines, missing) ==
  \/ Around("foot") \in missing
  \/ lines # <<>> /\ lines[Len(lines)] = Around("foot")

Page ==
  /\ HeadFirst(Lines, lost)
  /\ footed => NoEntriesLeft(place) /\ FootLast(Lines, lost)

Idle == out = None /\ buf = None /\ done = FALSE /\ footed = FALSE

ListingInv ==
  /\ ListingTypes
  /\ \E n \in 1..(Len(asked) + 1) : AtNext(n)
  /\ done => NoEntriesLeft(place) /\ buf = None /\ (kind = "http" => footed)
  /\ kind = "http" => Page
  /\ kind = "none" => Idle

-----------------------------------------------------------------------------
(* What is asked for.                                                      *)

LEMMA LastOf ==
  ASSUME NEW S, NEW s \in Seq(S), NEW e \in S
  PROVE  Last(Append(s, e)) = e /\ Append(s, e) # <<>>
BY DEF Last

LEMMA DirsProper == DOMAIN Dirs \subseteq Seq(Proper)
BY ListingConstants DEF Proper

LEMMA ChdirProper ==
  ASSUME NEW path \in Seq(Proper), NEW text \in Seq(Byte)
  PROVE  ChdirText(path, text) \in Seq(Proper)
<1>1. ASSUME NEW p \in Seq(Proper) PROVE AppendText(p, text) \in Seq(Proper)
  <2> DEFINE start == [path |-> p, piece |-> <<>>]
             end == Appending(start, text)
  <2>1. start \in AppendStates BY DEF AppendStates, Piece
  <2> HIDE DEF start
  <2>2. end \in AppendStates BY <2>1, AppendingState
  <2>3. AppendText(p, text) = AppendName(end.path, end.piece)
    BY DEF AppendText, Appending, start
  <2> HIDE DEF end
  <2>4. end.path \in Seq(Proper) /\ end.piece \in Piece
    BY <2>2 DEF AppendStates
  <2> QED BY <2>3, <2>4, AppendNameProper
<1>2. <<>> \in Seq(Proper) OBVIOUS
<1> QED BY <1>1, <1>2 DEF ChdirText

LEMMA StripType ==
  ASSUME NEW arg \in Seq(Byte)
  PROVE  StripOptions(arg) \in Seq(Byte)
<1> DEFINE A == {i \in DOMAIN arg : (i = 1 \/ arg[i - 1] = Space)
                                     /\ arg[i] # Dash}
<1>1. StripOptions(arg) = FromSet(arg, A)
  BY DEF StripOptions, FromFirst, FromSet
<1>2. A \in SUBSET (1..Len(arg)) OBVIOUS
<1> HIDE DEF A
<1>3. PICK m \in 1..(Len(arg) + 1) : FromSet(arg, A) = From(arg, m)
  BY <1>2, FromSetIs
<1> QED BY <1>1, <1>3, FromSeq

LEMMA EntryType ==
  ASSUME NEW dir \in Seq(Proper), NEW name \in FileName
  PROVE  /\ Entry(Append(dir, name)) \in Entries
         /\ Entry(Append(dir, name)).path = Append(dir, name)
<1> DEFINE p == Append(dir, name)
<1>1. Proper \subseteq FileName BY DEF Proper
<1>2. dir \in Seq(FileName) BY <1>1, LargerSeq
<1>3. p \in Seq(FileName) /\ p # <<>> /\ Last(p) = name BY <1>2, LastOf
<1>4. name \notin Dots => p \in Seq(Proper) BY DEF Proper
<1> HIDE DEF p
<1> QED BY <1>3, <1>4 DEF Entry, Entries, p

LEMMA AppendSame ==
  ASSUME NEW S, NEW s \in Seq(S), NEW a \in S, NEW b \in S,
         Append(s, a) = Append(s, b)
  PROVE  a = b
<1>1. Last(Append(s, a)) = a /\ Last(Append(s, b)) = b BY LastOf
<1> QED BY <1>1

LEMMA ListType ==
  ASSUME NEW path \in Seq(Proper)
  PROVE  List(path) \in Seq(Entries) /\ PathsDiffer(List(path))
<1>1. CASE ~ There(path)
  <2> DEFINE s == List(path)
  <2>0. path \notin DOMAIN Dirs BY <1>1 DEF There
  <2>1. s = <<>> BY <1>1, <2>0 DEF List, None
  <2> HIDE DEF s
  <2>2. s \in Seq(Entries) /\ 1..Len(s) = {} BY <2>1
  <2>3. PathsDiffer(s) BY <2>2 DEF PathsDiffer
  <2> QED BY <2>2, <2>3 DEF s
<1>2. CASE There(path) /\ path \in DOMAIN Dirs
  <2> DEFINE names == Dirs[path]
             s == DirEntries(path)
  <2>1. /\ names \in Seq(FileName)
        /\ \A i, j \in DOMAIN names : names[i] = names[j] => i = j
    BY <1>2, ListingConstants
  <2>2. List(path) = s BY <1>2 DEF List
  <2>3. s = [i \in DOMAIN names |-> Entry(Append(path, names[i]))]
    BY DEF DirEntries
  <2> HIDE DEF names, s
  <2>4. DOMAIN names = 1..Len(names) /\ Len(names) \in Nat
        /\ \A i \in 1..Len(names) : names[i] \in FileName
    BY <2>1
  <2>5. \A i \in 1..Len(names) : Entry(Append(path, names[i])) \in Entries
    BY <2>4, EntryType
  <2>6. s \in Seq(Entries) /\ Len(s) = Len(names)
    BY <2>3, <2>4, <2>5
  <2>7. \A i \in 1..Len(names) : s[i].path = Append(path, names[i])
    BY <2>3, <2>4, EntryType
  <2>8. ASSUME NEW i \in 1..Len(names), NEW j \in 1..Len(names),
               s[i].path = s[j].path
        PROVE  i = j
    <3>1. Append(path, names[i]) = Append(path, names[j]) BY <2>7, <2>8
    <3>2. Proper \subseteq FileName BY DEF Proper
    <3>3. path \in Seq(FileName) BY <3>2, LargerSeq
    <3>4. names[i] = names[j] BY <2>4, <3>1, <3>3, AppendSame
    <3> QED BY <2>1, <2>4, <3>4
  <2>9. PathsDiffer(s) BY <2>6, <2>8 DEF PathsDiffer
  <2> QED BY <2>2, <2>6, <2>9
<1>3. CASE There(path) /\ path \notin DOMAIN Dirs
  <2>1. path # <<>> BY <1>3 DEF There
  <2>2. List(path) = <<Entry(path)>> BY <1>3 DEF List
  <2>3. Entry(path) \in Entries
    <3>1. Proper \subseteq FileName BY DEF Proper
    <3>2. path \in Seq(FileName) BY <3>1, LargerSeq
    <3>3. Last(path) \in FileName BY <2>1, <3>2 DEF Last
    <3> QED BY <2>1, <3>2, <3>3 DEF Entry, Entries
  <2> DEFINE s == <<Entry(path)>>
  <2>4. s \in Seq(Entries) /\ Len(s) = 1 BY <2>3
  <2> HIDE DEF s
  <2>5. PathsDiffer(s)
    <3>1. \A i \in 1..Len(s) : i = 1 BY <2>4
    <3> QED BY <3>1 DEF PathsDiffer
  <2> QED BY <2>2, <2>4, <2>5 DEF s
<1> QED BY <1>1, <1>2, <1>3

LEMMA NameBytes ==
  /\ FileName \subseteq Piece /\ FileName \subseteq Seq(Byte)
  /\ Seq(FileName) \subseteq Seq(Piece)
<1>1. FileName \subseteq Piece BY DEF FileName, Piece
<1>2. Piece \subseteq Seq(Byte) BY DEF Piece
<1> QED BY <1>1, <1>2

LEMMA LineType ==
  ASSUME NEW e \in Entries
  PROVE  /\ LineOf(e) \in LineSet
         /\ LineOf(e).part = "entry" /\ LineOf(e).path = e.path
<1>1. e.name \in Seq(Byte) /\ e.path \in Seq(Piece) /\ e.path # <<>>
      /\ e.path \in Seq(FileName)
  BY NameBytes DEF Entries
<1> DEFINE t == CASE kind = "mlsd" -> <<Slash>> \o Str(e.path)
                  [] kind = "http" -> <<Slash>> \o HtmlQuoted(e.path)
                  [] OTHER         -> e.name
<1>2. LineOf(e) = [part |-> "entry", text |-> t, path |-> e.path]
  BY DEF LineOf, Line
<1>3. t \in Seq(Byte)
  <2>1. <<Slash>> \in Seq(Byte) BY DEF Slash, Byte
  <2>2. Str(e.path) \in Seq(Byte) BY <1>1, SlashAndStr
  <2>3. HtmlQuoted(e.path) \in Seq(Byte) BY <2>2, QuoteType DEF HtmlQuoted
  <2>4. <<Slash>> \o Str(e.path) \in Seq(Byte) BY <2>1, <2>2, ConcatSeq
  <2>5. <<Slash>> \o HtmlQuoted(e.path) \in Seq(Byte)
    BY <2>1, <2>3, ConcatSeq
  <2> QED BY <1>1, <2>4, <2>5
<1> HIDE DEF t
<1> QED BY <1>1, <1>2, <1>3 DEF LineSet

LEMMA AroundType ==
  \A part \in {"total", "head", "foot"} :
    Around(part) \in LineSet /\ Around(part).part = part
<1>1. <<>> \in Seq(Byte) /\ <<>> \in Seq(FileName) OBVIOUS
<1> QED BY <1>1 DEF Around, LineSet

-----------------------------------------------------------------------------
(* One line more.                                                          *)

LEMMA SnocAt ==
  ASSUME NEW S, NEW s \in Seq(S), NEW e \in S
  PROVE  /\ Append(s, e) \in Seq(S) /\ Len(Append(s, e)) = Len(s) + 1
         /\ Append(s, e)[Len(s) + 1] = e
         /\ \A i \in 1..Len(s) : Append(s, e)[i] = s[i]
OBVIOUS

\* Going past entries that the listing may lack.
LEMMA TellsLater ==
  ASSUME asked \in Seq(Entries), NEW lines, NEW lack, gone \subseteq lack,
         NEW n \in 1..(Len(asked) + 1), Tells(lines, n, lack),
         NEW m \in n..(Len(asked) + 1), Passes(asked, pattern, n, m)
  PROVE  Tells(lines, m, lack)
<1>0. Len(asked) \in Nat OBVIOUS
<1>1. TellsOnly(lines, m)
  <2>1. \A k : k \in Wanted => k \in 1..Len(asked) BY DEF Wanted
  <2>2. \A k \in 1..Len(asked) : k < n => k < m BY <1>0
  <2> QED BY <2>1, <2>2 DEF Tells, TellsOnly
<1>2. TellsAll(lines, m, lack)
  <2> SUFFICES ASSUME NEW k \in Wanted, k < m
               PROVE  asked[k].path \in lack \/ IsTold(lines, k)
    BY DEF TellsAll
  <2>1. k \in 1..Len(asked) /\ Gives(asked[k], pattern) BY DEF Wanted
  <2>2. CASE k < n BY <2>2 DEF Tells, TellsAll
  <2>3. CASE ~ (k < n)
    <3>1. k \in n..(m - 1) BY <1>0, <2>1, <2>3
    <3> QED BY <2>1, <3>1 DEF Passes
  <2> QED BY <2>2, <2>3
<1> QED BY <1>1, <1>2 DEF Tells

\* The line of the entry that is next.
LEMMA TellsNext ==
  ASSUME asked \in Seq(Entries), PathsDiffer(asked),
         NEW lines \in Seq(LineSet),
         NEW lack,
         NEW n \in 1..Len(asked), n \in Wanted, Tells(lines, n, lack)
  PROVE  Tells(Append(lines, LineOf(asked[n])), n + 1, lack)
<1> DEFINE line == LineOf(asked[n])
           more == Append(lines, line)
           z == Len(lines)
<1>0. Len(asked) \in Nat /\ z \in Nat OBVIOUS
<1>1. asked[n] \in Entries OBVIOUS
<1>2. line \in LineSet /\ line.part = "entry" /\ line.path = asked[n].path
  BY <1>1, LineType
<1> HIDE DEF line
<1>3. /\ Len(more) = z + 1 /\ more[z + 1] = line
      /\ \A i \in 1..z : more[i] = lines[i]
  BY <1>2, SnocAt
<1> HIDE DEF more, z
<1>4. \A i \in 1..(z + 1) : i \in 1..z \/ i = z + 1 BY <1>0
<1>5. \A i \in 1..z : i \in 1..(z + 1) BY <1>0
<1>6. z + 1 \in 1..(z + 1) BY <1>0
<1>7. \A k : k \in Wanted => k \in 1..Len(asked) BY DEF Wanted
<1>8. TellsOnly(lines, n) /\ InOrder(lines) /\ TellsAll(lines, n, lack)
  BY DEF Tells
<1>9. TellsOnly(more, n + 1)
  <2> SUFFICES ASSUME NEW i \in 1..(z + 1), more[i].part = "entry"
               PROVE  \E k \in Wanted : k < n + 1
                                        /\ more[i] = LineOf(asked[k])
    BY <1>3 DEF TellsOnly
  <2>1. CASE i = z + 1
    <3>1. more[i] = LineOf(asked[n]) /\ n < n + 1 BY <1>3, <2>1 DEF line
    <3> QED BY <3>1
  <2>2. CASE i \in 1..z
    <3>1. PICK k \in Wanted : k < n /\ lines[i] = LineOf(asked[k])
      BY <1>3, <1>8, <2>2 DEF TellsOnly, z
    <3>2. k < n + 1 BY <1>0, <1>7, <3>1
    <3> QED BY <1>3, <2>2, <3>1, <3>2
  <2> QED BY <1>4, <2>1, <2>2
<1>10. InOrder(more)
  <2> SUFFICES ASSUME NEW i \in 1..Len(more), NEW j \in 1..Len(more),
                      NEW k \in 1..Len(asked), NEW l \in 1..Len(asked),
                      i < j, IsOf(more, i, k), IsOf(more, j, l)
               PROVE  k < l
    BY DEF InOrder
  <2>0. i \in 1..(z + 1) /\ j \in 1..(z + 1) BY <1>3
  <2>1. i \in 1..z BY <1>0, <2>0
  <2>2. more[i] = lines[i] BY <1>3, <2>1
  <2>3. CASE j \in 1..z
    <3>1. more[j] = lines[j] BY <1>3, <2>3
    <3>2. IsOf(lines, i, k) /\ IsOf(lines, j, l)
      BY <2>2, <3>1 DEF IsOf
    <3> QED BY <1>8, <2>1, <2>3, <3>2 DEF InOrder, z
  <2>4. CASE j = z + 1
    <3>1. asked[l].path = asked[n].path BY <1>2, <1>3, <2>4 DEF IsOf
    <3>2. l = n BY <3>1 DEF PathsDiffer
    <3>3. PICK h \in Wanted : h < n /\ lines[i] = LineOf(asked[h])
      BY <1>8, <2>1, <2>2 DEF TellsOnly, IsOf, z
    <3>4. h \in 1..Len(asked) BY <1>7
    <3>5. asked[h] \in Entries BY <3>4
    <3>6. lines[i].path = asked[h].path BY <3>3, <3>5, LineType
    <3>7. h = k BY <2>2, <3>4, <3>6 DEF PathsDiffer, IsOf
    <3> QED BY <3>2, <3>3, <3>7
  <2> QED BY <1>4, <2>0, <2>3, <2>4
<1>11. \A k : IsTold(lines, k) => IsTold(more, k)
  BY <1>3, <1>5 DEF IsTold, IsOf, z
<1>12. IsTold(more, n)
  BY <1>2, <1>3, <1>6 DEF IsTold, IsOf
<1>13. TellsAll(more, n + 1, lack)
  <2> SUFFICES ASSUME NEW k \in Wanted, k < n + 1
               PROVE  asked[k].path \in lack \/ IsTold(more, k)
    BY DEF TellsAll
  <2>1. CASE k = n BY <1>12, <2>1
  <2>2. CASE k # n
    <3>1. k < n BY <1>0, <1>7, <2>2
    <3> QED BY <1>8, <1>11, <3>1 DEF TellsAll
  <2> QED BY <2>1, <2>2
<1> QED BY <1>9, <1>10, <1>13 DEF Tells, more, line

\* A line of another kind.
LEMMA TellsAround ==
  ASSUME asked \in Seq(Entries), NEW lines \in Seq(LineSet),
         NEW lack,
         NEW n \in 1..(Len(asked) + 1), Tells(lines, n, lack),
         NEW line \in LineSet, line.part # "entry"
  PROVE  Tells(Append(lines, line), n, lack)
<1> DEFINE more == Append(lines, line)
           z == Len(lines)
<1>0. z \in Nat OBVIOUS
<1>3. /\ Len(more) = z + 1 /\ more[z + 1] = line
      /\ \A i \in 1..z : more[i] = lines[i]
  BY SnocAt
<1> HIDE DEF more, z
<1>4. \A i \in 1..(z + 1) : i \in 1..z \/ i = z + 1 BY <1>0
<1>5. \A i \in 1..z : i \in 1..(z + 1) BY <1>0
<1>6. \A i \in 1..(z + 1) : more[i].part = "entry" =>
         i \in 1..z /\ more[i] = lines[i]
  BY <1>3, <1>4
<1>8. TellsOnly(lines, n) /\ InOrder(lines) /\ TellsAll(lines, n, lack)
  BY DEF Tells
<1>9. TellsOnly(more, n)
  BY <1>3, <1>6, <1>8 DEF TellsOnly, z
<1>10. InOrder(more)
  <2> SUFFICES ASSUME NEW i \in 1..Len(more), NEW j \in 1..Len(more),
                      NEW k \in 1..Len(asked), NEW l \in 1..Len(asked),
                      i < j, IsOf(more, i, k), IsOf(more, j, l)
               PROVE  k < l
    BY DEF InOrder
  <2>0. i \in 1..(z + 1) /\ j \in 1..(z + 1) BY <1>3
  <2>1. /\ i \in 1..z /\ more[i] = lines[i]
        /\ j \in 1..z /\ more[j] = lines[j]
    BY <1>6, <2>0 DEF IsOf
  <2>2. IsOf(lines, i, k) /\ IsOf(lines, j, l) BY <2>1 DEF IsOf
  <2> QED BY <1>8, <2>1, <2>2 DEF InOrder, z
<1>11. \A k : IsTold(lines, k) => IsTold(more, k)
  BY <1>3, <1>5 DEF IsTold, IsOf, z
<1>13. TellsAll(more, n, lack)
  BY <1>8, <1>11 DEF TellsAll
<1> QED BY <1>9, <1>10, <1>13 DEF Tells, more

\* What Tells says does not change while the listing goes on.
LEMMA TellsSame ==
  ASSUME UNCHANGED <<kind, pattern, asked>>,
         NEW lines, NEW n, NEW lack, NEW more, lack \subseteq more,
         Tells(lines, n, lack)
  PROVE  /\ TellsOnly(lines, n)' /\ InOrder(lines)'
         /\ \A k \in Wanted' :
              k < n => asked'[k].path \in more \/ IsTold(lines, k)'
<1>1. Wanted' = Wanted BY DEF Wanted
<1>2. \A e : LineOf(e)' = LineOf(e) BY DEF LineOf
<1>3. \A i, k : IsOf(lines, i, k)' <=> IsOf(lines, i, k) BY DEF IsOf
<1>5. TellsOnly(lines, n)' BY <1>1, <1>2 DEF Tells, TellsOnly
<1>6. InOrder(lines)' BY <1>3 DEF Tells, InOrder
<1>7. \A k : IsTold(lines, k)' <=> IsTold(lines, k) BY <1>3 DEF IsTold
<1>8. \A k \in Wanted' :
        k < n => asked'[k].path \in more \/ IsTold(lines, k)'
  BY <1>1, <1>7 DEF Tells, TellsAll
<1> QED BY <1>5, <1>6, <1>8

-----------------------------------------------------------------------------
\* The header of a page stays its only one.
LEMMA HeadLonger ==
  ASSUME NEW lines \in Seq(LineSet), NEW missing, HeadFirst(lines, missing),
         NEW line \in LineSet, line # Around("head")
  PROVE  HeadFirst(Append(lines, line), missing)
<1> DEFINE more == Append(lines, line)
           z == Len(lines)
<1>1. z \in Nat OBVIOUS
<1>2. /\ more \in Seq(LineSet) /\ Len(more) = z + 1 /\ more[z + 1] = line
      /\ \A i \in 1..z : more[i] = lines[i]
  BY SnocAt
<1>3. lines # <<>> => z >= 1 OBVIOUS
<1> HIDE DEF more
<1>4. ASSUME NEW i \in 1..(z + 1), more[i] = Around("head") PROVE i = 1
  <2>1. i # z + 1 BY <1>2, <1>4
  <2>2. i \in 1..z BY <1>1, <2>1
  <2> QED BY <1>2, <1>4, <2>2 DEF HeadFirst
<1>5. \/ Around("head") \in missing
      \/ more # <<>> /\ more[1] = Around("head")
  <2>1. CASE Around("head") \in missing BY <2>1
  <2>2. CASE lines # <<>> /\ lines[1] = Around("head")
    <3>1. 1 \in 1..z BY <1>1, <1>3, <2>2
    <3>2. more # <<>> BY <1>1, <1>2
    <3> QED BY <1>2, <2>2, <3>1, <3>2
  <2> QED BY <2>1, <2>2 DEF HeadFirst
<1>6. \A i \in 1..Len(more) : more[i] = Around("head") => i = 1
  BY <1>2, <1>4
<1> QED BY <1>5, <1>6 DEF HeadFirst, more

LEMMA LastLine ==
  ASSUME NEW lines \in Seq(LineSet), NEW line \in LineSet
  PROVE  Append(lines, line) # <<>>
         /\ Append(lines, line)[Len(Append(lines, line))] = line
OBVIOUS

LEMMA OneMore ==
  ASSUME NEW lines \in Seq(LineSet), NEW line \in LineSet
  PROVE  lines \o <<line>> = Append(lines, line) /\ <<line>> \in Seq(LineSet)
OBVIOUS

\* What next_entry does from entry n: it finds entry m, if it finds any, and the
\* lister reads on to l.
LEMMA NextEntryIs ==
  ASSUME ListingTypes, NEW n \in 1..(Len(asked) + 1), Stands(n),
         ~ NoEntriesLeft(place), NextEntry,
         UNCHANGED <<kind, pattern, asked>>
  PROVE  /\ place' \in 1..(Len(asked) + 1)
         /\ stream' \in {"none", "open", "failed"}
         /\ n = place
         /\ \E m \in n..(Len(asked) + 1) :
              /\ Passes(asked, pattern, n, m)
              /\ \/ buf' = None /\ Stands(m)'
                 \/ /\ m <= Len(asked) /\ m \in Wanted
                    /\ buf' = <<LineOf(asked[m])>>
                    /\ \E l \in (m + 1)..(Len(asked) + 1) :
                         Passes(asked, pattern, m + 1, l) /\ Stands(l)'
<1> DEFINE z == Len(asked)
<1>0. /\ asked \in Seq(Entries) /\ z \in Nat /\ place \in 1..(z + 1)
      /\ stream \in {"none", "open", "failed"}
  BY DEF ListingTypes
<1>1. place \in 1..z BY <1>0 DEF NoEntriesLeft
<1>2. stream \in {"none", "open"} BY <1>0, <1>1 DEF Stands
<1>3. n = place /\ n \in Wanted BY <1>1, <1>2 DEF Stands
<1>4. Wanted' = Wanted /\ asked' = asked BY DEF Wanted
<1>5. \A i \in Int : Passes(asked, pattern, i, i)
  <2>1. ASSUME NEW i \in Int PROVE Passes(asked, pattern, i, i)
    <3>1. \A k \in i..(i - 1) : FALSE OBVIOUS
    <3> QED BY <3>1 DEF Passes
  <2> QED BY <2>1
<1>6. PICK here \in SkipGone :
        \/ /\ NoEntriesLeft(here.place)
           /\ buf' = None /\ place' = here.place /\ stream' = here.stream
        \/ /\ ~ NoEntriesLeft(here.place)
           /\ buf' = <<LineOf(asked[here.place])>>
           /\ \E next \in Reads(asked, pattern, here.place + 1, here.stream) :
                place' = next.place /\ stream' = next.stream
  BY DEF NextEntry
<1>7. /\ here.place \in n..(z + 1)
      /\ here.stream \in {"none", "open", "failed"}
      /\ here.stream = "failed" => here.place = z + 1
      /\ here.stream # "failed" =>
           /\ here.place <= z => here.place \in Wanted
           /\ Passes(asked, pattern, n, here.place)
  <2>1. CASE here \in {[place |-> place, stream |-> stream]}
    <3>1. here.place = n /\ here.stream = stream BY <1>3, <2>1
    <3>2. n \in n..(z + 1) BY <1>0, <1>1, <1>3
    <3> QED BY <1>2, <1>3, <1>5, <3>1, <3>2
  <2>2. CASE /\ asked[place].path \in gone
             /\ here \in Reads(asked, pattern, place + 1, stream)
    <3>1. place + 1 \in 1..(Len(asked) + 1) BY <1>0, <1>1
    <3>2. /\ here.place \in (place + 1)..(Len(asked) + 1)
          /\ here.stream \in {"none", "open", "failed"}
          /\ here.stream = "failed" => here.place = Len(asked) + 1
          /\ here.stream # "failed" =>
               /\ here.place <= Len(asked) => Gives(asked[here.place], pattern)
               /\ Passes(asked, pattern, place + 1, here.place)
      BY <1>0, <1>2, <2>2, <3>1, ReadsIs
    <3>3. here.place \in n..(z + 1) BY <1>0, <1>1, <1>3, <3>2
    <3>4. here.place <= z => here.place \in 1..z BY <1>0, <1>1, <3>2
    <3>5. ASSUME Passes(asked, pattern, place + 1, here.place)
          PROVE  Passes(asked, pattern, n, here.place)
      <4>1. \A k \in n..(here.place - 1) :
              k = place \/ k \in (place + 1)..(here.place - 1)
        BY <1>0, <1>1, <1>3, <3>2
      <4> QED BY <2>2, <3>5, <4>1 DEF Passes
    <3> QED BY <3>2, <3>3, <3>4, <3>5 DEF Wanted
  <2> QED BY <2>1, <2>2 DEF SkipGone
<1>8. CASE /\ NoEntriesLeft(here.place)
           /\ buf' = None /\ place' = here.place /\ stream' = here.stream
  <2>1. here.place = z + 1 BY <1>0, <1>7, <1>8 DEF NoEntriesLeft
  <2>2. place' \in 1..(Len(asked) + 1) BY <1>0, <1>8, <2>1
  <2>3. CASE here.stream = "failed"
    <3>1. Stands(n)' BY <1>4, <1>8, <2>1, <2>3 DEF Stands
    <3>2. n \in n..(z + 1) BY <1>0, <1>1, <1>3
    <3> QED BY <1>3, <1>5, <1>7, <1>8, <2>2, <3>1, <3>2
  <2>4. CASE here.stream # "failed"
    <3>1. ~ (here.place <= z) BY <1>0, <2>1
    <3>2. Stands(here.place)' BY <1>4, <1>8, <2>4, <3>1 DEF Stands
    <3> QED BY <1>3, <1>7, <1>8, <2>2, <2>4, <3>2
  <2> QED BY <2>3, <2>4
<1>9. CASE /\ ~ NoEntriesLeft(here.place)
           /\ buf' = <<LineOf(asked[here.place])>>
           /\ \E next \in Reads(asked, pattern, here.place + 1, here.stream) :
                place' = next.place /\ stream' = next.stream
  <2> DEFINE m == here.place
  <2>1. m \in 1..z /\ here.stream \in {"none", "open"}
    BY <1>0, <1>1, <1>3, <1>7, <1>9 DEF NoEntriesLeft
  <2>2. m \in n..(z + 1) /\ m <= z /\ m \in Wanted
        /\ Passes(asked, pattern, n, m)
    BY <1>0, <1>7, <2>1
  <2>3. PICK next \in Reads(asked, pattern, m + 1, here.stream) :
          place' = next.place /\ stream' = next.stream
    BY <1>9
  <2>4. m + 1 \in 1..(Len(asked) + 1) BY <1>0, <2>1
  <2> HIDE DEF m
  <2>5. /\ next.place \in (m + 1)..(Len(asked) + 1)
        /\ next.stream \in {"none", "open", "failed"}
        /\ next.stream = "failed" => next.place = Len(asked) + 1
        /\ next.stream # "failed" =>
             /\ next.place <= Len(asked) => Gives(asked[next.place], pattern)
             /\ Passes(asked, pattern, m + 1, next.place)
    BY <1>0, <2>1, <2>3, <2>4, ReadsIs
  <2>6. place' \in 1..(Len(asked) + 1) BY <1>0, <2>3, <2>4, <2>5
  <2>7. \E l \in (m + 1)..(z + 1) :
          Passes(asked, pattern, m + 1, l) /\ Stands(l)'
    <3>1. CASE next.stream = "failed"
      <4>1. Stands(m + 1)' BY <1>4, <2>3, <2>5, <3>1 DEF Stands
      <4>2. m + 1 \in (m + 1)..(z + 1) BY <1>0, <2>4
      <4> QED BY <1>5, <4>1, <4>2
    <3>2. CASE next.stream # "failed"
      <4>1. next.place <= z => next.place \in 1..z
        BY <1>0, <2>4, <2>5
      <4>2. next.place <= z => next.place \in Wanted
        BY <2>5, <3>2, <4>1 DEF Wanted
      <4>3. Stands(next.place)' BY <1>4, <2>3, <3>2, <4>2 DEF Stands
      <4> QED BY <2>5, <3>2, <4>3
    <3> QED BY <3>1, <3>2
  <2>8. buf' = <<LineOf(asked[m])>> BY <1>9 DEF m
  <2> QED BY <1>3, <2>2, <2>3, <2>5, <2>6, <2>7, <2>8
<1> QED BY <1>6, <1>8, <1>9

LEMMA TellsStill ==
  ASSUME UNCHANGED <<kind, pattern, asked>>,
         NEW w, NEW n, NEW lack, lack \subseteq Lacks', Tells(w, n, lack),
         Lines' = w
  PROVE  Tells(Lines, n, Lacks)'
<1>1. /\ TellsOnly(w, n)' /\ InOrder(w)'
      /\ \A h \in Wanted' :
           h < n => asked'[h].path \in Lacks' \/ IsTold(w, h)'
  <2> DEFINE more == Lacks'
  <2>1. lack \subseteq more OBVIOUS
  <2> HIDE DEF more
  <2>2. /\ TellsOnly(w, n)' /\ InOrder(w)'
        /\ \A h \in Wanted' :
             h < n => asked'[h].path \in more \/ IsTold(w, h)'
    BY <2>1, TellsSame
  <2> QED BY <2>2 DEF more
<1> QED BY <1>1 DEF Tells, TellsOnly, InOrder, TellsAll, IsTold, IsOf

\* finished_writing after a line that was sent or lost, or before the first.
LEMMA Finished ==
  ASSUME ListingInv, Listing, FinishedWriting,
         UNCHANGED <<kind, pattern, gone, asked>>,
         NEW lines \in Seq(LineSet), out' = lines,
         Lacks \subseteq Lacks',
         \A n \in 1..(Len(asked) + 1) :
           Tells(Lines, n, Lacks) => Tells(lines, n, Lacks'),
         HeadFirst(Lines, lost) => HeadFirst(lines, lost'),
         FootLast(Lines, lost) => FootLast(lines, lost')
  PROVE  ListingInv'
<1> DEFINE z == Len(asked)
           lack == Lacks'
           missing == lost'
<1>0. /\ asked \in Seq(Entries) /\ PathsDiffer(asked) /\ pattern \in Seq(Byte)
      /\ z \in Nat /\ footed \in BOOLEAN /\ place \in 1..(z + 1)
      /\ stream \in {"none", "open", "failed"}
  BY DEF ListingInv, ListingTypes
<1>1. PICK n \in 1..(z + 1) : Stands(n) /\ Tells(Lines, n, Lacks)
  BY DEF ListingInv, AtNext
<1>2. Tells(lines, n, lack) BY <1>1
<1>3. gone \subseteq lack BY DEF Lacks
<1>4. kind = "http" =>
        /\ HeadFirst(lines, missing)
        /\ footed => NoEntriesLeft(place) /\ FootLast(lines, missing)
  BY DEF ListingInv, Page
<1>5. kind # "none" /\ ~ done BY DEF Listing
<1>6. ASSUME NEW w, NEW k, Tells(w, k, lack), Lines' = w
      PROVE  Tells(Lines, k, Lacks)'
  <2>1. PICK lacks : lacks = lack OBVIOUS
  <2>2. lacks \subseteq Lacks' /\ Tells(w, k, lacks) BY <1>6, <2>1
  <2> QED BY <1>6, <2>2, TellsStill
<1>7. /\ UNCHANGED <<kind, pattern, asked>> /\ out' = lines
      /\ lines \in Seq(LineSet) /\ ListingTypes
  BY DEF ListingInv
<1> HIDE DEF lack, missing
<1>8. CASE NoEntriesLeft(place) /\ FinishedListing
  <2> DEFINE foot == kind = "http" /\ ~ footed
  <2>1. /\ buf' = IF foot THEN <<Around("foot")>> ELSE None
        /\ footed' = (footed \/ foot) /\ done' = ~ foot
        /\ place' = place /\ stream' = stream
    BY <1>8 DEF FinishedListing
  <2> HIDE DEF foot
  <2>2. Stands(n)'
    <3>1. Wanted' = Wanted BY <1>7 DEF Wanted
    <3> QED BY <1>1, <1>7, <2>1, <3>1 DEF Stands
  <2>3. NoEntriesLeft(place)' BY <1>7, <1>8, <2>1 DEF NoEntriesLeft
  <2>4. CASE foot
    <3> DEFINE line == Around("foot")
    <3>1. line \in LineSet /\ line.part = "foot" /\ line # Around("head")
      BY AroundType
    <3> HIDE DEF line
    <3>2. buf' = <<line>> /\ footed' = TRUE /\ done' = FALSE
      BY <2>1, <2>4 DEF line
    <3>3. lines \o <<line>> = Append(lines, line) /\ <<line>> \in Seq(LineSet)
      BY <1>7, <3>1, OneMore
    <3>4. Lines' = Append(lines, line) BY <1>7, <3>2, <3>3 DEF Lines
    <3>5. Tells(Append(lines, line), n, lack)
      BY <1>0, <1>2, <1>7, <3>1, TellsAround
    <3>6. AtNext(n)' BY <1>6, <2>2, <3>4, <3>5 DEF AtNext
    <3>7. Page'
      <4>1. HeadFirst(Append(lines, line), missing)
        BY <1>4, <1>7, <2>4, <3>1, HeadLonger DEF foot
      <4>2. /\ Append(lines, line) # <<>>
            /\ Append(lines, line)[Len(Append(lines, line))] = line
        BY <1>7, <3>1, LastLine
      <4> DEFINE more == Append(lines, line)
      <4> HIDE DEF more
      <4>3. FootLast(more, missing) BY <4>2 DEF FootLast, line, more
      <4>4. Lines' = more BY <3>4 DEF more
      <4>5. HeadFirst(more, missing) BY <4>1 DEF more
      <4>6. HeadFirst(Lines, lost)' /\ FootLast(Lines, lost)'
        BY <4>3, <4>4, <4>5 DEF HeadFirst, FootLast, missing
      <4> QED BY <2>3, <4>6 DEF Page
    <3>8. ListingTypes'
      BY <1>0, <1>7, <2>1, <3>2, <3>3 DEF ListingTypes, PathsDiffer
    <3> QED BY <1>5, <1>7, <3>2, <3>6, <3>7, <3>8 DEF ListingInv
  <2>5. CASE ~ foot
    <3>1. buf' = None /\ footed' = footed /\ done' = TRUE
      BY <1>0, <2>1, <2>5
    <3>2. Lines' = lines BY <1>7, <3>1, EmptyFirst DEF Lines, None
    <3>3. AtNext(n)' BY <1>2, <1>6, <2>2, <3>2 DEF AtNext
    <3>4. kind' = "http" => Page'
      BY <1>4, <1>7, <2>3, <3>1, <3>2 DEF Page, HeadFirst, FootLast, missing
    <3>5. ListingTypes'
      BY <1>0, <1>7, <2>1, <3>1 DEF ListingTypes, PathsDiffer, None
    <3>6. kind' = "http" => footed' BY <1>7, <2>5, <3>1 DEF foot
    <3> QED BY <1>5, <1>7, <2>3, <3>1, <3>3, <3>4, <3>5, <3>6 DEF ListingInv
  <2> QED BY <2>4, <2>5
<1>9. CASE ~ NoEntriesLeft(place) /\ NextEntry /\ UNCHANGED <<footed, done>>
  <2>1. /\ place' \in 1..(z + 1)
        /\ stream' \in {"none", "open", "failed"}
        /\ n = place
    BY <1>1, <1>7, <1>9, NextEntryIs
  <2>2. PICK m \in n..(z + 1) :
          /\ Passes(asked, pattern, n, m)
          /\ \/ buf' = None /\ Stands(m)'
             \/ /\ m <= z /\ m \in Wanted
                /\ buf' = <<LineOf(asked[m])>>
                /\ \E l \in (m + 1)..(z + 1) :
                     Passes(asked, pattern, m + 1, l) /\ Stands(l)'
    BY <1>1, <1>7, <1>9, NextEntryIs
  <2>3. Tells(lines, m, lack) BY <1>0, <1>2, <1>3, <2>2, TellsLater
  <2>4. m \in 1..(z + 1) BY <1>0, <2>2
  <2>5. kind = "http" => ~ footed BY <1>4, <1>9
  <2>6. footed' = footed /\ done' = FALSE BY <1>5, <1>9
  <2>7. CASE buf' = None /\ Stands(m)'
    <3>1. Lines' = lines BY <1>7, <2>7, EmptyFirst DEF Lines, None
    <3>2. AtNext(m)' BY <1>6, <2>3, <2>7, <3>1 DEF AtNext
    <3>3. kind' = "http" => Page'
      BY <1>4, <1>7, <2>5, <2>6, <3>1 DEF Page, HeadFirst, missing
    <3>4. ListingTypes'
      <4>1. buf' \in Seq(LineSet) BY <2>7 DEF None
      <4> QED BY <1>0, <1>7, <2>1, <2>6, <4>1 DEF ListingTypes, PathsDiffer
    <3> QED BY <1>5, <1>7, <2>4, <2>6, <3>2, <3>3, <3>4 DEF ListingInv
  <2>8. ASSUME m <= z, m \in Wanted, buf' = <<LineOf(asked[m])>>,
               NEW l \in (m + 1)..(z + 1),
               Passes(asked, pattern, m + 1, l), Stands(l)'
        PROVE  ListingInv'
    <3> DEFINE line == LineOf(asked[m])
    <3>1. m \in 1..z /\ m + 1 \in 1..(z + 1) /\ l \in 1..(z + 1)
      BY <1>0, <2>4, <2>8
    <3>2. asked[m] \in Entries BY <1>0, <3>1
    <3>3. line \in LineSet /\ line.part = "entry" BY <3>2, LineType
    <3>4. line # Around("head") BY <3>3, AroundType
    <3>5. Tells(Append(lines, line), m + 1, lack)
      BY <1>0, <1>7, <2>3, <2>8, <3>1, TellsNext
    <3> HIDE DEF line
    <3>6. lines \o <<line>> = Append(lines, line) /\ <<line>> \in Seq(LineSet)
      BY <1>7, <3>3, OneMore
    <3> DEFINE more == Append(lines, line)
    <3>7. Lines' = more BY <1>7, <2>8, <3>6 DEF Lines, line
    <3>8. HeadFirst(lines, missing) => HeadFirst(more, missing)
      BY <1>7, <3>3, <3>4, HeadLonger
    <3>9. Tells(more, m + 1, lack) BY <3>5
    <3> HIDE DEF more
    <3>10. Tells(more, l, lack) BY <1>0, <1>3, <2>8, <3>1, <3>9, TellsLater
    <3>11. AtNext(l)' BY <1>6, <2>8, <3>7, <3>10 DEF AtNext
    <3>12. kind' = "http" => Page'
      BY <1>4, <1>7, <2>5, <2>6, <3>7, <3>8 DEF Page, HeadFirst, missing
    <3>13. buf' \in Seq(LineSet) BY <2>8, <3>6 DEF line
    <3>14. ListingTypes'
      BY <1>0, <1>7, <2>1, <2>6, <3>13 DEF ListingTypes, PathsDiffer
    <3> QED BY <1>5, <1>7, <2>6, <3>1, <3>11, <3>12, <3>14 DEF ListingInv
  <2> QED BY <2>2, <2>7, <2>8
<1> QED BY <1>8, <1>9 DEF FinishedWriting

\* Nothing is asked for yet.
LEMMA InitListing == ListingInit => ListingInv
<1> SUFFICES ASSUME ListingInit PROVE ListingInv
  OBVIOUS
<1>1. /\ kind = "none" /\ place = 1 /\ stream = "none"
      /\ pattern = <<Star>> /\ buf = <<>>
      /\ out = <<>> /\ footed = FALSE /\ done = FALSE /\ asked = <<>>
  BY DEF ListingInit, None, All
<1>2. Lines = <<>>
  <2>1. <<>> \in Seq(LineSet) OBVIOUS
  <2> QED BY <1>1, <2>1, EmptyFirst DEF Lines
<1>3. Len(asked) = 0 /\ 1..0 = {} BY <1>1
<1>4. <<Star>> \in Seq(Byte) BY DEF Star, Byte
<1>5. ListingTypes
  <2>1. PathsDiffer(asked) BY <1>3 DEF PathsDiffer
  <2>2. <<>> \in Seq(Entries) /\ <<>> \in Seq(LineSet) OBVIOUS
  <2>3. place \in 1..(Len(asked) + 1) BY <1>1, <1>3
  <2> QED BY <1>1, <1>4, <2>1, <2>2, <2>3 DEF ListingTypes
<1>6. Wanted = {} BY <1>3 DEF Wanted
<1>7. Tells(Lines, 1, Lacks)
  <2>1. Len(Lines) = 0 BY <1>2
  <2> QED BY <1>3, <1>6, <2>1 DEF Tells, TellsOnly, InOrder, TellsAll
<1>8. AtNext(1) BY <1>1, <1>3, <1>7 DEF AtNext, Stands
<1>9. 1 \in 1..(Len(asked) + 1) BY <1>3
<1> QED BY <1>1, <1>5, <1>8, <1>9 DEF ListingInv, Idle, None

\* A LIST, NLST, MLSD or a page: the entries are read, and the lister goes on to
\* the first that it gives.
LEMMA BeginListing ==
  ASSUME ListingInv, NEW k \in {"nlst", "list", "mlsd", "http"},
         NEW dir \in DOMAIN Dirs, NEW argument \in Arguments,
         Begin(k, dir, argument)
  PROVE  ListingInv'
<1> DEFINE arg  == IF k \in {"nlst", "list"} THEN StripOptions(argument)
                   ELSE argument
           glob == k \in {"nlst", "list"} /\ IsPattern(arg)
           path == IF glob THEN dir ELSE ChdirText(dir, arg)
           pat  == IF glob THEN arg ELSE All
           all  == List(path)
           z    == Len(all)
<1>1. argument \in Seq(Byte) /\ dir \in Seq(Proper)
  BY ListingConstants, DirsProper
<1>2. arg \in Seq(Byte) BY <1>1, StripType
<1> HIDE DEF arg
<1>3. path \in Seq(Proper) BY <1>1, <1>2, ChdirProper
<1>4. pat \in Seq(Byte)
  <2>1. <<Star>> \in Seq(Byte) BY DEF Star, Byte
  <2> QED BY <1>2, <2>1 DEF All
<1>5. /\ kind = "none" /\ kind' = k /\ pattern' = pat
      /\ asked' = all
      /\ \E how \in {"open", "none"} : \E first \in Reads(all, pat, 1, how) :
           place' = first.place /\ stream' = first.stream
      /\ buf' = CASE k = "list" -> <<Around("total")>>
                  [] k = "http" -> <<Around("head")>>
                  [] OTHER      -> None
      /\ UNCHANGED <<out, footed, done, gone, lost>>
  BY DEF Begin, arg
<1> HIDE DEF glob, path, pat
<1>6. all \in Seq(Entries) /\ PathsDiffer(all) BY <1>3, ListType
<1>7. out = <<>> /\ done = FALSE /\ footed \in BOOLEAN
  BY <1>5 DEF ListingInv, ListingTypes, Idle, None
<1> HIDE DEF all
<1>8. z \in Nat BY <1>6
<1> PICK how \in {"none", "open"} :
      \E first \in Reads(all, pat, 1, how) :
        place' = first.place /\ stream' = first.stream
  BY <1>5
<1>9. PICK first \in Reads(all, pat, 1, how) :
        place' = first.place /\ stream' = first.stream
  OBVIOUS
<1>10. /\ first.place \in 1..(z + 1)
       /\ first.stream \in {"none", "open", "failed"}
       /\ first.stream = "failed" => first.place = z + 1
       /\ first.stream # "failed" =>
            /\ first.place <= z => Gives(all[first.place], pat)
            /\ Passes(all, pat, 1, first.place)
  <2>1. 1 \in 1..(Len(all) + 1) BY <1>8
  <2> QED BY <1>6, <2>1, ReadsIs
<1>11. \A i : i \in Wanted' <=> i \in 1..z /\ Gives(all[i], pat)
  BY <1>5 DEF Wanted
<1>12. PICK n \in 1..(z + 1) : Stands(n)' /\ Passes(all, pat, 1, n)
  <2>1. CASE first.stream = "failed"
    <3>1. Stands(1)' BY <1>5, <1>9, <1>10, <2>1 DEF Stands
    <3>2. \A i \in 1..(1 - 1) : FALSE OBVIOUS
    <3>3. Passes(all, pat, 1, 1) BY <3>2 DEF Passes
    <3>4. 1 \in 1..(z + 1) BY <1>8
    <3> QED BY <3>1, <3>3, <3>4
  <2>2. CASE first.stream # "failed"
    <3>1. first.place <= z => first.place \in Wanted'
      BY <1>8, <1>10, <1>11, <2>2
    <3>2. Stands(first.place)' BY <1>5, <1>9, <2>2, <3>1 DEF Stands
    <3> QED BY <1>10, <2>2, <3>2
  <2> QED BY <2>1, <2>2
<1>13. gone' \subseteq Lacks' BY DEF Lacks
<1>14. \A i \in Wanted' : i < n => all[i].path \in Lacks'
  <2> SUFFICES ASSUME NEW i \in Wanted', i < n PROVE all[i].path \in Lacks'
    OBVIOUS
  <2>1. i \in 1..(n - 1) /\ Gives(all[i], pat) BY <1>8, <1>11
  <2>2. gone' = gone BY <1>5
  <2> QED BY <1>12, <1>13, <2>1, <2>2 DEF Passes
<1>15. PICK lines \in Seq(LineSet) :
         /\ buf' = lines /\ Len(lines) \in {0, 1}
         /\ \A i \in 1..Len(lines) : lines[i].part # "entry"
         /\ k = "http" => lines = <<Around("head")>>
  <2>1. CASE k = "list"
    <3>1. buf' = <<Around("total")>> BY <1>5, <2>1
    <3>2. Around("total") \in LineSet /\ Around("total").part = "total"
      BY AroundType
    <3> DEFINE line == Around("total")
               lines == <<line>>
    <3> HIDE DEF line
    <3>3. lines \in Seq(LineSet) /\ Len(lines) = 1 /\ lines[1] = line
      BY <3>2 DEF line
    <3>4. \A i \in 1..1 : i = 1 OBVIOUS
    <3> QED BY <2>1, <3>1, <3>2, <3>3, <3>4 DEF line
  <2>2. CASE k = "http"
    <3>1. buf' = <<Around("head")>> BY <1>5, <2>2
    <3>2. Around("head") \in LineSet /\ Around("head").part = "head"
      BY AroundType
    <3> DEFINE line == Around("head")
               lines == <<line>>
    <3> HIDE DEF line
    <3>3. lines \in Seq(LineSet) /\ Len(lines) = 1 /\ lines[1] = line
      BY <3>2 DEF line
    <3>4. \A i \in 1..1 : i = 1 OBVIOUS
    <3> QED BY <2>2, <3>1, <3>2, <3>3, <3>4 DEF line
  <2>3. CASE k \notin {"list", "http"}
    <3>1. buf' = <<>> BY <1>5, <2>3 DEF None
    <3>2. <<>> \in Seq(LineSet) /\ Len(<<>>) = 0 /\ 1..0 = {} OBVIOUS
    <3> QED BY <2>3, <3>1, <3>2
  <2> QED BY <2>1, <2>2, <2>3
<1>16. Lines' = lines BY <1>5, <1>7, <1>15, EmptyFirst DEF Lines
<1>17. Tells(Lines, n, Lacks)'
  <2>1. TellsOnly(Lines, n)' BY <1>15, <1>16 DEF TellsOnly
  <2>2. InOrder(Lines)' BY <1>15, <1>16 DEF InOrder, IsOf
  <2>3. TellsAll(Lines, n, Lacks)' BY <1>5, <1>14 DEF TellsAll
  <2> QED BY <2>1, <2>2, <2>3 DEF Tells
<1>18. AtNext(n)' BY <1>12, <1>17 DEF AtNext
<1>19. kind' = "http" => Page'
  <2> SUFFICES ASSUME k = "http" PROVE Page'
    BY <1>5
  <2> DEFINE line == Around("head")
  <2> HIDE DEF line
  <2>1. Lines' = <<line>> BY <1>15, <1>16 DEF line
  <2>2. <<line>> # <<>> /\ <<line>>[1] = line /\ Len(<<line>>) = 1
        /\ \A i \in 1..1 : i = 1
    OBVIOUS
  <2>3. footed' = FALSE
    <3>1. footed = FALSE BY <1>5 DEF ListingInv, Idle
    <3> QED BY <1>5, <3>1
  <2>4. HeadFirst(Lines, lost)' BY <2>1, <2>2 DEF HeadFirst, line
  <2> QED BY <2>3, <2>4 DEF Page
<1>20. ListingTypes'
  <2>1. out \in Seq(LineSet) BY DEF ListingInv, ListingTypes
  <2>2. PathsDiffer(asked)' BY <1>5, <1>6 DEF PathsDiffer
  <2>3. place' \in 1..(Len(asked') + 1)
        /\ stream' \in {"none", "open", "failed"}
    BY <1>5, <1>9, <1>10
  <2> QED BY <1>4, <1>5, <1>6, <1>7, <1>15, <2>1, <2>2, <2>3 DEF ListingTypes
<1>21. n \in 1..(Len(asked') + 1) BY <1>5
<1>22. kind' # "none" /\ done' = FALSE BY <1>5, <1>7
<1> QED BY <1>18, <1>19, <1>20, <1>21, <1>22 DEF ListingInv

\* What was written is the beginning of what is told.
LEMMA OutTold ==
  ASSUME out \in Seq(LineSet), buf \in Seq(LineSet)
  PROVE  /\ Lines \in Seq(LineSet)
         /\ Len(out) \in Nat /\ Len(Lines) \in Nat /\ Len(out) <= Len(Lines)
         /\ DOMAIN out = 1..Len(out)
         /\ \A i \in 1..Len(out) : i \in 1..Len(Lines) /\ Lines[i] = out[i]
         /\ \A i \in 1..Len(Lines) : i \in 1..Len(out) \/ Lines[i] \in ToSet(buf)
<1>2. Lines \in Seq(LineSet) /\ Len(Lines) = Len(out) + Len(buf)
  BY ConcatSeq DEF Lines
<1>3. Len(out) \in Nat /\ Len(buf) \in Nat /\ DOMAIN out = 1..Len(out)
      /\ DOMAIN buf = 1..Len(buf)
  OBVIOUS
<1>4. \A i \in 1..Len(out) : Lines[i] = out[i]
  BY ConcatFirst DEF Lines
<1>5. \A i \in 1..Len(out) : i \in 1..Len(Lines)
  BY <1>2, <1>3
<1>6. Len(Lines) \in Nat /\ Len(out) <= Len(Lines) BY <1>2, <1>3
<1>7. ASSUME NEW i \in 1..Len(Lines), i \notin 1..Len(out)
      PROVE  Lines[i] \in ToSet(buf)
  <2> DEFINE j == i - Len(out)
  <2>1. j \in 1..Len(buf) /\ j + Len(out) = i BY <1>2, <1>3, <1>7
  <2> HIDE DEF j
  <2>2. Lines[i] = buf[j] BY <2>1, ConcatThen DEF Lines
  <2> QED BY <1>3, <2>1, <2>2 DEF ToSet
<1> QED BY <1>2, <1>3, <1>4, <1>5, <1>6, <1>7

\* A line that is lost excuses what it told of, and the rest is as it was.
LEMMA LineLost ==
  ASSUME ListingInv, lost' = lost \cup ToSet(buf), UNCHANGED gone
  PROVE  /\ Lacks \subseteq Lacks'
         /\ \A n \in 1..(Len(asked) + 1) :
              Tells(Lines, n, Lacks) => Tells(out, n, Lacks')
         /\ HeadFirst(Lines, lost) => HeadFirst(out, lost')
         /\ FootLast(Lines, lost) => FootLast(out, lost')
<1> DEFINE lack == Lacks'
           missing == lost'
<1>1. out \in Seq(LineSet) /\ buf \in Seq(LineSet)
  BY DEF ListingInv, ListingTypes
<1>2. /\ Lines \in Seq(LineSet)
      /\ Len(out) \in Nat /\ Len(Lines) \in Nat /\ Len(out) <= Len(Lines)
      /\ \A i \in 1..Len(out) : i \in 1..Len(Lines) /\ Lines[i] = out[i]
      /\ \A i \in 1..Len(Lines) : i \in 1..Len(out) \/ Lines[i] \in ToSet(buf)
  BY <1>1, OutTold
<1>3. Lacks \subseteq lack BY DEF Lacks
<1>4. \A line \in ToSet(buf) : line \in missing /\ line.path \in lack
  BY DEF Lacks
<1>5. lost \subseteq missing OBVIOUS
<1> HIDE DEF lack, missing
<1>6. ASSUME NEW n \in 1..(Len(asked) + 1), Tells(Lines, n, Lacks)
      PROVE  Tells(out, n, lack)
  <2>1. TellsOnly(out, n) BY <1>2, <1>6 DEF Tells, TellsOnly
  <2>2. InOrder(out)
    <3>1. \A i \in 1..Len(out) : \A k : IsOf(out, i, k) => IsOf(Lines, i, k)
      BY <1>2 DEF IsOf
    <3> QED BY <1>2, <1>6, <3>1 DEF Tells, InOrder
  <2>3. ASSUME NEW k \in Wanted, k < n
        PROVE  asked[k].path \in lack \/ IsTold(out, k)
    <3>1. CASE asked[k].path \in Lacks BY <1>3, <3>1
    <3>2. CASE IsTold(Lines, k)
      <4>1. PICK i \in 1..Len(Lines) : IsOf(Lines, i, k) BY <3>2 DEF IsTold
      <4>2. CASE i \in 1..Len(out)
        <5>1. IsOf(out, i, k) BY <1>2, <4>1, <4>2 DEF IsOf
        <5> QED BY <4>2, <5>1 DEF IsTold
      <4>3. CASE Lines[i] \in ToSet(buf) BY <1>4, <4>1, <4>3 DEF IsOf
      <4> QED BY <1>2, <4>2, <4>3
    <3> QED BY <1>6, <2>3, <3>1, <3>2 DEF Tells, TellsAll
  <2> QED BY <2>1, <2>2, <2>3 DEF Tells, TellsAll
<1>7. ASSUME HeadFirst(Lines, lost) PROVE HeadFirst(out, missing)
  <2>1. \A i \in 1..Len(out) : out[i] = Around("head") => i = 1
    BY <1>2, <1>7 DEF HeadFirst
  <2>2. \/ Around("head") \in missing
        \/ out # <<>> /\ out[1] = Around("head")
    <3>1. CASE Around("head") \in lost BY <1>5, <3>1
    <3>2. CASE Lines # <<>> /\ Lines[1] = Around("head")
      <4>1. 1 \in 1..Len(Lines) BY <1>2, <3>2
      <4>2. CASE 1 \in 1..Len(out)
        <5>1. out # <<>> BY <4>2
        <5> QED BY <1>2, <3>2, <4>2, <5>1
      <4>3. CASE Lines[1] \in ToSet(buf) BY <1>4, <3>2, <4>3
      <4> QED BY <1>2, <4>1, <4>2, <4>3
    <3> QED BY <1>7, <3>1, <3>2 DEF HeadFirst
  <2> QED BY <2>1, <2>2 DEF HeadFirst
<1>8. ASSUME FootLast(Lines, lost) PROVE FootLast(out, missing)
  <2>1. CASE Around("foot") \in lost BY <1>5, <2>1 DEF FootLast
  <2>2. CASE Lines # <<>> /\ Lines[Len(Lines)] = Around("foot")
    <3>1. Len(Lines) \in 1..Len(Lines) BY <1>2, <2>2
    <3>2. CASE Len(Lines) \in 1..Len(out)
      <4>1. Len(Lines) = Len(out) /\ out # <<>> BY <1>2, <3>2
      <4> QED BY <1>2, <2>2, <3>2, <4>1 DEF FootLast
    <3>3. CASE Lines[Len(Lines)] \in ToSet(buf)
      BY <1>4, <2>2, <3>3 DEF FootLast
    <3> QED BY <1>2, <3>1, <3>2, <3>3
  <2> QED BY <1>8, <2>1, <2>2 DEF FootLast
<1> QED BY <1>3, <1>6, <1>7, <1>8 DEF lack, missing

\* A full socket: the line is dropped as if it was sent, or a byte of it is sent
\* twice.
LEMMA FullListing ==
  ASSUME ListingInv, FullSocket
  PROVE  ListingInv'
<1>1. /\ Listing /\ buf # None /\ lost' = lost \cup ToSet(buf)
      /\ UNCHANGED <<kind, pattern, out, gone, asked>>
  BY DEF FullSocket
<1>2. out \in Seq(LineSet) /\ buf \in Seq(LineSet)
  BY DEF ListingInv, ListingTypes
<1>3. /\ Lacks \subseteq Lacks'
      /\ \A n \in 1..(Len(asked) + 1) :
           Tells(Lines, n, Lacks) => Tells(out, n, Lacks')
      /\ HeadFirst(Lines, lost) => HeadFirst(out, lost')
      /\ FootLast(Lines, lost) => FootLast(out, lost')
  BY <1>1, LineLost
<1>4. CASE FinishedWriting
  <2>1. out' = out BY <1>1
  <2> QED BY <1>1, <1>2, <1>3, <1>4, <2>1, Finished
<1>5. CASE /\ buf' = <<[buf[1] EXCEPT !.part = "torn"]>>
           /\ UNCHANGED <<place, stream, footed, done>>
  <2> DEFINE line == [buf[1] EXCEPT !.part = "torn"]
             lack == Lacks'
             missing == lost'
  <2>1. buf[1] \in LineSet BY <1>1, <1>2 DEF None
  <2>2. line \in LineSet /\ line.part = "torn" BY <2>1 DEF LineSet
  <2> HIDE DEF line
  <2>3. line # Around("head") BY <2>2, AroundType
  <2>4. out \o <<line>> = Append(out, line) /\ <<line>> \in Seq(LineSet)
    BY <1>2, <2>2, OneMore
  <2>5. Lines' = Append(out, line) BY <1>1, <1>5, <2>4 DEF Lines, line
  <2>6. PICK n \in 1..(Len(asked) + 1) : Stands(n) /\ Tells(Lines, n, Lacks)
    BY DEF ListingInv, AtNext
  <2>7. asked \in Seq(Entries) BY DEF ListingInv, ListingTypes
  <2> DEFINE more == Append(out, line)
  <2>8. Tells(more, n, lack)
    <3>1. Tells(out, n, lack) BY <1>3, <2>6
    <3> HIDE DEF lack
    <3> QED BY <1>2, <2>2, <2>6, <2>7, <3>1, TellsAround
  <2>9. kind = "http" => HeadFirst(more, missing)
    <3>1. kind = "http" => HeadFirst(out, missing)
      BY <1>3 DEF ListingInv, Page
    <3> HIDE DEF missing
    <3> QED BY <1>2, <2>2, <2>3, <3>1, HeadLonger
  <2>10. kind = "http" /\ footed => FootLast(more, missing)
    <3> SUFFICES ASSUME kind = "http", footed PROVE Around("foot") \in missing
      BY DEF FootLast
    <3>1. FootLast(Lines, lost) BY DEF ListingInv, Page
    <3>2. CASE Around("foot") \in lost BY <1>1, <3>2
    <3>3. CASE Lines[Len(Lines)] = Around("foot")
      <4>1. Lines = out \o buf /\ Len(buf) \in 1..Len(buf)
        BY <1>1, <1>2 DEF Lines, None
      <4>2. Lines[Len(buf) + Len(out)] = buf[Len(buf)]
        BY <1>2, <4>1, ConcatThen
      <4>3. Len(Lines) = Len(buf) + Len(out)
        <5>1. Len(Lines) = Len(out) + Len(buf) BY <1>2, ConcatSeq DEF Lines
        <5>2. Len(out) \in Nat /\ Len(buf) \in Nat BY <1>2
        <5> QED BY <5>1, <5>2
      <4>4. Around("foot") \in ToSet(buf)
        <5>1. DOMAIN buf = 1..Len(buf) BY <1>2
        <5> QED BY <3>3, <4>1, <4>2, <4>3, <5>1 DEF ToSet
      <4> QED BY <1>1, <4>4
    <3> QED BY <3>1, <3>2, <3>3 DEF FootLast
  <2> HIDE DEF more
  <2>11. Lines' = more BY <2>5 DEF more
  <2>12. Tells(Lines, n, Lacks)'
    <3>1. PICK w : w = more OBVIOUS
    <3>2. PICK lacks : lacks = lack OBVIOUS
    <3>3. Tells(w, n, lacks) /\ Lines' = w /\ lacks \subseteq Lacks'
      BY <2>8, <2>11, <3>1, <3>2
    <3> QED BY <1>1, <3>3, TellsStill
  <2>13. AtNext(n)'
    <3>1. Wanted' = Wanted BY <1>1 DEF Wanted
    <3>2. Stands(n)' BY <1>1, <1>5, <2>6, <3>1 DEF Stands
    <3> QED BY <2>12, <3>2 DEF AtNext
  <2>14. kind' = "http" => Page'
    <3>1. kind = "http" /\ footed => NoEntriesLeft(place)
      BY DEF ListingInv, Page
    <3>2. NoEntriesLeft(place)' <=> NoEntriesLeft(place)
      BY <1>1, <1>5 DEF NoEntriesLeft
    <3>3. kind' = kind /\ footed' = footed BY <1>1, <1>5
    <3> QED
      BY <2>9, <2>10, <2>11, <3>1, <3>2, <3>3 DEF Page, HeadFirst, FootLast
  <2>15. ListingTypes'
    <3>1. buf' \in Seq(LineSet) BY <1>5, <2>4 DEF line
    <3> QED
      BY <1>1, <1>5, <3>1 DEF ListingInv, ListingTypes, PathsDiffer
  <2>16. kind' # "none" /\ ~ done' /\ n \in 1..(Len(asked') + 1)
    BY <1>1, <1>5 DEF Listing
  <2> QED BY <2>13, <2>14, <2>15, <2>16 DEF ListingInv
<1> QED BY <1>4, <1>5 DEF FullSocket

\* What only adds to the files that are gone.
LEMMA MoreGone ==
  ASSUME ListingInv, gone \subseteq gone',
         UNCHANGED <<kind, place, stream, pattern, buf, out, footed, done, lost,
                     asked>>
  PROVE  ListingInv'
<1>1. PICK n \in 1..(Len(asked) + 1) : Stands(n) /\ Tells(Lines, n, Lacks)
  BY DEF ListingInv, AtNext
<1>2. Lines' = Lines /\ Wanted' = Wanted BY DEF Lines, Wanted
<1>3. Lacks \subseteq Lacks' BY DEF Lacks
<1>4. Tells(Lines, n, Lacks)'
  <2>1. PICK w : w = Lines OBVIOUS
  <2>2. PICK lack : lack = Lacks OBVIOUS
  <2>3. Tells(w, n, lack) /\ Lines' = w /\ lack \subseteq Lacks'
    BY <1>1, <1>2, <1>3, <2>1, <2>2
  <2> QED BY <2>3, TellsStill
<1>5. AtNext(n)' BY <1>1, <1>2, <1>4 DEF AtNext, Stands
<1>6. ListingTypes' BY DEF ListingInv, ListingTypes, PathsDiffer
<1>7. kind = "http" => Page'
  BY <1>2 DEF ListingInv, Page, HeadFirst, FootLast, NoEntriesLeft
<1>8. Idle => Idle' BY DEF Idle
<1>9. n \in 1..(Len(asked') + 1) OBVIOUS
<1> QED BY <1>5, <1>6, <1>7, <1>8, <1>9 DEF ListingInv, NoEntriesLeft

\* Every step of a listing keeps its invariant.
LEMMA NextListing == ListingInv /\ [ListingNext]_listing => ListingInv'
<1> SUFFICES ASSUME ListingInv, [ListingNext]_listing PROVE ListingInv'
  OBVIOUS
<1>0. out \in Seq(LineSet) /\ buf \in Seq(LineSet)
  BY DEF ListingInv, ListingTypes
<1>1. ASSUME NEW k \in {"nlst", "list", "mlsd", "http"},
             NEW dir \in DOMAIN Dirs, NEW argument \in Arguments,
             Begin(k, dir, argument)
      PROVE  ListingInv'
  BY <1>1, BeginListing
<1>2. ASSUME UNCHANGED <<kind, pattern, gone, lost, asked>>, out' = Lines,
             Listing, FinishedWriting
      PROVE  ListingInv'
  <2>1. Lacks' = Lacks /\ lost' = lost BY <1>2 DEF Lacks
  <2>2. Lines \in Seq(LineSet) BY <1>0, OutTold
  <2> DEFINE lines == Lines
  <2>3. lines \in Seq(LineSet) /\ out' = lines
        /\ UNCHANGED <<kind, pattern, gone, asked>>
    BY <1>2, <2>2
  <2>4. /\ \A n \in 1..(Len(asked) + 1) :
             Tells(Lines, n, Lacks) => Tells(lines, n, Lacks')
        /\ HeadFirst(Lines, lost) => HeadFirst(lines, lost')
        /\ FootLast(Lines, lost) => FootLast(lines, lost')
        /\ Lacks \subseteq Lacks'
    BY <2>1
  <2> HIDE DEF lines
  <2> QED BY <1>2, <2>3, <2>4, Finished
<1>3. CASE WantWrite
  <2>1. Lines = out BY <1>0, <1>3, EmptyFirst DEF WantWrite, Lines, None
  <2> QED BY <1>2, <1>3, <2>1 DEF WantWrite
<1>4. CASE WriteOut
  BY <1>2, <1>4 DEF WriteOut, Lines
<1>5. CASE FullSocket
  BY <1>5, FullListing
<1>6. CASE Delete
  BY <1>6, MoreGone DEF Delete
<1>7. CASE UNCHANGED listing
  BY <1>7, MoreGone DEF listing
<1> QED
  BY <1>1, <1>3, <1>4, <1>5, <1>6, <1>7 DEF ListingNext

-----------------------------------------------------------------------------
\* The entries that are wanted, by what the pattern means.
LEMMA WantedMeans ==
  ASSUME ListingInv
  PROVE  {i \in DOMAIN asked : /\ asked[i].name \notin Dots
                               /\ Means(asked[i].name, pattern)} = Wanted
<1>1. asked \in Seq(Entries) /\ pattern \in Seq(Byte)
  BY DEF ListingInv, ListingTypes
<1>2. DOMAIN asked = 1..Len(asked) BY <1>1
<1>3. \A i \in 1..Len(asked) : asked[i].name \in Seq(Byte)
  BY <1>1, NameBytes DEF Entries
<1>4. \A i \in 1..Len(asked) :
        Gives(asked[i], pattern) <=> /\ asked[i].name \notin Dots
                                     /\ Means(asked[i].name, pattern)
  BY <1>1, <1>3, MatchMeans DEF Gives
<1> QED BY <1>2, <1>4 DEF Wanted

\* The invariant says of the lines written what ListsAll asks.
LEMMA InvListsAll == ListingInv => ListsAll
<1> SUFFICES ASSUME ListingInv PROVE ListsAll
  OBVIOUS
<1> DEFINE lines == {i \in DOMAIN out : out[i].part = "entry"}
           Given(k) == \E i \in lines : out[i].path = asked[k].path
           Excused(k) == \/ asked[k].path \in gone
                         \/ \E line \in lost : line.path = asked[k].path
<1>1. PICK n \in 1..(Len(asked) + 1) : AtNext(n) BY DEF ListingInv
<1>2. TellsOnly(Lines, n) /\ InOrder(Lines) /\ TellsAll(Lines, n, Lacks)
  BY <1>1 DEF AtNext, Tells
<1>0. out \in Seq(LineSet) /\ buf \in Seq(LineSet)
  BY DEF ListingInv, ListingTypes
<1>3. /\ Len(out) \in Nat /\ Len(Lines) \in Nat /\ Len(out) <= Len(Lines)
      /\ DOMAIN out = 1..Len(out)
      /\ \A i \in 1..Len(out) : i \in 1..Len(Lines) /\ Lines[i] = out[i]
  BY <1>0, OutTold
<1>4. asked \in Seq(Entries) /\ PathsDiffer(asked)
  BY DEF ListingInv, ListingTypes
<1>5. Len(asked) \in Nat /\ \A k \in Wanted : k \in 1..Len(asked)
  BY <1>4 DEF Wanted
<1>6. \A i \in lines : /\ i \in 1..Len(out) /\ i \in 1..Len(Lines) /\ i \in Int
                       /\ Lines[i] = out[i] /\ out[i].part = "entry"
  BY <1>3
<1> HIDE DEF lines, Given, Excused
<1>7. ASSUME NEW i \in lines
      PROVE  \E k \in Wanted : out[i].path = asked[k].path
  <2>1. PICK k \in Wanted : Lines[i] = LineOf(asked[k])
    BY <1>2, <1>6 DEF TellsOnly
  <2>2. asked[k] \in Entries BY <1>4, <1>5
  <2>3. out[i].path = asked[k].path BY <1>6, <2>1, <2>2, LineType
  <2> QED BY <2>3
<1>8. ASSUME NEW i \in lines, NEW j \in lines, NEW k \in Wanted,
             NEW l \in Wanted,
             out[i].path = asked[k].path, out[j].path = asked[l].path
      PROVE  i < j <=> k < l
  <2>1. k \in 1..Len(asked) /\ l \in 1..Len(asked) BY <1>5
  <2>2. IsOf(Lines, i, k) /\ IsOf(Lines, j, l) BY <1>6, <1>8 DEF IsOf
  <2>3. i < j => k < l BY <1>2, <1>6, <2>1, <2>2 DEF InOrder
  <2>4. j < i => l < k BY <1>2, <1>6, <2>1, <2>2 DEF InOrder
  <2>5. i = j => k = l BY <1>4, <1>8, <2>1 DEF PathsDiffer
  <2>6. i \in Int /\ j \in Int /\ k \in Int /\ l \in Int BY <1>6, <2>1
  <2> QED BY <2>3, <2>4, <2>5, <2>6
\* A line not sent yet is of an entry after those that are told.
<1>9. ASSUME NEW k \in Wanted
      PROVE  \/ Given(k) \/ Excused(k)
             \/ \A l \in Wanted : Given(l) => l < k
  <2> SUFFICES ASSUME NEW l \in Wanted, Given(l), ~ (l < k), ~ Excused(k)
               PROVE  Given(k)
    OBVIOUS
  <2>1. PICK i \in lines : out[i].path = asked[l].path BY DEF Given
  <2>2. IsOf(Lines, i, l) BY <1>6, <2>1 DEF IsOf
  <2>3. PICK h \in Wanted : h < n /\ Lines[i] = LineOf(asked[h])
    BY <1>2, <1>6 DEF TellsOnly
  <2>4. asked[h] \in Entries BY <1>4, <1>5
  <2>5. asked[h].path = asked[l].path BY <1>6, <2>1, <2>3, <2>4, LineType
  <2>6. h = l BY <1>4, <1>5, <2>5 DEF PathsDiffer
  <2>7. k < n BY <1>5, <2>3, <2>6
  <2>8. IsTold(Lines, k)
    <3>1. asked[k].path \notin Lacks BY DEF Excused, Lacks
    <3> QED BY <1>2, <2>7, <3>1 DEF TellsAll
  <2>9. PICK j \in 1..Len(Lines) : IsOf(Lines, j, k) BY <2>8 DEF IsTold
  <2>10. ~ (i < j) \/ l = k
    <3>1. i < j => l < k
      BY <1>2, <1>5, <1>6, <2>2, <2>9 DEF InOrder
    <3>2. ASSUME i < j PROVE FALSE
      <4>1. l < k BY <3>1, <3>2
      <4> QED BY <4>1
    <3> QED BY <3>2
  <2>11. CASE l = k BY <2>11
  <2>12. CASE ~ (i < j)
    <3>1. j \in 1..Len(out) BY <1>3, <1>6, <2>12
    <3>2. j \in lines BY <1>3, <2>9, <3>1 DEF IsOf, lines
    <3> QED BY <1>3, <2>9, <3>1, <3>2 DEF IsOf, Given
  <2> QED BY <2>10, <2>11, <2>12
<1>10. ASSUME done
       PROVE  /\ Lines = out
              /\ stream # "failed" =>
                   \A k \in Wanted : Given(k) \/ Excused(k)
  <2>1. NoEntriesLeft(place) /\ buf = None BY <1>10 DEF ListingInv
  <2>2. Lines = out BY <1>0, <2>1, EmptyFirst DEF Lines, None
  <2>3. ASSUME stream # "failed", NEW k \in Wanted PROVE Given(k) \/ Excused(k)
    <3>1. n = place BY <1>1, <2>3 DEF AtNext, Stands
    <3>2. k < n BY <1>5, <2>1, <3>1 DEF NoEntriesLeft
    <3>3. asked[k].path \in Lacks \/ IsTold(Lines, k)
      BY <1>2, <3>2 DEF TellsAll
    <3>4. CASE asked[k].path \in Lacks BY <3>4 DEF Lacks, Excused
    <3>5. CASE IsTold(Lines, k)
      <4>1. PICK i \in 1..Len(Lines) : IsOf(Lines, i, k) BY <3>5 DEF IsTold
      <4>2. i \in lines BY <1>3, <2>2, <4>1 DEF IsOf, lines
      <4> QED BY <2>2, <4>1, <4>2 DEF IsOf, Given
    <3> QED BY <3>3, <3>4, <3>5
  <2> QED BY <2>2, <2>3
<1>11. ASSUME kind = "http"
       PROVE  /\ \A i \in DOMAIN out : out[i] = Around("head") => i = 1
              /\ out # <<>> => out[1] = Around("head") \/ Around("head") \in lost
              /\ done => \/ Around("foot") \in lost
                         \/ out # <<>> /\ Last(out) = Around("foot")
  <2>1. HeadFirst(Lines, lost) /\ (footed => FootLast(Lines, lost))
    BY <1>11 DEF ListingInv, Page
  <2>2. \A i \in DOMAIN out : out[i] = Around("head") => i = 1
    BY <1>3, <2>1 DEF HeadFirst
  <2>3. ASSUME out # <<>>
        PROVE  out[1] = Around("head") \/ Around("head") \in lost
    <3>1. 1 \in 1..Len(out) BY <1>0, <2>3
    <3> QED BY <1>3, <2>1, <3>1 DEF HeadFirst
  <2>4. done => \/ Around("foot") \in lost
                \/ out # <<>> /\ Last(out) = Around("foot")
    <3>1. done => footed BY <1>11 DEF ListingInv
    <3> QED BY <1>10, <2>1, <3>1 DEF FootLast, Last
  <2> QED BY <2>2, <2>3, <2>4
<1> QED
  BY <1>7, <1>8, <1>9, <1>10, <1>11, WantedMeans
     DEF ListsAll, lines, Given, Excused

\* The names of the lines lead back to the entries they were made of.
LEMMA InvLinksLead == ListingInv => LinksLead
<1> SUFFICES ASSUME ListingInv, NEW i \in DOMAIN out,
                    out[i].part = "entry"
             PROVE  /\ kind = "mlsd" =>
                         \A dir \in DOMAIN Dirs :
                           ChdirText(dir, out[i].text) = out[i].path
                    /\ kind = "http" =>
                         /\ Parse(out[i].text) =
                              URI(<<>>, <<>>, out[i].path)
                         /\ Parse(Http \o <<Colon, Slash, Slash, 104>>
                                    \o out[i].text) =
                              URI(Http, <<104>>, out[i].path)
  BY DEF LinksLead, Http
<1>1. PICK n \in 1..(Len(asked) + 1) : AtNext(n) BY DEF ListingInv
<1>2. TellsOnly(Lines, n) BY <1>1 DEF AtNext, Tells
<1>3. i \in 1..Len(Lines) /\ Lines[i] = out[i]
  <2>1. out \in Seq(LineSet) /\ buf \in Seq(LineSet)
    BY DEF ListingInv, ListingTypes
  <2> QED BY <2>1, OutTold
<1>4. PICK k \in Wanted : out[i] = LineOf(asked[k])
  BY <1>2, <1>3 DEF TellsOnly
<1> DEFINE e == asked[k]
<1>5. e \in Entries /\ e.name \notin Dots
  BY <1>4 DEF ListingInv, ListingTypes, Wanted, Gives
<1> HIDE DEF e
<1>6. e.path \in Seq(Proper) /\ e.path # <<>> BY <1>5 DEF Entries
<1>7. out[i].path = e.path BY <1>4, <1>5, LineType DEF e
<1>8. ASSUME kind = "mlsd", NEW dir \in DOMAIN Dirs
      PROVE  ChdirText(dir, out[i].text) = out[i].path
  <2>1. out[i].text = <<Slash>> \o Str(e.path)
    BY <1>4, <1>8 DEF LineOf, Line, e
  <2> QED BY <1>6, <1>7, <2>1, PathLeads
<1>9. ASSUME kind = "http"
      PROVE  /\ Parse(out[i].text) = URI(<<>>, <<>>, out[i].path)
             /\ Parse(Http \o <<Colon, Slash, Slash, 104>> \o out[i].text) =
                  URI(Http, <<104>>, out[i].path)
  <2>1. out[i].text = <<Slash>> \o HtmlQuoted(e.path)
    BY <1>4, <1>9 DEF LineOf, Line, e
  <2> QED BY <1>6, <1>7, <2>1, LinkLeads
<1> QED BY <1>8, <1>9

\* Whatever is deleted while the directory is read, and whether readdir_r still
\* gives it or not, the listers send an entry that the pattern means once, in
\* the order of the directory, and nothing else; they pass over none that stays,
\* and leave out the rest only when readdir_r fails; and a page has its head and
\* foot around the entries. Lines lost to a full socket are excepted.
THEOREM ListsEachOnce == ListingSpec => []ListsAll
<1>1. ListingSpec => []ListingInv
  BY InitListing, NextListing, PTL DEF ListingSpec
<1> QED BY <1>1, InvListsAll, PTL

\* A link of a page of HTTPList, given back in a request with or without a host,
\* is parsed by URI::parse to the entry's own path, and the path on a line of
\* MLSD, given as an argument, is resolved by Path::chdir to itself, whatever the
\* working directory, for all names a directory may hold.
THEOREM LinksLeadBack == ListingSpec => []LinksLead
<1>1. ListingSpec => []ListingInv
  BY InitListing, NextListing, PTL DEF ListingSpec
<1> QED BY <1>1, InvLinksLead, PTL

=============================================================================
