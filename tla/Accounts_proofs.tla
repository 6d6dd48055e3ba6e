--------------------------- MODULE Accounts_proofs ----------------------------
(***************************************************************************)
(* What class User and its configuration entries account for.              *)
(*                                                                         *)
(* Logins: the properties of the counters of connections and logins, for   *)
(* any finite set of connections, any users, any limits and any number of  *)
(* crashes.  Quotas: those of the bytes booked, for any sessions and       *)
(* users, any limits and ratio, pieces of any size and any bound.          *)
(***************************************************************************)
EXTENDS Logins, Quotas, FiniteSetTheorems, TLAPS

-----------------------------------------------------------------------------
(* Logins.                                                                 *)

\* What a stop leaves in the files is what its start found there, and before
\* the first crash that was nothing.
Restarts ==
  /\ ~ running => saved = stale
  /\ crashes = 0 => stale = Zero

Inv == TypeOK /\ CountersExact /\ LimitsHold /\ Restarts

-----------------------------------------------------------------------------
(* Counting connections.                                                   *)

LEMMA Finite ==
  ASSUME TypeOK
  PROVE  /\ IsFiniteSet(waiting) /\ Cardinality(waiting) \in Nat
         /\ \A u \in Users : /\ IsFiniteSet(LoggedIn(u))
                             /\ Cardinality(LoggedIn(u)) \in Nat
<1>1. waiting \in SUBSET Conns /\ \A u \in Users : LoggedIn(u) \in SUBSET Conns
  BY DEF TypeOK, LoggedIn
<1>2. IsFiniteSet(waiting) /\ \A u \in Users : IsFiniteSet(LoggedIn(u))
  BY <1>1, FS_Subset, LoginsConstants, NoneIsNoUser
<1> QED
  BY <1>2, FS_CardinalityType

\* One element less.
LEMMA OneLess ==
  ASSUME NEW S, IsFiniteSet(S), NEW c
  PROVE  /\ IsFiniteSet(S \ {c}) /\ Cardinality(S \ {c}) \in Nat
         /\ Cardinality(S) =
              IF c \in S THEN Cardinality(S \ {c}) + 1 ELSE Cardinality(S \ {c})
<1>1. IsFiniteSet(S \ {c}) /\ Cardinality(S \ {c}) \in Nat /\ Cardinality(S) \in Nat
  BY FS_RemoveElement, FS_CardinalityType
<1>2. Cardinality(S \ {c}) =
        IF c \in S THEN Cardinality(S) - 1 ELSE Cardinality(S)
  BY FS_RemoveElement
<1> QED
  BY <1>1, <1>2

\* User::deauthenticate gives back exactly the login that c has.
LEMMA LeftIs ==
  ASSUME TypeOK, CountersExact, NEW c \in Conns
  PROVE  /\ Left(c) \in [Users -> Nat]
         /\ \A u \in Users :
              /\ Left(c)[u] = stale.logins[u] + Cardinality(LoggedIn(u) \ {c})
              /\ Cardinality(LoggedIn(u) \ {c}) \in Nat
              /\ Cardinality(LoggedIn(u) \ {c}) <= Cardinality(LoggedIn(u))
<1>1. ASSUME NEW u \in Users
      PROVE  /\ Left(c)[u] \in Nat
             /\ Left(c)[u] = stale.logins[u] + Cardinality(LoggedIn(u) \ {c})
             /\ Cardinality(LoggedIn(u) \ {c}) \in Nat
             /\ Cardinality(LoggedIn(u) \ {c}) <= Cardinality(LoggedIn(u))
  <2>1. PICK s \in Nat, n \in Nat, k \in Nat :
          /\ s = stale.logins[u] /\ n = Cardinality(LoggedIn(u))
          /\ k = Cardinality(LoggedIn(u) \ {c})
          /\ n = IF c \in LoggedIn(u) THEN k + 1 ELSE k
    <3>1. /\ Cardinality(LoggedIn(u) \ {c}) \in Nat
          /\ Cardinality(LoggedIn(u)) =
               IF c \in LoggedIn(u) THEN Cardinality(LoggedIn(u) \ {c}) + 1
               ELSE Cardinality(LoggedIn(u) \ {c})
      BY Finite, OneLess
    <3>2. Cardinality(LoggedIn(u)) \in Nat /\ stale.logins[u] \in Nat
      BY Finite DEF TypeOK, Counters
    <3> QED
      BY <3>1, <3>2
  <2>2. logins[u] = s + n
    BY <2>1 DEF CountersExact
  <2>3. c \in LoggedIn(u) <=> u = user[c]
    BY DEF LoggedIn
  <2>4. Left(c)[u] = IF u = user[c] THEN Less(s + n, 1) ELSE s + n
    BY <2>2 DEF Left
  <2>5. Left(c)[u] = s + k
    BY <2>1, <2>3, <2>4 DEF Less
  <2> QED
    BY <2>1, <2>5
<1>2. Left(c) = [u \in Users |-> Left(c)[u]]
  BY DEF Left
<1> QED
  BY <1>1, <1>2

\* Control::decrement counts a connection once, however often it is called.
LEMMA DecrementIs ==
  ASSUME TypeOK, CountersExact, NEW c \in Conns, Decrement(c)
  PROVE  /\ waiting' = waiting \ {c}
         /\ unauth' \in Nat
         /\ unauth' = stale.unauth + Cardinality(waiting')
         /\ Cardinality(waiting') \in Nat
         /\ Cardinality(waiting') <= Cardinality(waiting)
<1>1. PICK s \in Nat, n \in Nat, k \in Nat :
        /\ s = stale.unauth /\ n = Cardinality(waiting)
        /\ k = Cardinality(waiting \ {c})
        /\ n = IF c \in waiting THEN k + 1 ELSE k
  <2>1. /\ Cardinality(waiting \ {c}) \in Nat
        /\ Cardinality(waiting) =
             IF c \in waiting THEN Cardinality(waiting \ {c}) + 1
             ELSE Cardinality(waiting \ {c})
    BY Finite, OneLess
  <2>2. Cardinality(waiting) \in Nat /\ stale.unauth \in Nat
    BY Finite DEF TypeOK, Counters
  <2> QED
    BY <2>1, <2>2
<1>2. unauth = s + n
  BY <1>1 DEF CountersExact
<1>3. waiting' = waiting \ {c} /\ unauth' = IF c \in waiting THEN Less(s + n, 1) ELSE s + n
  BY <1>2 DEF Decrement
<1>4. unauth' = s + k
  BY <1>1, <1>3 DEF Less
<1> QED
  BY <1>1, <1>3, <1>4

\* Who is logged in after a connection changed its user.
LEMMA NowLoggedIn ==
  ASSUME TypeOK, NEW c \in Conns, NEW v \in Users \cup {None},
         user' = [user EXCEPT ![c] = v]
  PROVE  \A u \in Users :
           LoggedIn(u)' = IF u = v THEN (LoggedIn(u) \ {c}) \cup {c}
                          ELSE LoggedIn(u) \ {c}
BY DEF TypeOK, LoggedIn

-----------------------------------------------------------------------------
(* The invariant.                                                          *)

\* With no connection left, what a start found is all that is counted.
LEMMA NobodyLeft ==
  ASSUME waiting' = {}, user' = [c \in Conns |-> None],
         stale' \in Counters,
         unauth' = stale'.unauth, logins' = stale'.logins
  PROVE  CountersExact' /\ LimitsHold'
<1>1. \A u \in Users : LoggedIn(u)' = {}
  BY LoginsConstants, NoneIsNoUser DEF LoggedIn
<1>2. Cardinality({}) = 0
  BY FS_EmptySet
<1>3. stale'.unauth \in Nat /\ stale'.logins \in [Users -> Nat]
  BY DEF Counters
<1>4. CountersExact'
  <2>1. unauth' = stale'.unauth + 0
    BY <1>3
  <2>2. \A u \in Users : logins'[u] = stale'.logins[u] + 0
    BY <1>3
  <2>3. Cardinality(waiting') = 0 /\ \A u \in Users : Cardinality(LoggedIn(u)') = 0
    BY <1>1, <1>2
  <2> QED
    BY <2>1, <2>2, <2>3 DEF CountersExact
<1>5. LimitsHold'
  BY <1>1, <1>2, LoginsConstants, NoneIsNoUser DEF LimitsHold
<1> QED
  BY <1>4, <1>5

LEMMA InitInv == Init => Inv
<1> SUFFICES ASSUME Init PROVE Inv
  OBVIOUS
<1>1. /\ Zero \in Counters /\ Zero.unauth = 0
      /\ Zero.logins = [u \in Users |-> 0]
  BY DEF Zero, Counters
<1>2. TypeOK
  BY <1>1, LoginsConstants, NoneIsNoUser DEF Init, TypeOK
<1>3. \A u \in Users : LoggedIn(u) = {}
  BY LoginsConstants, NoneIsNoUser DEF Init, LoggedIn
<1>4. CountersExact /\ LimitsHold
  BY <1>1, <1>3, FS_EmptySet, LoginsConstants, NoneIsNoUser DEF Init, CountersExact, LimitsHold
<1> QED
  BY <1>2, <1>4 DEF Init, Inv, Restarts

LEMMA ConnectInv ==
  ASSUME Inv, NEW c \in Conns, Connect(c)
  PROVE  Inv'
<1> USE DEF Inv
<1>1. PICK n \in Nat : n = Cardinality(waiting)
  BY Finite
<1>2. /\ c \notin waiting /\ waiting' = waiting \cup {c}
      /\ unauth' = unauth + 1 /\ Fits(unauth, MaxUnauth)
      /\ open' = open \cup {c} /\ running
      /\ UNCHANGED <<http, running, listening, user, logins, saved, stale, crashes>>
  BY DEF Connect, TypeOK
<1>3. Cardinality(waiting') = n + 1
  BY <1>1, <1>2, Finite, FS_AddElement
<1>4. \A u \in Users : LoggedIn(u)' = LoggedIn(u) /\ c \notin LoggedIn(u)
  BY DEF Connect, LoggedIn, LimitsHold
<1>5. stale.unauth \in Nat /\ unauth = stale.unauth + n
  BY <1>1 DEF TypeOK, Counters, CountersExact
<1>6. TypeOK'
  BY <1>2 DEF TypeOK
<1>7. CountersExact'
  BY <1>2, <1>3, <1>4, <1>5 DEF CountersExact
<1>8. LimitsHold'
  <2>1. MaxUnauth # 0 => Cardinality(waiting') <= MaxUnauth
    BY <1>2, <1>3, <1>5, LoginsConstants, NoneIsNoUser DEF Fits
  <2> QED
    BY <1>2, <1>4, <2>1 DEF LimitsHold
<1> QED
  BY <1>2, <1>6, <1>7, <1>8 DEF Restarts

\* A connection gives back its login, and takes another one or none; it may
\* leave the state before authentication, and be closed.
LEMMA LoginInv ==
  ASSUME Inv, NEW c \in open, NEW v \in Users \cup {None},
         user' = [user EXCEPT ![c] = v],
         logins' = IF v \in Users THEN [Left(c) EXCEPT ![v] = @ + 1] ELSE Left(c),
         v \in Users => Fits(Left(c)[v], MaxLogins) /\ c \notin waiting' /\ c \in open',
         Decrement(c) \/ UNCHANGED <<unauth, waiting>>,
         open' = open \/ (open' = open \ {c} /\ c \notin waiting'),
         running,
         UNCHANGED <<http, running, listening, saved, stale, crashes>>
  PROVE  Inv'
<1> USE DEF Inv
<1>0. c \in Conns
  BY DEF TypeOK
<1>1. /\ Left(c) \in [Users -> Nat]
      /\ \A u \in Users :
           /\ Left(c)[u] = stale.logins[u] + Cardinality(LoggedIn(u) \ {c})
           /\ Cardinality(LoggedIn(u) \ {c}) \in Nat
           /\ Cardinality(LoggedIn(u) \ {c}) <= Cardinality(LoggedIn(u))
  BY <1>0, LeftIs
<1>2. /\ waiting' \subseteq waiting /\ waiting' \subseteq open'
      /\ unauth' \in Nat
      /\ unauth' = stale.unauth + Cardinality(waiting')
      /\ Cardinality(waiting') \in Nat
      /\ Cardinality(waiting') <= Cardinality(waiting)
  <2>1. CASE Decrement(c)
    BY <1>0, <2>1, DecrementIs DEF TypeOK
  <2>2. CASE UNCHANGED <<unauth, waiting>>
    BY <2>2, Finite DEF TypeOK, CountersExact
  <2> QED
    BY <2>1, <2>2
<1>3. ASSUME NEW u \in Users
      PROVE  /\ logins'[u] = IF u = v THEN Left(c)[u] + 1 ELSE Left(c)[u]
             /\ Cardinality(LoggedIn(u)') =
                  IF u = v THEN Cardinality(LoggedIn(u) \ {c}) + 1
                  ELSE Cardinality(LoggedIn(u) \ {c})
             /\ LoggedIn(u)' = IF u = v THEN (LoggedIn(u) \ {c}) \cup {c}
                               ELSE LoggedIn(u) \ {c}
  <2>1. LoggedIn(u)' = IF u = v THEN (LoggedIn(u) \ {c}) \cup {c}
                       ELSE LoggedIn(u) \ {c}
    BY <1>0, NowLoggedIn
  <2>2. IsFiniteSet(LoggedIn(u) \ {c})
    BY Finite, OneLess
  <2>3. Cardinality((LoggedIn(u) \ {c}) \cup {c}) = Cardinality(LoggedIn(u) \ {c}) + 1
    BY <2>2, FS_AddElement
  <2>4. logins'[u] = IF u = v THEN Left(c)[u] + 1 ELSE Left(c)[u]
    BY <1>1
  <2> QED
    BY <2>1, <2>3, <2>4
<1>4. logins' \in [Users -> Nat]
  BY <1>1
<1>5. TypeOK'
  BY <1>0, <1>2, <1>4 DEF TypeOK
<1>6. CountersExact'
  <2>1. ASSUME NEW u \in Users
        PROVE  logins'[u] = stale.logins[u] + Cardinality(LoggedIn(u)')
    <3>1. PICK s \in Nat, k \in Nat :
            s = stale.logins[u] /\ k = Cardinality(LoggedIn(u) \ {c})
      BY <1>1 DEF TypeOK, Counters
    <3>2. Left(c)[u] = s + k
      BY <1>1, <3>1
    <3> QED
      BY <1>3, <3>1, <3>2
  <2> QED
    BY <1>2, <2>1 DEF CountersExact
<1>7. LimitsHold'
  <2>1. ASSUME MaxLogins # 0, NEW u \in Users
        PROVE  Cardinality(LoggedIn(u)') <= MaxLogins
    <3>1. PICK s \in Nat, k \in Nat :
            s = stale.logins[u] /\ k = Cardinality(LoggedIn(u) \ {c})
      BY <1>1 DEF TypeOK, Counters
    <3>2. CASE u = v
      <4>1. Left(c)[u] + 1 <= MaxLogins
        BY <2>1, <3>2 DEF Fits
      <4>2. Left(c)[u] = s + k
        BY <1>1, <3>1
      <4>3. Cardinality(LoggedIn(u)') = k + 1
        BY <1>3, <3>1, <3>2
      <4> QED
        BY <3>1, <4>1, <4>2, <4>3, LoginsConstants, NoneIsNoUser
    <3>3. CASE u # v
      <4>1. Cardinality(LoggedIn(u)) <= MaxLogins /\ Cardinality(LoggedIn(u)) \in Nat
        BY <2>1, Finite DEF LimitsHold
      <4>2. k <= Cardinality(LoggedIn(u))
        BY <1>1, <3>1
      <4>3. Cardinality(LoggedIn(u)') = k
        BY <1>3, <3>1, <3>3
      <4> QED
        BY <3>1, <4>1, <4>2, <4>3, LoginsConstants, NoneIsNoUser
    <3> QED
      BY <3>2, <3>3
  <2>2. MaxUnauth # 0 => Cardinality(waiting') <= MaxUnauth
    BY <1>2, Finite, LoginsConstants, NoneIsNoUser DEF LimitsHold
  <2>3. ASSUME NEW u \in Users
        PROVE  LoggedIn(u)' \subseteq open' \ waiting'
    BY <1>2, <1>3 DEF LimitsHold
  <2> QED
    BY <2>1, <2>2, <2>3 DEF LimitsHold
<1> QED
  BY <1>5, <1>6, <1>7 DEF Restarts

\* An HTTP request logs in and out again within the call.
LEMMA RequestInv ==
  ASSUME Inv, NEW c \in Conns, NEW u \in Users, Request(c, u)
  PROVE  Inv'
<1> USE DEF Inv
<1>1. logins' = [logins EXCEPT ![u] = Less(@ + 1, 1)] /\ Decrement(c)
      /\ UNCHANGED <<http, running, listening, open, user, saved, stale, crashes>>
  BY DEF Request
<1>2. logins' = logins
  BY <1>1 DEF TypeOK, Less
<1>3. /\ waiting' = waiting \ {c}
      /\ unauth' \in Nat
      /\ unauth' = stale.unauth + Cardinality(waiting')
      /\ Cardinality(waiting') \in Nat
      /\ Cardinality(waiting') <= Cardinality(waiting)
  BY <1>1, DecrementIs
<1>4. \A v \in Users : LoggedIn(v)' = LoggedIn(v)
  BY <1>1 DEF LoggedIn
<1>5. TypeOK' /\ CountersExact'
  BY <1>1, <1>2, <1>3, <1>4 DEF TypeOK, CountersExact
<1>6. LimitsHold'
  <2>1. MaxUnauth # 0 => Cardinality(waiting') <= MaxUnauth
    BY <1>3, Finite, LoginsConstants, NoneIsNoUser DEF LimitsHold
  <2> QED
    BY <1>1, <1>3, <1>4, <2>1 DEF LimitsHold
<1> QED
  BY <1>1, <1>5, <1>6 DEF Restarts

\* A stop gives back what its connections had, and writes that down.
LEMMA StopInv ==
  ASSUME Inv, Stop
  PROVE  Inv'
<1> USE DEF Inv
<1>1. /\ unauth' = Less(unauth, Cardinality(waiting))
      /\ logins' = [u \in Users |-> Less(logins[u], Cardinality(LoggedIn(u)))]
      /\ saved' = [unauth |-> unauth', logins |-> logins']
      /\ open' = {} /\ waiting' = {} /\ user' = [c \in Conns |-> None]
      /\ running' = FALSE /\ listening' = FALSE
      /\ UNCHANGED <<http, stale, crashes>>
  BY DEF Stop, NoConns
<1>2. /\ stale = [unauth |-> stale.unauth, logins |-> stale.logins]
      /\ stale.unauth \in Nat /\ stale.logins \in [Users -> Nat]
  BY DEF TypeOK, Counters
<1>3. unauth' = stale.unauth
  BY <1>1, <1>2, Finite DEF CountersExact, Less
<1>4. \A u \in Users : Less(logins[u], Cardinality(LoggedIn(u))) = stale.logins[u]
  <2> SUFFICES ASSUME NEW u \in Users
               PROVE  Less(logins[u], Cardinality(LoggedIn(u))) = stale.logins[u]
    OBVIOUS
  <2>1. PICK s \in Nat, n \in Nat :
          s = stale.logins[u] /\ n = Cardinality(LoggedIn(u))
    BY <1>2, Finite
  <2>2. logins[u] = s + n
    BY <2>1 DEF CountersExact
  <2> QED
    BY <2>1, <2>2 DEF Less
<1>5. logins' = stale.logins
  BY <1>1, <1>2, <1>4
<1>6. saved' = stale
  BY <1>1, <1>2, <1>3, <1>5
<1>7. TypeOK'
  BY <1>1, <1>2, <1>3, <1>5, <1>6 DEF TypeOK
<1>8. CountersExact' /\ LimitsHold'
  BY <1>1, <1>3, <1>5, <1>7, NobodyLeft DEF TypeOK
<1> QED
  BY <1>1, <1>6, <1>7, <1>8 DEF Restarts

LEMMA StartInv ==
  ASSUME Inv, Start, crashes' \in 0..MaxCrashes, crashes' = 0 => saved = Zero
  PROVE  Inv'
<1> USE DEF Inv
<1>1. /\ running' = TRUE /\ listening' = TRUE
      /\ unauth' = saved.unauth /\ logins' = saved.logins /\ stale' = saved
      /\ open' = {} /\ waiting' = {} /\ user' = [c \in Conns |-> None]
      /\ UNCHANGED <<http, saved>>
  BY DEF Start, NoConns
<1>2. saved.unauth \in Nat /\ saved.logins \in [Users -> Nat]
  BY DEF TypeOK, Counters
<1>3. TypeOK'
  BY <1>1, <1>2 DEF TypeOK
<1>4. CountersExact' /\ LimitsHold'
  BY <1>1, <1>3, NobodyLeft DEF TypeOK
<1> QED
  BY <1>1, <1>3, <1>4 DEF Restarts

\* Steps that leave connections and counters alone.
LEMMA OthersInv ==
  ASSUME Inv, Overrun \/ Sync \/ UNCHANGED vars
  PROVE  Inv'
<1> USE DEF Inv
<1>1. /\ UNCHANGED <<http, running, conns, unauth, logins, stale, crashes>>
      /\ listening' \in BOOLEAN
      /\ saved' \in Counters
      /\ ~ running => saved' = saved
  <2>1. CASE Overrun
    BY <2>1 DEF Overrun, conns, TypeOK
  <2>2. CASE Sync
    <3>1. Current \in Counters
      BY DEF Current, Counters, TypeOK
    <3> QED
      BY <2>2, <3>1 DEF Sync, conns, TypeOK
  <2>3. CASE UNCHANGED vars
    BY <2>3 DEF vars, conns, TypeOK
  <2> QED
    BY <2>1, <2>2, <2>3
<1>2. TypeOK'
  BY <1>1 DEF TypeOK, conns
<1>3. CountersExact' /\ LimitsHold' /\ Restarts'
  BY <1>1 DEF CountersExact, LimitsHold, LoggedIn, Restarts, conns
<1> QED
  BY <1>2, <1>3

LEMMA StepInv == Inv /\ [Next]_vars => Inv'
<1> SUFFICES ASSUME Inv, [Next]_vars PROVE Inv'
  OBVIOUS
<1>0. open \subseteq Conns /\ None \notin Users
  BY LoginsConstants, NoneIsNoUser DEF Inv, TypeOK
<1>1. ASSUME NEW c \in Conns, Connect(c) PROVE Inv'
  BY <1>1, ConnectInv
<1>2. ASSUME NEW c \in Conns, LoseAuth(c) PROVE Inv'
  <2>1. PICK v \in Users \cup {None} : v = None
    OBVIOUS
  <2> QED
    BY <1>0, <1>2, <2>1, LoginInv DEF LoseAuth
<1>3. ASSUME NEW c \in Conns, Close(c) PROVE Inv'
  <2>1. PICK v \in Users \cup {None} : v = None
    OBVIOUS
  <2> QED
    BY <1>0, <1>3, <2>1, LoginInv DEF Close, Decrement
<1>4. ASSUME NEW c \in Conns, NEW u \in Users, PassAccepted(c, u) PROVE Inv'
  BY <1>0, <1>4, LoginInv DEF PassAccepted, Decrement
<1>5. ASSUME NEW c \in Conns, NEW u \in Users, Request(c, u) PROVE Inv'
  BY <1>5, RequestInv
<1>6. CASE Stop
  BY <1>6, StopInv
<1>7. CASE Restart
  BY <1>7, StartInv DEF Restart, Inv, TypeOK, Restarts
<1>8. CASE Crash
  <2>1. crashes \in Nat /\ crashes' = crashes + 1 /\ crashes' \in 0..MaxCrashes
    BY <1>8, LoginsConstants, NoneIsNoUser DEF Crash, Inv, TypeOK
  <2> QED
    BY <1>8, <2>1, StartInv DEF Crash
<1>9. CASE Overrun \/ Sync \/ UNCHANGED vars
  BY <1>9, OthersInv
<1> QED
  BY <1>1, <1>2, <1>3, <1>4, <1>5, <1>6, <1>7, <1>8, <1>9 DEF Next, ConnStep

LEMMA Always == Spec => []Inv
BY InitInv, StepInv, PTL DEF Spec

\* Control and User (src/control.hh, src/user.cc): the counters are exact on
\* top of what the program found, over every order of logins, failures,
\* closes, stops and crashes.
THEOREM ExactCounters == Spec => []CountersExact
<1>1. Inv => CountersExact
  BY DEF Inv
<1> QED
  BY <1>1, Always, PTL

\* logins_max and unauthenticated_connections_max hold for connections, and
\* nobody who is logged in is counted as unauthenticated.
THEOREM WithinLimits == Spec => []LimitsHold
<1>1. Inv => LimitsHold
  BY DEF Inv
<1> QED
  BY <1>1, Always, PTL

\* main (src/main.cc): a server that was only ever stopped in order leaves
\* zeros in its files.
THEOREM StopsClean == Spec => []CleanStop
<1>1. Inv => CleanStop
  BY DEF Inv, Restarts, CleanStop
<1> QED
  BY <1>1, Always, PTL

\* The counters are numbers, and connections and users those of the server.
THEOREM TypeCorrect == Spec => []TypeOK
<1>1. Inv => TypeOK
  BY DEF Inv
<1> QED
  BY <1>1, Always, PTL

-----------------------------------------------------------------------------
(* Quotas.                                                                 *)

\* Who books what: a User either books both directions or none, and only for
\* a user with counters; one that books none although the user has counters
\* has tainted them. A transfer does as the User that started it.
Booking ==
  /\ \A s \in Sessions :
       /\ account[s] \in {{}, Directions}
       /\ login[s] # None /\ account[s] # {} => login[s] \in Accounted
       /\ login[s] \in Accounted \ tainted => account[s] = Directions
  /\ \A s \in Sessions :
       /\ xfer[s].user # None /\ xfer[s].books => xfer[s].user \in Accounted
       /\ xfer[s].user \in Accounted \ tainted => xfer[s].books

QuotaInv == QuotaTypeOK /\ Booking /\ BookedWithinLimit /\ CountsMoved

-----------------------------------------------------------------------------
(* Arithmetic.                                                             *)

\* The limit on downloads: more uploads never make it smaller.
LEMMA RatioGrows ==
  ASSUME NEW r \in Nat, NEW m \in Nat, NEW n \in Nat, m <= n
  PROVE  r * m \in Nat /\ r * n \in Nat /\ r * m <= r * n
<1>1. PICK k \in Nat : n = m + k
  <2>1. n - m \in Nat /\ n = m + (n - m)
    OBVIOUS
  <2> QED
    BY <2>1
<1>2. r * (m + k) = r * m + r * k
  OBVIOUS
<1>3. r * m \in Nat /\ r * k \in Nat
  OBVIOUS
<1> QED
  BY <1>1, <1>2, <1>3

\* The limit is a number, and is zero or at least what it would be with no
\* uploads at all.
LEMMA LimitIs ==
  ASSUME QuotaTypeOK, NEW u \in Users, NEW d \in Directions
  PROVE  /\ Limit(u, d) \in Nat
         /\ d = "upload" => Limit(u, d) = MaxUpload
         /\ d = "download" =>
              Limit(u, d) = MaxDownload + Ratio * booked[u]["upload"]
<1>1. booked[u]["upload"] \in Nat
  BY DEF QuotaTypeOK, Counts, Directions
<1>2. Ratio * booked[u]["upload"] \in Nat
  BY <1>1, QuotasConstants, NoneIsNoUser, RatioGrows
<1> QED
  BY <1>2, QuotasConstants, NoneIsNoUser DEF Limit, Directions

-----------------------------------------------------------------------------
(* The invariant.                                                          *)

LEMMA QuotaInitInv == QuotaInit => QuotaInv
<1> SUFFICES ASSUME QuotaInit PROVE QuotaInv
  OBVIOUS
<1>1. /\ booked \in Counts /\ moved = booked
      /\ \A u \in Users, d \in Directions : booked[u][d] = 0
  BY DEF QuotaInit, Counts
<1>2. QuotaTypeOK
  BY <1>1 DEF QuotaInit, QuotaTypeOK, Xfers, NoXfer, Directions
<1>3. Booking
  BY QuotasConstants, NoneIsNoUser DEF QuotaInit, Booking, NoXfer
<1>4. BookedWithinLimit
  BY <1>1, <1>2, LimitIs DEF BookedWithinLimit
<1>5. CountsMoved
  BY <1>1 DEF CountsMoved
<1> QED
  BY <1>2, <1>3, <1>4, <1>5 DEF QuotaInv

\* Limits and accounts depend on the counters and on who was tainted or
\* refused, both of which only grow.
LEMMA NoPiece ==
  ASSUME QuotaInv, UNCHANGED <<booked, moved>>,
         tainted \subseteq tainted',
         \A u \in Users : turned[u] \subseteq turned'[u]
  PROVE  BookedWithinLimit' /\ CountsMoved'
BY DEF QuotaInv, BookedWithinLimit, CountsMoved, Limit

LEMMA AuthenticateInv ==
  ASSUME QuotaInv, NEW s \in Sessions, NEW u \in Users, Authenticate(s, u)
  PROVE  QuotaInv'
<1>1. /\ login' = [login EXCEPT ![s] = u]
      /\ account' = [account EXCEPT ![s] =
                       IF u \in Accounted THEN Accounting(s) ELSE {}]
      /\ tainted' = IF Accounting(s) = {} THEN tainted \cup {u} ELSE tainted
      /\ UNCHANGED <<fresh, xfer, booked, moved, turned>>
  BY DEF Authenticate
<1>2. Accounting(s) \in {{}, Directions}
  BY DEF Accounting, QuotaInv, Booking
<1>3. QuotaTypeOK'
  BY <1>1, <1>2 DEF QuotaInv, QuotaTypeOK
<1>4. Booking'
  <2>1. ASSUME NEW t \in Sessions
        PROVE  /\ account'[t] \in {{}, Directions}
               /\ login'[t] # None /\ account'[t] # {} =>
                    login'[t] \in Accounted
               /\ login'[t] \in Accounted \ tainted' =>
                    account'[t] = Directions
    <3>1. CASE t = s
      BY <1>1, <1>2, <3>1 DEF QuotaInv, QuotaTypeOK
    <3>2. CASE t # s
      BY <1>1, <3>2 DEF QuotaInv, QuotaTypeOK, Booking
    <3> QED
      BY <3>1, <3>2
  <2>2. ASSUME NEW t \in Sessions
        PROVE  /\ xfer'[t].user # None /\ xfer'[t].books =>
                    xfer'[t].user \in Accounted
               /\ xfer'[t].user \in Accounted \ tainted' => xfer'[t].books
    BY <1>1 DEF QuotaInv, Booking
  <2> QED
    BY <2>1, <2>2 DEF Booking
<1> QED
  BY <1>1, <1>3, <1>4, NoPiece DEF QuotaInv

\* A transfer that ends, or that begins as its session's User does.
LEMMA XferInv ==
  ASSUME QuotaInv, NEW s \in Sessions, NEW x \in Xfers,
         \/ x = NoXfer
         \/ /\ login[s] # None /\ x.user = login[s]
            /\ x.books = (x.dir \in account[s]),
         xfer' = [xfer EXCEPT ![s] = x],
         UNCHANGED <<login, account, tainted>>
  PROVE  Booking'
<1>1. /\ x.user # None /\ x.books => x.user \in Accounted
      /\ x.user \in Accounted \ tainted => x.books
  <2>1. CASE x = NoXfer
    BY <2>1, QuotasConstants, NoneIsNoUser DEF NoXfer
  <2>2. CASE /\ login[s] # None /\ x.user = login[s]
             /\ x.books = (x.dir \in account[s])
    <3>1. x.dir \in Directions /\ x.books \in BOOLEAN
      BY DEF Xfers
    <3>2. /\ account[s] # {} => login[s] \in Accounted
          /\ login[s] \in Accounted \ tainted => account[s] = Directions
      BY <2>2 DEF QuotaInv, Booking
    <3> QED
      BY <2>2, <3>1, <3>2
  <2> QED
    BY <2>1, <2>2
<1>2. ASSUME NEW t \in Sessions
      PROVE  /\ xfer'[t].user # None /\ xfer'[t].books => xfer'[t].user \in Accounted
             /\ xfer'[t].user \in Accounted \ tainted => xfer'[t].books
  <2>1. xfer'[t] = IF t = s THEN x ELSE xfer[t]
    BY DEF QuotaInv, QuotaTypeOK
  <2> QED
    BY <1>1, <2>1 DEF QuotaInv, Booking
<1> QED
  BY <1>2 DEF QuotaInv, Booking

LEMMA RefuseGrows ==
  ASSUME QuotaInv, NEW u \in Users, NEW d \in Directions, Refuse(u, d)
  PROVE  /\ turned' \in [Users -> SUBSET Directions]
         /\ d \in turned'[u]
         /\ \A v \in Users : turned[v] \subseteq turned'[v]
BY DEF QuotaInv, QuotaTypeOK, Refuse

LEMMA StartXferInv ==
  ASSUME QuotaInv, NEW s \in Sessions, NEW d \in Directions, StartXfer(s, d)
  PROVE  QuotaInv'
<1>1. /\ login[s] # None /\ login[s] \in Users
      /\ UNCHANGED <<fresh, login, account, booked, moved, tainted>>
  BY DEF StartXfer, QuotaInv, QuotaTypeOK
<1>2. CASE Refuse(login[s], d) /\ UNCHANGED xfer
  BY <1>1, <1>2, RefuseGrows, NoPiece DEF QuotaInv, QuotaTypeOK, Booking
<1>3. CASE /\ xfer' = [xfer EXCEPT ![s] =
                [user |-> login[s], dir |-> d, books |-> d \in account[s]]]
           /\ UNCHANGED turned
  <2>1. PICK x \in Xfers :
          /\ x = [user |-> login[s], dir |-> d, books |-> d \in account[s]]
          /\ x.user = login[s] /\ x.dir = d /\ x.books = (d \in account[s])
    <3>1. (d \in account[s]) \in BOOLEAN
      OBVIOUS
    <3>2. [user |-> login[s], dir |-> d, books |-> d \in account[s]] \in Xfers
      BY <1>1, <3>1, Zenon DEF Xfers
    <3> QED
      BY <3>2, Zenon
  <2>2. xfer' = [xfer EXCEPT ![s] = x]
    BY <1>3, <2>1
  <2>3. Booking'
    BY <1>1, <2>1, <2>2, XferInv
  <2>4. QuotaTypeOK'
    BY <1>1, <1>3, <2>2 DEF QuotaInv, QuotaTypeOK
  <2> QED
    BY <1>1, <1>3, <2>3, <2>4, NoPiece DEF QuotaInv
<1> QED
  BY <1>2, <1>3 DEF StartXfer

LEMMA EndInv ==
  ASSUME QuotaInv, NEW s \in Sessions, End(s)
  PROVE  QuotaInv'
<1>1. /\ xfer' = [xfer EXCEPT ![s] = NoXfer]
      /\ UNCHANGED <<fresh, login, account, booked, moved, turned, tainted>>
      /\ NoXfer \in Xfers
  BY DEF End, NoXfer, Xfers, Directions
<1>2. Booking'
  BY <1>1, XferInv
<1>3. QuotaTypeOK'
  BY <1>1 DEF QuotaInv, QuotaTypeOK
<1> QED
  BY <1>1, <1>2, <1>3, NoPiece DEF QuotaInv

\* A piece that is booked stays within its own limit, and leaves the other
\* one where it was or raises it.
LEMMA BookedPiece ==
  ASSUME QuotaInv, NEW u \in Users, NEW d \in Directions, NEW total \in Nat,
         booked[u][d] <= total, ~ Exceeds(u, d, total),
         booked' = [booked EXCEPT ![u][d] = total]
  PROVE  BookedWithinLimit'
<1> USE DEF QuotaInv
<1>0. booked \in Counts
  BY DEF QuotaTypeOK
<1>1. /\ booked' \in Counts /\ booked'[u][d] = total
      /\ \A v \in Users, e \in Directions :
           v # u \/ e # d => booked'[v][e] = booked[v][e]
  BY <1>0 DEF Counts
<1>2. ASSUME NEW v \in Users
      PROVE  /\ booked[v]["upload"] \in Nat /\ booked'[v]["upload"] \in Nat
             /\ booked[v]["upload"] <= booked'[v]["upload"]
  BY <1>0, <1>1 DEF Counts, Directions
<1>3. SUFFICES ASSUME MaxDownload > 0 \/ Ratio = 0,
                      NEW v \in Users, NEW e \in Directions,
                      Limit(v, e)' # 0
               PROVE  booked'[v][e] <= Limit(v, e)'
  BY DEF BookedWithinLimit
<1>4. CASE e = "upload"
  <2>1. Limit(v, e) = MaxUpload /\ Limit(v, e)' = MaxUpload
    BY <1>4 DEF Limit
  <2>2. CASE v = u /\ e = d
    <3>1. Limit(u, d) = MaxUpload /\ MaxUpload # 0
      BY <1>3, <2>1, <2>2
    <3> QED
      BY <1>1, <2>1, <2>2, <3>1, QuotasConstants, NoneIsNoUser DEF Exceeds
  <2>3. CASE v # u \/ e # d
    BY <1>1, <1>3, <2>1, <2>3 DEF BookedWithinLimit
  <2> QED
    BY <2>2, <2>3
<1>5. CASE e = "download"
  <2>1. PICK m \in Nat, n \in Nat :
          m = booked[v]["upload"] /\ n = booked'[v]["upload"] /\ m <= n
    BY <1>2
  <2>2. Ratio * m \in Nat /\ Ratio * n \in Nat /\ Ratio * m <= Ratio * n
    BY <2>1, RatioGrows, QuotasConstants, NoneIsNoUser
  <2>3. /\ Limit(v, e) = MaxDownload + Ratio * m
        /\ Limit(v, e)' = MaxDownload + Ratio * n
    BY <1>5, <2>1 DEF Limit
  <2>4. MaxDownload = 0 => Ratio * n = 0 /\ Ratio * m = 0
    BY <1>3, <2>1, QuotasConstants, NoneIsNoUser
  <2>5. Limit(v, e) # 0
    BY <1>3, <2>2, <2>3, <2>4, QuotasConstants, NoneIsNoUser
  <2>6. booked'[v][e] <= Limit(v, e)
    <3>1. CASE v = u /\ e = d
      BY <1>1, <2>5, <2>2, <2>3, <3>1, QuotasConstants, NoneIsNoUser DEF Exceeds
    <3>2. CASE v # u \/ e # d
      BY <1>1, <1>3, <2>5, <3>2 DEF BookedWithinLimit
    <3> QED
      BY <3>1, <3>2
  <2>7. booked'[v][e] \in Nat
    BY <1>1 DEF Counts
  <2> QED
    BY <2>2, <2>3, <2>6, <2>7, QuotasConstants, NoneIsNoUser
<1> QED
  BY <1>4, <1>5 DEF Directions

LEMMA MoveInv ==
  ASSUME QuotaInv, NEW s \in Sessions, NEW n \in Pieces, Move(s, n)
  PROVE  QuotaInv'
<1> USE DEF QuotaInv
<1>1. PICK u \in Users, d \in Directions :
        /\ u = xfer[s].user /\ d = xfer[s].dir
        /\ moved' = [moved EXCEPT ![u][d] = @ + n]
        /\ \/ /\ xfer[s].books /\ Refuse(u, d)
              /\ xfer' = [xfer EXCEPT ![s] = NoXfer]
              /\ UNCHANGED booked
           \/ /\ xfer[s].books /\ ~ Exceeds(u, d, booked[u][d] + n)
              /\ booked' = [booked EXCEPT ![u][d] = booked[u][d] + n]
              /\ UNCHANGED <<xfer, turned>>
           \/ /\ ~ xfer[s].books
              /\ UNCHANGED <<booked, xfer, turned>>
        /\ UNCHANGED <<fresh, login, account, tainted>>
  <2>1. xfer[s].user \in Users /\ xfer[s].dir \in Directions
    BY DEF Move, QuotaTypeOK, Xfers
  <2> QED
    BY <2>1 DEF Move
<1>2. n \in Nat /\ n > 0
  BY QuotasConstants, NoneIsNoUser
<1>3. PICK b \in Nat, m \in Nat : b = booked[u][d] /\ m = moved[u][d]
  BY DEF QuotaTypeOK, Counts
<1>4. /\ moved' = [moved EXCEPT ![u][d] = m + n] /\ m + n \in Nat
      /\ moved \in Counts /\ booked \in Counts
  BY <1>1, <1>2, <1>3 DEF QuotaTypeOK
<1>5. /\ moved' \in Counts /\ moved'[u][d] = m + n
      /\ \A v \in Users, e \in Directions :
           v # u \/ e # d => moved'[v][e] = moved[v][e]
  BY <1>4 DEF Counts
<1>6. CASE /\ xfer[s].books /\ Refuse(u, d)
           /\ xfer' = [xfer EXCEPT ![s] = NoXfer]
           /\ UNCHANGED booked
  <2>1. NoXfer \in Xfers
    BY DEF NoXfer, Xfers, Directions
  <2>2. QuotaTypeOK'
    BY <1>1, <1>5, <1>6, <2>1, RefuseGrows DEF QuotaTypeOK
  <2>3. Booking'
    BY <1>1, <1>6, <2>1, XferInv
  <2>4. BookedWithinLimit'
    BY <1>6 DEF BookedWithinLimit, Limit
  <2>5. CountsMoved'
    <3> SUFFICES ASSUME NEW v \in Users, NEW e \in Directions
                 PROVE  /\ booked[v][e] <= (IF v \in Accounted THEN moved'[v][e] ELSE 0)
                        /\ v \in Accounted \ tainted /\ e \notin turned'[v] =>
                             booked[v][e] = moved'[v][e]
      BY <1>1, <1>6 DEF CountsMoved
    <3>1. CASE v = u /\ e = d
      BY <1>2, <1>3, <1>5, <1>6, <3>1, RefuseGrows DEF CountsMoved
    <3>2. CASE v # u \/ e # d
      BY <1>5, <1>6, <3>2, RefuseGrows DEF CountsMoved
    <3> QED
      BY <3>1, <3>2
  <2> QED
    BY <2>2, <2>3, <2>4, <2>5
<1>7. CASE /\ xfer[s].books /\ ~ Exceeds(u, d, b + n)
           /\ booked' = [booked EXCEPT ![u][d] = b + n]
           /\ UNCHANGED <<xfer, turned>>
  <2>1. b + n \in Nat /\ b <= b + n
    BY <1>2
  <2>2. /\ booked' \in Counts /\ booked'[u][d] = b + n
        /\ \A v \in Users, e \in Directions :
             v # u \/ e # d => booked'[v][e] = booked[v][e]
    BY <1>4, <1>7, <2>1 DEF Counts
  <2>3. QuotaTypeOK'
    BY <1>1, <1>5, <1>7, <2>2 DEF QuotaTypeOK
  <2>4. Booking'
    BY <1>1, <1>7 DEF Booking
  <2>5. BookedWithinLimit'
    BY <1>3, <1>7, <2>1, BookedPiece
  <2>6. u \in Accounted
    BY <1>1, <1>7, QuotasConstants, NoneIsNoUser DEF Booking
  <2>7. CountsMoved'
    <3> SUFFICES ASSUME NEW v \in Users, NEW e \in Directions
                 PROVE  /\ booked'[v][e] <= (IF v \in Accounted THEN moved'[v][e] ELSE 0)
                        /\ v \in Accounted \ tainted /\ e \notin turned[v] =>
                             booked'[v][e] = moved'[v][e]
      BY <1>1, <1>7 DEF CountsMoved
    <3>1. CASE v = u /\ e = d
      BY <1>2, <1>3, <1>5, <2>2, <2>6, <3>1 DEF CountsMoved
    <3>2. CASE v # u \/ e # d
      BY <1>5, <2>2, <3>2 DEF CountsMoved
    <3> QED
      BY <3>1, <3>2
  <2> QED
    BY <2>3, <2>4, <2>5, <2>7
<1>8. CASE ~ xfer[s].books /\ UNCHANGED <<booked, xfer, turned>>
  <2>1. QuotaTypeOK'
    BY <1>1, <1>5, <1>8 DEF QuotaTypeOK
  <2>2. Booking' /\ BookedWithinLimit'
    BY <1>1, <1>8 DEF Booking, BookedWithinLimit, Limit
  <2>3. u \notin Accounted \ tainted
    BY <1>1, <1>8 DEF Booking
  <2>4. CountsMoved'
    <3> SUFFICES ASSUME NEW v \in Users, NEW e \in Directions
                 PROVE  /\ booked[v][e] <= (IF v \in Accounted THEN moved'[v][e] ELSE 0)
                        /\ v \in Accounted \ tainted /\ e \notin turned[v] =>
                             booked[v][e] = moved'[v][e]
      BY <1>1, <1>8 DEF CountsMoved
    <3>1. CASE v = u /\ e = d
      BY <1>2, <1>3, <1>5, <2>3, <3>1 DEF CountsMoved
    <3>2. CASE v # u \/ e # d
      BY <1>5, <3>2 DEF CountsMoved
    <3> QED
      BY <3>1, <3>2
  <2> QED
    BY <2>1, <2>2, <2>4
<1> QED
  BY <1>1, <1>3, <1>6, <1>7, <1>8

LEMMA QuotaStepInv == QuotaInv /\ [QuotaNext]_quotas => QuotaInv'
<1> SUFFICES ASSUME QuotaInv, [QuotaNext]_quotas PROVE QuotaInv'
  OBVIOUS
<1>1. ASSUME NEW s \in Sessions, NEW u \in Users, Authenticate(s, u) PROVE QuotaInv'
  BY <1>1, AuthenticateInv
<1>2. ASSUME NEW s \in Sessions, NEW d \in Directions, StartXfer(s, d) PROVE QuotaInv'
  BY <1>2, StartXferInv
<1>3. ASSUME NEW s \in Sessions, NEW n \in Pieces, Move(s, n) PROVE QuotaInv'
  BY <1>3, MoveInv
<1>4. ASSUME NEW s \in Sessions, End(s) PROVE QuotaInv'
  BY <1>4, EndInv
<1>5. CASE UNCHANGED quotas
  BY <1>5 DEF quotas, QuotaInv, QuotaTypeOK, Booking, BookedWithinLimit, CountsMoved, Limit
<1> QED
  BY <1>1, <1>2, <1>3, <1>4, <1>5 DEF QuotaNext

LEMMA QuotaAlways == QuotaSpec => []QuotaInv
BY QuotaInitInv, QuotaStepInv, PTL DEF QuotaSpec

\* User::book_xfer (src/user.hh): what is booked for a user stays within the
\* limit of the moment, however many sessions book and whatever moves it.
THEOREM WithinLimit == QuotaSpec => []BookedWithinLimit
<1>1. QuotaInv => BookedWithinLimit
  BY DEF QuotaInv
<1> QED
  BY <1>1, QuotaAlways, PTL

\* Sendfile::io and User::book_xfer: what is booked has moved, and what has
\* moved is booked but for refused pieces and for logins whose User an
\* earlier login had turned away from accounting.
THEOREM MovedIsCounted == QuotaSpec => []CountsMoved
<1>1. QuotaInv => CountsMoved
  BY DEF QuotaInv
<1> QED
  BY <1>1, QuotaAlways, PTL

\* The counters are numbers and the transfers those of known users.
THEOREM QuotaTypeCorrect == QuotaSpec => []QuotaTypeOK
<1>1. QuotaInv => QuotaTypeOK
  BY DEF QuotaInv
<1> QED
  BY <1>1, QuotaAlways, PTL
=============================================================================
