------------------------------- MODULE Logins -------------------------------
(***************************************************************************)
(* The connections of one server and the two counters the configuration    *)
(* database keeps of them: unauthenticated_connections, booked by Control, *)
(* and the logins of each user, booked by User.  The counters outlive the  *)
(* program: a stop and a crash leave them in their files.                  *)
(*                                                                         *)
(* The database is taken as CounterStore describes it, with syncs that do  *)
(* not fail: count is what the program reads and saved what the files hold.*)
(***************************************************************************)
EXTENDS Accounts, Naturals, FiniteSets

CONSTANTS
  Conns,       \* control connections
  MaxLogins,   \* logins_max of every user, 0 for no limit
  MaxUnauth,   \* unauthenticated_connections_max, 0 for no limit
  MaxCrashes   \* bound on the crashes of a behaviour

ASSUME LoginsConstants ==
  /\ IsFiniteSet(Conns)
  /\ MaxLogins \in Nat /\ MaxUnauth \in Nat /\ MaxCrashes \in Nat

VARIABLES
  http,       \* an HTTP server logs in for one request at a time
  running,    \* whether the program runs
  listening,  \* whether the server's listening stream is in the table
  open,       \* connections that have a Control object
  waiting,    \* those whose Control has not been decremented
  user,       \* the user each connection is logged in as
  unauth,     \* the counter unauthenticated_connections
  logins,     \* the counter logins of each user
  saved,      \* both counters as their files hold them
  stale,      \* both counters as the program found them when it started
  crashes

conns == <<open, waiting, user>>
vars == <<http, running, listening, conns, unauth, logins, saved, stale, crashes>>

Counters == [unauth : Nat, logins : [Users -> Nat]]
Zero == [unauth |-> 0, logins |-> [u \in Users |-> 0]]
Current == [unauth |-> unauth, logins |-> logins]

LoggedIn(u) == {c \in Conns : user[c] = u}

Init ==
  /\ http \in BOOLEAN
  /\ running = TRUE /\ listening = TRUE
  /\ open = {} /\ waiting = {} /\ user = [c \in Conns |-> None]
  /\ unauth = 0 /\ logins = Zero.logins
  /\ saved = Zero /\ stale = Zero /\ crashes = 0

\* Mutant of Fits: the limit can be passed by one.
FitsLoosely(n, max) == max = 0 \/ n <= max

\* ConfDB::increment and decrement; a decrement below zero only warns.
Fits(n, max) == max = 0 \/ n + 1 <= max
Less(n, m) == IF m > n THEN n ELSE n - m

---------------------------------------------------------------------------
\* The listener accepts a connection and makes its Control.
Connect(c) ==
  /\ running /\ listening /\ c \notin open
  /\ Fits(unauth, MaxUnauth)
  /\ open' = open \cup {c} /\ waiting' = waiting \cup {c}
  /\ unauth' = unauth + 1
  /\ UNCHANGED <<http, running, listening, user, logins, saved, stale, crashes>>

\* The constructor of Control throws LimitException through the listener's
\* read_in, and do_events removes the stream it served: the listening one.
Overrun ==
  /\ running /\ listening /\ open # Conns
  /\ ~Fits(unauth, MaxUnauth)
  /\ listening' = FALSE
  /\ UNCHANGED <<http, running, conns, unauth, logins, saved, stale, crashes>>

\* The counter after User::deauthenticate of connection c.
Left(c) == [u \in Users |-> IF u = user[c] THEN Less(logins[u], 1)
                            ELSE logins[u]]

\* Control::decrement.
Decrement(c) ==
  /\ unauth' = IF c \in waiting THEN Less(unauth, 1) ELSE unauth
  /\ waiting' = waiting \ {c}

\* Mutant of PassAccepted: the old login is not given back.
PassOnTop(c, u) ==
  /\ running /\ ~http /\ c \in open
  /\ Fits(logins[u], MaxLogins)
  /\ logins' = [logins EXCEPT ![u] = @ + 1]
  /\ user' = [user EXCEPT ![c] = u]
  /\ Decrement(c)
  /\ UNCHANGED <<http, running, listening, open, saved, stale, crashes>>

\* FTPControl::cmd_pass: the old login is lost whatever comes of the new.
PassAccepted(c, u) ==
  /\ running /\ ~http /\ c \in open
  /\ Fits(Left(c)[u], MaxLogins)
  /\ logins' = [Left(c) EXCEPT ![u] = @ + 1]
  /\ user' = [user EXCEPT ![c] = u]
  /\ Decrement(c)
  /\ UNCHANGED <<http, running, listening, open, saved, stale, crashes>>

\* A wrong password, or logins_max is reached; REIN and QUIT do as much.
LoseAuth(c) ==
  /\ running /\ ~http /\ c \in open
  /\ logins' = Left(c)
  /\ user' = [user EXCEPT ![c] = None]
  /\ UNCHANGED <<http, running, listening, open, waiting, unauth, saved,
                 stale, crashes>>

\* An HTTP request logs a User in and destroys it within one call.
Request(c, u) ==
  /\ running /\ http /\ c \in open
  /\ Fits(logins[u], MaxLogins)
  /\ Decrement(c)
  /\ logins' = [logins EXCEPT ![u] = Less(@ + 1, 1)]
  /\ UNCHANGED <<http, running, listening, open, user, saved, stale, crashes>>

\* Mutant of Close: ~Control does not decrement.
CloseCounted(c) ==
  /\ running /\ c \in open
  /\ logins' = Left(c)
  /\ user' = [user EXCEPT ![c] = None]
  /\ open' = open \ {c}
  /\ UNCHANGED <<http, running, listening, waiting, unauth, saved, stale,
                 crashes>>

\* The connection's objects are deleted: ~User, then ~Control.
Close(c) ==
  /\ running /\ c \in open
  /\ logins' = Left(c)
  /\ user' = [user EXCEPT ![c] = None]
  /\ Decrement(c)
  /\ open' = open \ {c}
  /\ UNCHANGED <<http, running, listening, saved, stale, crashes>>

---------------------------------------------------------------------------
\* SIGUSR1.
Sync ==
  /\ running
  /\ saved' = Current
  /\ UNCHANGED <<http, running, listening, conns, unauth, logins, stale, crashes>>

NoConns == open' = {} /\ waiting' = {} /\ user' = [c \in Conns |-> None]

\* Mutant of Stop: the database is synced before the table is destroyed.
StopSyncedFirst ==
  /\ running
  /\ running' = FALSE /\ listening' = FALSE
  /\ saved' = Current
  /\ unauth' = Less(unauth, Cardinality(waiting))
  /\ logins' = [u \in Users |-> Less(logins[u], Cardinality(LoggedIn(u)))]
  /\ NoConns
  /\ UNCHANGED <<http, stale, crashes>>

\* SIGTERM: the table and every connection in it are destroyed, and then the
\* database is synced.
Stop ==
  /\ running
  /\ running' = FALSE /\ listening' = FALSE
  /\ unauth' = Less(unauth, Cardinality(waiting))
  /\ logins' = [u \in Users |-> Less(logins[u], Cardinality(LoggedIn(u)))]
  /\ saved' = [unauth |-> unauth', logins |-> logins']
  /\ NoConns
  /\ UNCHANGED <<http, stale, crashes>>

Start ==
  /\ running' = TRUE /\ listening' = TRUE
  /\ unauth' = saved.unauth /\ logins' = saved.logins
  /\ stale' = saved
  /\ NoConns
  /\ UNCHANGED <<http, saved>>

Restart == ~running /\ Start /\ UNCHANGED crashes

\* The program dies where it stands and is started again.
Crash ==
  /\ running /\ crashes < MaxCrashes
  /\ Start
  /\ crashes' = crashes + 1

---------------------------------------------------------------------------
ConnStep(c) == \/ Connect(c) \/ LoseAuth(c) \/ Close(c)
               \/ \E u \in Users : PassAccepted(c, u) \/ Request(c, u)

Next == \/ \E c \in Conns : ConnStep(c)
        \/ Overrun \/ Sync \/ Stop \/ Restart \/ Crash

Spec == Init /\ [][Next]_vars

---------------------------------------------------------------------------
(* Properties *)

TypeOK ==
  /\ http \in BOOLEAN /\ running \in BOOLEAN /\ listening \in BOOLEAN
  /\ open \subseteq Conns /\ waiting \subseteq open
  /\ user \in [Conns -> Users \cup {None}]
  /\ unauth \in Nat /\ logins \in [Users -> Nat]
  /\ saved \in Counters /\ stale \in Counters
  /\ crashes \in 0..MaxCrashes

\* The counters are exact, over failed logins, logins in place of another,
\* REIN, crashes and every order of closing: what the program has counted on
\* top of what it found at its start is what there is.
CountersExact ==
  /\ unauth = stale.unauth + Cardinality(waiting)
  /\ \A u \in Users : logins[u] = stale.logins[u] + Cardinality(LoggedIn(u))

\* The limits hold for connections and logins, not only for the counters, and
\* only a connection that has left the pre-authentication state is logged in.
LimitsHold ==
  /\ MaxLogins # 0 =>
       \A u \in Users : Cardinality(LoggedIn(u)) <= MaxLogins
  /\ MaxUnauth # 0 => Cardinality(waiting) <= MaxUnauth
  /\ \A u \in Users : LoggedIn(u) \subseteq open \ waiting

\* README, logins: "contains the number of times the user is currently logged
\* in": a server that was only ever stopped in order leaves zeros.  (After a
\* crash the counters stay too high: nothing resets them.)
CleanStop == ~running /\ crashes = 0 => saved = Zero
=============================================================================
