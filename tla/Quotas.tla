------------------------------- MODULE Quotas -------------------------------
(***************************************************************************)
(* The bytes users transfer and what is booked of them: sessions log in as *)
(* users, start transfers, and every transfer books each piece of data     *)
(* after it has moved it, on counters all sessions of the user share.      *)
(* A piece has moved when it has left its source: the socket or file it    *)
(* goes to has it, or the buffer, where the end of the transfer may still  *)
(* lose it though it is booked.                                            *)
(*                                                                         *)
(* Bytes are counted in units.  The ratio is a whole number of units: its  *)
(* float arithmetic and the truncation to off_t are left out.              *)
(***************************************************************************)
EXTENDS Accounts, Naturals

CONSTANTS
  Sessions,     \* control connections
  Accounted,    \* the users whose directory has download_bytes, upload_bytes
  MaxDownload,  \* download_bytes_max of every user, 0 for none
  MaxUpload,    \* upload_bytes_max, 0 for none
  Ratio,        \* upload_ratio, 0 for none
  Pieces,       \* sizes one call of Sendfile::io can move
  MaxMoved      \* bound on the units a user moves each way

ASSUME QuotasConstants ==
  /\ Accounted \subseteq Users
  /\ MaxDownload \in Nat /\ MaxUpload \in Nat /\ Ratio \in Nat
  /\ Pieces \subseteq Nat \ {0}
  /\ MaxMoved \in Nat

VARIABLES
  fresh,    \* HTTP makes a User per request, FTP one per connection
  login,    \* who each session is logged in as: User::_name
  account,  \* the directions its User books: _accounting_upload, _download
  xfer,     \* the transfer of each session
  booked,   \* the counters upload_bytes and download_bytes of each user
  moved,    \* the units that left their source
  turned,   \* directions in which a user has been refused
  tainted   \* users logged in by a User that an earlier login had
            \* stopped from booking

quotas == <<fresh, login, account, xfer, booked, moved, turned, tainted>>

Directions == {"upload", "download"}

\* XferLimitUser keeps a copy of the User that started the transfer.
NoXfer == [user |-> None, dir |-> "download", books |-> FALSE]
Xfers == [user : Users \cup {None}, dir : Directions, books : BOOLEAN]

QuotaInit ==
  /\ fresh \in BOOLEAN
  /\ login = [s \in Sessions |-> None]
  /\ account = [s \in Sessions |-> Directions]
  /\ xfer = [s \in Sessions |-> NoXfer]
  /\ booked = [u \in Users |-> [d \in Directions |-> 0]]
  /\ moved = booked
  /\ turned = [u \in Users |-> {}] /\ tainted = {}

\* User::xfer_limit; a limit of 0 is no limit.
Limit(u, dir) ==
  IF dir = "upload" THEN MaxUpload
  ELSE MaxDownload + Ratio * booked[u]["upload"]

\* Mutant of Exceeds: what is booked is compared, not what would be.
ExceedsAlready(u, dir, n) ==
  Limit(u, dir) # 0 /\ booked[u][dir] > Limit(u, dir)

Exceeds(u, dir, n) == Limit(u, dir) # 0 /\ n > Limit(u, dir)

\* What a session's User books before it looks at the user's counters.
Accounting(s) == IF fresh THEN Directions ELSE account[s]

\* Mutant of Authenticate: every User books.
AuthenticateBooking(s, u) ==
  /\ login' = [login EXCEPT ![s] = u]
  /\ account' = [account EXCEPT ![s] = Accounting(s)]
  /\ UNCHANGED <<fresh, xfer, booked, moved, turned, tainted>>

\* User::authenticate turns the accounting off for a user without counters;
\* nothing turns it on again.
Authenticate(s, u) ==
  /\ login' = [login EXCEPT ![s] = u]
  /\ account' = [account EXCEPT ![s] =
                   IF u \in Accounted THEN Accounting(s) ELSE {}]
  /\ tainted' = IF Accounting(s) = {} THEN tainted \cup {u} ELSE tainted
  /\ UNCHANGED <<fresh, xfer, booked, moved, turned>>

Refuse(u, dir) == turned' = [turned EXCEPT ![u] = @ \cup {dir}]

\* User::open_fd looks at the total before an upload only.
StartXfer(s, dir) ==
  /\ login[s] # None /\ xfer[s].user = None
  /\ LET u == login[s] IN
     IF dir = "upload" /\ Exceeds(u, dir, booked[u][dir] + 1)
     THEN Refuse(u, dir) /\ UNCHANGED xfer
     ELSE /\ xfer' = [xfer EXCEPT ![s] =
               [user |-> u, dir |-> dir, books |-> dir \in account[s]]]
          /\ UNCHANGED turned
  /\ UNCHANGED <<fresh, login, account, booked, moved, tainted>>

\* sendfile(2) has sent a piece when it is booked; a piece that was read into
\* the buffer is booked before it is written out. A refusal ends the transfer
\* and books nothing.
Move(s, n) ==
  /\ xfer[s].user # None
  /\ LET u == xfer[s].user
         dir == xfer[s].dir
         total == booked[u][dir] + n
     IN  /\ moved[u][dir] + n <= MaxMoved
         /\ moved' = [moved EXCEPT ![u][dir] = @ + n]
         /\ IF xfer[s].books /\ Exceeds(u, dir, total)
            THEN /\ Refuse(u, dir)
                 /\ xfer' = [xfer EXCEPT ![s] = NoXfer]
                 /\ UNCHANGED booked
            ELSE /\ booked' = IF xfer[s].books
                              THEN [booked EXCEPT ![u][dir] = total]
                              ELSE booked
                 /\ UNCHANGED <<xfer, turned>>
  /\ UNCHANGED <<fresh, login, account, tainted>>

End(s) ==
  /\ xfer[s].user # None
  /\ xfer' = [xfer EXCEPT ![s] = NoXfer]
  /\ UNCHANGED <<fresh, login, account, booked, moved, turned, tainted>>

QuotaNext == \E s \in Sessions :
               \/ \E u \in Users : Authenticate(s, u)
               \/ \E dir \in Directions : StartXfer(s, dir)
               \/ \E n \in Pieces : Move(s, n)
               \/ End(s)

QuotaSpec == QuotaInit /\ [][QuotaNext]_quotas

---------------------------------------------------------------------------
(* Properties *)

Counts == [Users -> [Directions -> Nat]]

QuotaTypeOK ==
  /\ fresh \in BOOLEAN /\ tainted \subseteq Users
  /\ login \in [Sessions -> Users \cup {None}]
  /\ account \in [Sessions -> SUBSET Directions]
  /\ xfer \in [Sessions -> Xfers]
  /\ booked \in Counts /\ moved \in Counts
  /\ turned \in [Users -> SUBSET Directions]

\* What is booked stays within the limit of the moment, though the limit on
\* downloads moves with the uploads and several sessions book at once.
BookedWithinLimit ==
  (MaxDownload > 0 \/ Ratio = 0) =>
    \A u \in Users, dir \in Directions :
      Limit(u, dir) # 0 => booked[u][dir] <= Limit(u, dir)

\* README, download_bytes: "number of bytes downloaded", and upload_bytes:
\* nothing is booked that has not moved, and nothing on an account that does
\* not keep count; and up to the pieces refused, the account of a user whose
\* logins were not tainted counts everything that moved.
CountsMoved ==
  \A u \in Users, dir \in Directions :
    /\ booked[u][dir] <= (IF u \in Accounted THEN moved[u][dir] ELSE 0)
    /\ u \in Accounted \ tainted /\ dir \notin turned[u] =>
         booked[u][dir] = moved[u][dir]
=============================================================================
