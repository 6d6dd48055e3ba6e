------------------------------ MODULE Accounts ------------------------------
(***************************************************************************)
(* The users of a server.  Logins counts who is logged in as one of them,  *)
(* Quotas the bytes that are moved for them; class User does both.         *)
(***************************************************************************)
CONSTANTS
  Users,  \* users of the server
  None    \* no user: User::_name of a User that has not logged in

ASSUME NoneIsNoUser == None \notin Users
=============================================================================
