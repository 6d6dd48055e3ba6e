----------------------------- MODULE FtpSession ------------------------------
(***************************************************************************)
(* What an FTP control connection remembers from one command to the next   *)
(* (src/ftpcontrol.hh, src/ftpcontrol.cc): who is logged in, the working   *)
(* directory, the restart position, the source of a rename, and where the  *)
(* next data connection goes. Each item is kept with the serial number of  *)
(* the login under which it was given ("of"), so that the properties can   *)
(* tell whose it is. The transfers themselves are those of FtpDataConn,    *)
(* reduced here to what the session sees of them.                          *)
(*                                                                         *)
(* A command that is refused before it changes anything (530, 501, 451) is *)
(* no step, nor is one that only replies.                                  *)
(***************************************************************************)
EXTENDS Paths

CONSTANTS
  Addrs,      \* addresses a client may name in PORT and EPRT
  Args,       \* arguments of commands that take a path
  Tree,       \* the files before the session
  MaxLogins,  \* bound: logins of the session
  MaxChanges  \* bound: commands that change the files

ASSUME SessionConstants ==
  /\ Addrs \cap {"own", "wiped"} = {}
  /\ Args \subseteq [absolute : BOOLEAN, parts : Seq(STRING)]
  /\ DOMAIN Tree \subseteq Seq(STRING) /\ Rooted(Tree)
  /\ \A path \in DOMAIN Tree : Tree[path] \in Nodes
  /\ MaxLogins \in Nat
  /\ MaxChanges \in Nat

VARIABLES
  named,      \* is _username not empty?
  login,      \* serial number of the login, 0 when _user has none
  logins,     \* how many there have been
  cwd,        \* _path
  rest,       \* _restart_pos
  fresh,      \* history: a position was given that no transfer has taken
  from,       \* _rename_from
  passive,    \* _data_listener is not null
  addr,       \* _port_addr
  told,       \* history: where the replies said the data goes
  xfer,       \* _data_xfer: none, parked in the listener, or on its way
  quitting,   \* _quitting
  life,       \* the connection is open, closing, or the program crashed
  tree,       \* the files
  changes,    \* how many times they were changed
  did         \* the last effect: what it was and what it relied on

auth     == <<named, login, logins>>
places   == <<cwd, rest, fresh, from>>
channel  == <<passive, addr, told, xfer>>
ending   == <<quitting, life>>
files    == <<tree, changes>>
vars     == <<auth, places, channel, ending, files, did>>

Serials == 0 .. MaxLogins
Positions == 0 .. 1

\* A step that neither renames ("on" and "to") nor relies on what was given
\* earlier ("owners", "pos", "once") nor opens a data connection ("via").
Nothing == [on |-> <<>>, to |-> <<>>, owners |-> {}, pos |-> 0, once |-> TRUE,
            via |-> "none"]

Home == [at |-> <<>>, of |-> 0]
Start == [pos |-> 0, of |-> 0]

Init ==
  /\ named = FALSE /\ login = 0 /\ logins = 0
  /\ cwd = Home /\ rest = Start /\ fresh = FALSE /\ from = Home
  /\ passive = FALSE /\ addr = "own" /\ xfer = "none"
  /\ told = [mode |-> "active", addr |-> "own"]
  /\ quitting = FALSE /\ life = "open"
  /\ tree = Tree /\ changes = 0
  /\ did = Nothing

-----------------------------------------------------------------------------
(* Who is logged in.                                                       *)

\* Mutant of LoseAuth: the source of a rename outlives the login.
LoseAuthButRename ==
  /\ named' = FALSE
  /\ cwd' = Home
  /\ rest' = Start
  /\ UNCHANGED <<from, fresh>>

\* FTPControl::lose_auth. _port_addr and _data_listener stay.
LoseAuth ==
  /\ named' = FALSE
  /\ cwd' = Home
  /\ rest' = Start
  /\ fresh' = FALSE
  /\ from' = Home

\* cmd_user: only the name; whoever is logged in stays so.
User ==
  /\ life = "open"
  /\ named' = TRUE
  /\ did' = Nothing
  /\ UNCHANGED <<login, logins, places, channel, ending, files>>

\* cmd_pass and login: the old login is lost before the new one is tried, and
\* the name with it, whether the password is wrong or the limit is reached.
Pass ==
  /\ life = "open" /\ named
  /\ LoseAuth
  /\ \/ login' = 0 /\ UNCHANGED logins
     \/ logins < MaxLogins /\ login' = logins + 1 /\ logins' = logins + 1
  /\ did' = Nothing
  /\ UNCHANGED <<channel, ending, files>>

\* cmd_rein.
Rein ==
  /\ life = "open"
  /\ LoseAuth /\ login' = 0
  /\ did' = Nothing
  /\ UNCHANGED <<logins, channel, ending, files>>

\* cmd_quit: with a transfer on its way the session goes on until it ends.
Quit ==
  /\ life = "open"
  /\ LoseAuth /\ login' = 0
  /\ quitting' = TRUE
  /\ life' = IF xfer = "none" THEN "closing" ELSE life
  /\ did' = Nothing
  /\ UNCHANGED <<logins, channel, files>>

\* Commands that begin with assert_auth.
LoggedIn == life = "open" /\ login # 0

-----------------------------------------------------------------------------
(* What a command leaves for a later one.                                  *)

Resolve(arg) == Chdir(cwd.at, arg)

\* Whose working directory a resolved argument was relative to.
OwnersOf(arg) ==
  IF cwd.at = <<>> \/ arg.absolute THEN {} ELSE {cwd.of}

\* cmd_cwd and cmd_cdup, which is cmd_cwd("..").
Cwd(arg) ==
  /\ LoggedIn
  /\ MayReadDir(tree, Resolve(arg))
  /\ cwd' = [at |-> Resolve(arg), of |-> login]
  /\ did' = [Nothing EXCEPT !.owners = OwnersOf(arg)]
  /\ UNCHANGED <<rest, fresh, from, auth, channel, ending, files>>

\* cmd_rest: what is not a number is refused, but has set the position to 0.
Rest(pos) ==
  /\ LoggedIn
  /\ rest' = [pos |-> pos, of |-> login]
  /\ fresh' = (pos # 0)
  /\ did' = Nothing
  /\ UNCHANGED <<cwd, from, auth, channel, ending, files>>

\* cmd_rnfr: whether there is such a file is not looked at yet.
Rnfr(arg) ==
  /\ LoggedIn
  /\ from' = [at |-> Resolve(arg), of |-> login]
  /\ did' = [Nothing EXCEPT !.owners = OwnersOf(arg)]
  /\ UNCHANGED <<cwd, rest, fresh, auth, channel, ending, files>>

-----------------------------------------------------------------------------
(* Commands that change files.                                             *)

\* An empty path makes may_delete call pop_back of an empty list.
Crash ==
  /\ life' = "crashed"
  /\ did' = Nothing
  /\ UNCHANGED <<auth, places, channel, quitting, files>>

Changing ==
  /\ changes < MaxChanges
  /\ changes' = changes + 1

\* cmd_rnto: without permission (AccessException) the source is kept; when
\* rename(2) fails it is forgotten as when it succeeds.
Rnto(arg) ==
  LET to == Resolve(arg)
      permitted == MayDelete(tree, from.at) /\ MayCreate(tree, to)
  IN
  /\ LoggedIn
  /\ to # <<>> /\ from.at # <<>>
  /\ permitted
  /\ from' = Home
  /\ did' = [Nothing EXCEPT !.on = from.at, !.to = to,
                            !.owners = OwnersOf(arg) \cup {from.of}]
  /\ IF CanRename(tree, from.at, to)
     THEN Changing /\ tree' = Rename(tree, from.at, to)
     ELSE UNCHANGED files
  /\ UNCHANGED <<cwd, rest, fresh, auth, channel, ending>>

\* cmd_dele and cmd_rmd.
DeleteOne(op, arg) ==
  LET path == Resolve(arg)
  IN
  /\ LoggedIn
  /\ IF DeleteUndefined(tree, path) THEN Crash
     ELSE /\ MayDelete(tree, path)
          /\ IF op = "unlink" THEN CanUnlink(tree, path)
                              ELSE CanRmdir(tree, path)
          /\ Changing
          /\ tree' = Without(tree, path)
          /\ did' = [Nothing EXCEPT !.owners = OwnersOf(arg)]
          /\ UNCHANGED <<auth, places, channel, ending>>

\* cmd_mkd.
Mkd(arg) ==
  LET path == Resolve(arg)
  IN
  /\ LoggedIn
  /\ MayCreate(tree, path) /\ CanMkdir(tree, path)
  /\ Changing
  /\ tree' = With(tree, path, NewNode("dir"))
  /\ did' = [Nothing EXCEPT !.owners = OwnersOf(arg)]
  /\ UNCHANGED <<auth, places, channel, ending>>

-----------------------------------------------------------------------------
(* Where the data goes.                                                    *)

Active(a) == [mode |-> "active", addr |-> a]
Unsure == [mode |-> "unsure", addr |-> "unsure"]

\* passive_off when a transfer is parked: a null pointer (FtpDataConn).
OffCrashes == passive /\ xfer = "parked"

\* cmd_pasv and cmd_epsv. When no listener can be made PASV answers 502 and
\* EPSV nothing at all; either way the old listener is gone.
PassiveOn(cmd) ==
  /\ LoggedIn
  /\ IF OffCrashes THEN Crash
     ELSE /\ \/ passive' = TRUE /\ told' = [told EXCEPT !.mode = "passive"]
             \/ /\ passive' = FALSE
                /\ told' = [told EXCEPT !.mode = IF cmd = "PASV" THEN "active"
                                                ELSE "unsure"]
          /\ did' = Nothing
          /\ UNCHANGED <<addr, xfer, auth, places, ending, files>>

\* Mutant of Port: the address is filled in while the argument is parsed.
PortParsingInPlace(a, good) ==
  /\ LoggedIn
  /\ addr' = a
  /\ passive' = IF good THEN FALSE ELSE passive
  /\ told' = IF good THEN Active(a) ELSE told
  /\ did' = Nothing
  /\ UNCHANGED <<xfer, auth, places, ending, files>>

\* cmd_port: the argument is parsed before active_on; a bad one (501), or port
\* mode not being allowed (502), changes nothing.
Port(a, good) ==
  /\ LoggedIn
  /\ good
  /\ IF OffCrashes THEN Crash
     ELSE /\ passive' = FALSE /\ addr' = a /\ told' = Active(a)
          /\ did' = Nothing
          /\ UNCHANGED <<xfer, auth, places, ending, files>>

\* cmd_eprt: the listener goes and the address is wiped before the argument
\* is looked at, so that a refused one (501, 522) has changed both.
Eprt(a, good) ==
  /\ LoggedIn
  /\ IF OffCrashes THEN Crash
     ELSE /\ passive' = FALSE
          /\ addr' = IF good THEN a ELSE "wiped"
          /\ told' = IF good THEN Active(a) ELSE Unsure
          /\ did' = Nothing
          /\ UNCHANGED <<xfer, auth, places, ending, files>>

\* xfer_done called by the listener: it timed out, or could not accept.
ListenerGone ==
  /\ passive /\ xfer # "parked" /\ life # "crashed"
  /\ passive' = FALSE
  /\ told' = [told EXCEPT !.mode = "unsure"]
  /\ did' = Nothing
  /\ UNCHANGED <<addr, xfer, auth, places, ending, files>>

-----------------------------------------------------------------------------
(* Transfers.                                                              *)

\* start_xfer. A connection that cannot be made is a UnixException, which
\* ends the session (421).
StartXfer(effect) ==
  \/ /\ passive
     /\ xfer' = "parked"
     /\ did' = [effect EXCEPT !.via = "passive"]
     /\ UNCHANGED <<passive, addr, told, ending>>
  \/ /\ ~ passive
     /\ xfer' = "moving"
     /\ did' = [effect EXCEPT !.via = addr]
     /\ UNCHANGED <<passive, addr, told, ending>>
  \/ /\ ~ passive
     /\ life' = "closing"
     /\ did' = effect
     /\ UNCHANGED <<channel, quitting>>

\* Mutant of TakeRestart: the position is taken only by a seek that succeeds.
TakeRestartIfSought(sought) ==
  IF sought THEN rest' = Start ELSE UNCHANGED rest

\* take_restart_pos.
TakeRestart(sought) == rest' = Start

\* cmd_retr and cmd_stor: start_file_xfer. A file that cannot be opened (550)
\* leaves the position; one that cannot be sought in (553) has taken it, and
\* what STOR created stays.
FileXfer(dir, arg) ==
  LET path == Resolve(arg)
      effect == [Nothing EXCEPT
                   !.owners = OwnersOf(arg) \cup
                     (IF rest.pos = 0 THEN {} ELSE {rest.of}),
                   !.pos = rest.pos, !.once = fresh]
  IN
  /\ LoggedIn /\ xfer = "none"
  /\ IF dir = "retrieve" THEN MayRetrieve(tree, path)
                         ELSE MayStore(tree, path)
  /\ IF dir = "store" /\ ~ Exists(tree, path)
     THEN Changing /\ tree' = With(tree, path, NewNode("file"))
     ELSE UNCHANGED files
  /\ fresh' = FALSE
  /\ \/ TakeRestart(TRUE) /\ StartXfer(effect)
     \/ /\ rest.pos # 0
        /\ TakeRestart(FALSE)
        /\ did' = effect
        /\ UNCHANGED <<channel, ending>>
  /\ UNCHANGED <<cwd, from, auth>>

\* do_cmd_list and cmd_mlsd: the position is neither used nor reset.
ListXfer(arg) ==
  /\ LoggedIn /\ xfer = "none"
  /\ MayList(tree, Resolve(arg))
  /\ StartXfer([Nothing EXCEPT !.owners = OwnersOf(arg)])
  /\ UNCHANGED <<places, auth, files>>

\* The listener accepts for the parked transfer, and is done.
Accept ==
  /\ xfer = "parked"
  /\ life # "crashed"
  /\ xfer' = "moving" /\ passive' = FALSE
  /\ told' = [told EXCEPT !.mode = "unsure"]
  /\ did' = Nothing
  /\ UNCHANGED <<addr, auth, places, ending, files>>

\* xfer_done called by the transfer, of itself or by ABOR: one that was still
\* parked takes its listener along.
XferDone ==
  /\ xfer # "none"
  /\ life # "crashed"
  /\ xfer' = "none"
  /\ passive' = IF xfer = "parked" THEN FALSE ELSE passive
  /\ told' = [told EXCEPT !.mode = IF xfer = "parked" THEN "unsure" ELSE @]
  /\ life' = IF quitting THEN "closing" ELSE life
  /\ did' = Nothing
  /\ UNCHANGED <<addr, quitting, auth, places, files>>

Next ==
  \/ User \/ Pass \/ Rein \/ Quit
  \/ \E pos \in Positions : Rest(pos)
  \/ \E arg \in Args :
       \/ Cwd(arg) \/ Rnfr(arg) \/ Rnto(arg) \/ Mkd(arg)
       \/ \E op \in {"unlink", "rmdir"} : DeleteOne(op, arg)
       \/ \E dir \in {"retrieve", "store"} : FileXfer(dir, arg)
       \/ ListXfer(arg)
  \/ \E cmd \in {"PASV", "EPSV"} : PassiveOn(cmd)
  \/ \E a \in Addrs, good \in BOOLEAN : Port(a, good) \/ Eprt(a, good)
  \/ ListenerGone \/ Accept \/ XferDone

Spec == Init /\ [][Next]_vars

-----------------------------------------------------------------------------
(* Properties.                                                             *)

\* Every variable has its type; in particular no path names the directory it
\* is in or its parent, so that none leads out of the user's directory, and
\* the files stay a tree.
TypeOK ==
  /\ named \in BOOLEAN /\ quitting \in BOOLEAN /\ fresh \in BOOLEAN
  /\ login \in Serials /\ logins \in Serials /\ login \in {0, logins}
  /\ \A path \in {cwd.at, from.at, did.on, did.to} :
       ToSet(path) \cap {"", ".", ".."} = {}
  /\ cwd.of \in Serials /\ from.of \in Serials
  /\ rest \in [pos : Positions, of : Serials]
  /\ passive \in BOOLEAN
  /\ addr \in Addrs \cup {"own", "wiped"}
  /\ told \in [mode : {"active", "passive", "unsure"},
               addr : Addrs \cup {"own", "unsure"}]
  /\ xfer \in {"none", "parked", "moving"}
  /\ life \in {"open", "closing", "crashed"}
  /\ changes \in 0 .. MaxChanges
  /\ Rooted(tree) /\ \A path \in DOMAIN tree : tree[path] \in Nodes

\* What a command relies on (the working directory, the source of a rename,
\* the restart position) was given by the login that gives the command, and a
\* position moves one transfer at most: lose_auth and take_restart_pos forget
\* all there is to forget, whatever fails in between.
OwnState ==
  /\ did.owners \subseteq {login}
  /\ did.pos # 0 => did.once

\* A transfer goes where the replies to PASV, EPSV, PORT and EPRT told the
\* client it would, unless the client was left unsure: a refused EPRT, an EPSV
\* without an answer, a listener that was used up or gave up.
DataGoesWhereTold ==
  did.via # "none" =>
    /\ told.mode = "passive" => did.via = "passive"
    /\ told.mode = "active" /\ told.addr # "unsure" => did.via = told.addr

\* "will only allow files or directories to be modified if they are ... user
\* and group writable" (README:54): one that is not stays where it is, as it
\* is. The code makes two exceptions: a rename replaces its target without a
\* look at it, and takes along what is below its source.
FilesKept ==
  [][\A path \in DOMAIN tree :
       \/ tree[path].write
       \/ path \in DOMAIN tree' /\ tree'[path] = tree[path]
       \/ did'.on # <<>> /\ (path = did'.to \/ IsStrictPrefix(did'.on, path))]_vars
=============================================================================
