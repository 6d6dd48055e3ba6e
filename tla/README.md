# teepeedee in TLA+

A verification project for teepeedee, a small FTP, HTTP and HTTPS server: one
process, one thread, one `poll(2)` loop. Each module below is read from the C++
sources (`src/*.cc`, `src/*.hh`, `lib/*`), TLC checks it on small instances, and TLAPS
proves what matters most of eleven of them for every value of their constants.

Paths in this file are relative to the repository (`src/ftpcontrol.cc`); in
`PROJECT.json` they are relative to the directory above it (`src/src/ftpcontrol.cc`).

## 1. The system

One thread makes classical data races impossible. What makes this program hard is:

* **ownership by callback.** Objects are deleted only by `Stream::~Stream`, through
  the stream that names them. Destructors notify controllers, controllers change
  the pointers of the object whose method is still running.
* **order.** `poll` visits descriptors, and `sow_and_reap` doomed streams, in an order
  nobody chose (a `std::set` of pointers). A stream handled early in a pass can delete
  what an event later in the same pass refers to.
* **exceptions as control flow.** `Destroy`, `LimitException`, `UnixException` leave
  from the middle of a handler; what had been done before them stays done.
* **counters behind a cache** whose files outlive crashes of the program.

| component | state it keeps | operations | what makes it correct |
|---|---|---|---|
| FTP data connections (`ftpcontrol`, `ftpdatalistener`, `iocontextcontrolled`, `iocontextxfer`, `ftplist`) | `_data_listener`, `_data_xfer`, `_control`, `_data`, `_finished`, consumers of streams | PASV, PORT, RETR, STOR, LIST, ABOR, mode changes, accept, transfer events, timeouts, destructors | no use of what is freed; every 150 answered once; nothing leaks; finished objects go |
| FTP session state (`ftpcontrol`, `user`, `path`) | login, path, REST position, RNFR path, data address | commands | what a command leaves reaches only the login it is for; data goes where the replies said; unwritable files are kept |
| event loop (`streamtable`, `stream`, `iocontext`) | tables of streams, doomed streams, clocks, `_async_notify` | sow, reap, prepare, poll, serve, timeouts, signals | only idle streams expire; stops on SIGTERM |
| line protocol (`iocontextresponder`, `iocontextwriter`) | line buffer, response, write position | read a line, add to the reply, write some of it | replies whole, once, in order; lines whole |
| HTTP connection (`httpcontrol`) | request, headers, `_closing`, response, transfer | request line, header, execute, transfer done, timeout | one response per request in order; bodies whole; close announced |
| data pump (`sendfile`, `iocontextxfer`) | two ends, buffer, position | one `io` call | every byte moved once |
| configuration database (`confdb`) | cache, dirty marks, files | increment, decrement, sync, drop | the cache is invisible; a sync loses nothing |
| login accounting (`user`, `control`, `server`) | `unauthenticated_connections`, `logins` | connect, log in, log out, close, stop | counters exact; limits hold |
| transfer accounting (`user`, `xferlimituser`, `xferlimit`) | bytes up and down of each user | book a piece | booked within the limit, and booked bytes moved |
| start, stop (`main`) | order of destruction, signals | load, stop | counters are written last |
| servers (`server*`, `iocontextlistener`) | listening stream | accept | goes on listening |
| SSL filter (`iocontextopenssl`, `streamopenssl`, `sslstreamfactory`) | two BIOs, state, pending bytes, two streams | handshake, read, write, close | one filter for two streams that die in either order; output in order; no line forgotten |
| search for a port (`stream`) | tries left | bind, go on, give up | each port once, all before giving up |
| listers and listings (`filelister*`, `dircontainer`, `iocontextlist`, `ftplist*`, `ftpmlstprinter`, `httplist`, `uri`, `path`) | position in the directory, line being written | next entry, format | all entries once; links lead back to them |
| base64, configuration tree, exceptions, other sockets and files | little or none | pure functions and system calls | what they return is a choice of their callers' models |

How they interact: the loop calls `read_in`/`write_out`/`want_*` of the *consumer* of a
stream; a control connection makes transfers and listeners and hands them streams;
they call back with `xfer_done`; all of them call `User`, which books on `ConfDB`;
`ConfDB` is written out at regular intervals and after the table has been destroyed.

`PROJECT.json` has the complete list of components with what is modelled of each, and
the hazards: each thing a test would hardly reach, at its line, with the properties
that would catch it.

## 2. The modules

### FtpDataObjects, FtpDataConn: the data connections of an FTP session

`FtpDataObjects` holds the objects of a session as one record, the *heap*: which
objects are alive, which still have a controller (`attached`), the consumer and table
state of each stream, `_data_listener`, `_data_xfer`, the transfer parked in a
listener, the ends and buffer of each transfer. A C++ destructor runs a cascade inside
one call, so the cascade is a chain of operators from heap to heap (`Notify`,
`DeleteXfer`, `DeleteListener`, `DeleteControl`, ...), each the translation of one
destructor or callback. Undefined behaviour sets `fault` and ends what is claimed.

`FtpDataConn` has the variables `h` (the heap), `phase` and `todo`. `phase` is where
`StreamTable::poll` stands: `sow`, `reap` (one doomed stream at a time, in any order),
`prepare` (asking each stream if it wants to read or write; clocks), `poll`, `batch`
(serving events in any order, against a batch chosen when poll returned, so that stale
events occur), and `reply`/`hangup`, the second half of `do_events` on the
control stream. One action per command and per event: `Pass`, `Rein`, `Quit`, `Pasv`,
`Port`, `Transfer(kind)`, `Abor`, `Accept`, `XferIo`, `ListIo`, `Reply`, `HangUp`, and
the ones in which a method throws.

`MCFtpDataConn` adds the symmetry sets; `FtpDataConn_proofs` and `FtpDataPatient_proofs` have
the theorems.

### ConfDB, CounterStore: counters behind a cache

`ConfDB` has the cache `hash` (value and changed mark of each entry), the files `disk`, a
sync in progress (`writing`, `pending`, `bad`: file by file, each may fail, with a
crash possible between truncation and write) and `life`. `CounterStore` is what the
database promises: the value a reader sees and a durable value of each counter. A
write changes what is seen; the durable value of one key at a time becomes what is seen
or, when writing its file failed, torn; a crash leaves what is durable, with at most one
file caught half written. `ConfDB` implements it with `value <- Seen` and
`durable <- disk` (`Refines`), checked by TLC and proved.

### Accounts, Logins

`Accounts` declares the users, whom Logins and Quotas both speak of. Logins has the
connections of one FTP or HTTP server, their users and the two counters, from
`Control`'s constructor and destructor and `User::authenticate/deauthenticate`. The
database is taken as `CounterStore` describes it. `stale` remembers what a start
found in the files: nothing in the code corrects it.

### Quotas

`User::book_xfer` as `Sendfile` calls it through `XferLimit`: take a piece from its source, then
book it; refuse when the limit, which moves with the ratio times the uploaded bytes, is passed.
A piece that goes through the buffer is booked before it is written out (`lib/sendfile.cc:103`), so
"moved" in this module means that it has left its source. `fresh`
chooses a new `User` for each request (HTTP) or one for a session (FTP); `tainted` has
the users who were logged in by a `User` that an earlier login had turned away from
accounting; `turned` has the directions in which a piece was refused.

### Responder

`IOContextResponder` over `IOContextWriter`: bytes typed, half a line, the numbered
bytes of replies, the write position modulo the word size, the `closing` flag. A
reply may intrude from elsewhere, as `xfer_done` does, and is the last one when a QUIT
waits for its transfer (`quitting`). Every way a connection ends is there: `Part`, by itself and after
its output (`phase` is "done"); and a timeout with or without a last reply, the socket, an exception or ABOR's throw in
the middle of `finished_reading` (`TimedOut`, `MakeError`, `Answer`, `Lost`: "lost"). `cut` and `blocked` record the
two situations the code is known to mishandle (section 6), and the properties are
claimed up to them. After `blocked` one further write is followed.

### EventLoop

`StreamTable::poll` with connections of which only the silence is modelled: clocks,
the listener, SIGTERM and its flag `_async_notify`, and the window between unblocking
signals and entering `poll(2)`. The connections in `Polite` are FTP's, whose `timedout` first queues a 421
(`bye`) that has to be written before the connection closes itself; HTTP's are removed at once. `late` and `overrun` are history: who had been silent
for longer than the timeout, whose data was unread when its clock ran out.

### HttpConn

One connection of `HTTPControl` with pipelined requests of every kind: response text,
file bodies pumped through the shared transfer by events of two descriptors, `_closing`,
and every end of the connection (`Part` by the server itself, `Lose` by timeouts, sockets and
exceptions, at any moment). What is sent is a sequence of items (header with promised length and close
announcement, body pieces), so that the properties read the wire and not the server. `met` collects the
mishaps a property may have to except:

* "full": the socket is full when `_response`, or a line of a listing, is written (`FullSocket`). -1 is added to `_buf_pos`:
  what has not been begun is dropped, and of what has one byte is sent again (a "stray" item);
* "misconfigured": an exception after a response was queued in whole or in part, upon which `finished_req` queues another (`RespondTwice`);
* "error", "overfull", "nameless": a failed command, too many headers, a request line that begins with a blank
  and leaves `has_req_line()` false;
* "timeout", "limit", "broken": a transfer cut by its timeout, by its user's limit or by an error of one of its streams.

### Paths, FtpSession

`Paths` has paths as the code has them (`Path::chdir`, `push_back` of one component) and
a tree of files with the permission checks of `User` and the system calls behind them.
`FtpSession` is the FTP control connection as a store of things given by one command
and used by another: login, working directory, restart position, rename source, data address
and mode. Each is kept with the serial number of the login that gave it; `did` says what
the last command relied on, `told` what the replies have made the client believe. One
action per command that changes any of this; the transfers are reduced to
`none`, `parked`, `moving`. `FtpDataConn` has them in full, but not whose they are.

### SslFilter

One encrypted connection: the socket's stream S, whose consumer is the filter F, and
the stream N without a descriptor, on which the control connection C runs. `phase` is where
`StreamTable::poll` stands (N is served once in every pass, S on an event).
`StateChange` is `try_state_change`, `WriteOut` and `IfEmpty` are the filter's
`write_out` and `want_write`, and `Delete` the two destructors that find each other
through `_state`. OpenSSL is external: records decrypted whole, `SSL_pending`
telling what is left of one. `NewStream` chooses whether the connection is
encrypted from the start (HTTPS) or AUTH TLS has entered S in the table a second time
(`twice`); in what is served afterwards the two do not differ. C behaves as `HTTPControl`.

### Ports, Names, Listings, PassiveListing

`Ports` is the search of `listen_ipv4_range` while other programs take and give back ports.
`Names` has paths as texts, percent quoting, URI parsing and glob matching on sequences of bytes, as the code scans them:
one turn of a loop is an operator (`AppendByte`, `DequoteByte`), the loop a recursive function (`Scan`). The backtracking
of `FileListerGlob::match` is the function `Matching`, from each position of the pattern to the positions of the name from which it succeeds.
`Listings` has the listers and the four kinds of listing. A directory is read as the listing goes, one `readdir_r` at a
time (`Reads`): `asked` is what it would give if nothing happened, `place` where the lister stands in it. Of an entry
deleted meanwhile (`gone`) `readdir_r` may or may not still tell, and at any call it may fail, which `DirContainer` takes for the end
(`stream` is "failed"). A full socket drops the line in the buffer or tears it (`lost`). The rest is pure, and is checked against
definitions that are not derived from the code: `Means` says what a pattern matches without
scanning, `LinksLead` that what was written can be read back. `PassiveListing` composes the two, in the
order a session does.

## 3. Runs

| run | question | bounds and why they are enough |
|---|---|---|
| `FtpDataHasty` | what holds whatever the client does? | 1 listener, 2 transfers (the second is what a forgotten first one could answer for), both modes, timeouts; symmetry over identities, which only occur in equality tests. A view blanks the members of transfers that were deleted, which no action reads again. 1.7 M states |
| `FtpDataPatient` | what holds if the client does not interfere with a parked transfer? | 2 listeners (one finished while another is open), 1 transfer, no transfer timeouts, with fairness and the deadlock check; no symmetry since liveness is checked |
| `FtpDataNull` | does `passive_off` avoid the segfault its ChangeLog entry speaks of? | no: violation in a few steps |
| `ConfDB` | does the cache implement the plain store? | 2 keys (one file fails, the other does not), values to 2 (below, at and above a limit), amounts 0 to 2 |
| `Logins` | are counters exact and limits kept? | 3 connections over limits of 2, 2 users (a login in place of another), 2 crashes (a crash of a run that started stale) |
| `Quotas` | is what is booked within the limit and moved? | 2 sessions, pieces of 1 and 2, a ratio, a user without accounting |
| `Responder` | whole lines, replies in order, lock step? | line of 3 bytes (fills exactly, overflows), replies shorter than and as long as the line, 6 bytes of replies with the greeting (a reply that grows twice), 5 typed. 2.5 M states |
| `EventLoop` | who expires, and what does a signal do? | 2 connections, one that is told before it is closed and one that is not; idle timeout of 1 tick. 0.22 M states |
| `HttpConn` | order, number, length of responses, announced close | 3 requests, files of 3 pieces (one sent, one buffered and one unread), 1 header before the limit, 6 items, mishaps of one kind in each behaviour (any of the eight; a property excepts kinds, not combinations). 1.4 M states |
| `FtpSession` | whose is what a command uses, where does data go, which files change? | 2 logins (a second can find what the first left), a file without write permission, a directory with one that has it, relative, absolute and `..` arguments, 1 change of a file (which later commands meet), one address beside the client's own. 0.23 M states |
| `SslFilter` | do the two streams and the filter agree, is output in order, is every line read? | 4 records (a quiet line, its answerer, one more and a close), records of 1 and 2 lines, a socket of 2 units (fills up with an answer and a handshake). 213 k states |
| `PassiveListing` | is every port tried once, every entry listed, every link good? | ports of 3 bits, bounds 0, 2 and 4 (0 stands for any port, ranges of one, three and five, and one upside down); two directories of names that contain dots, percent signs, colons and spaces, patterns with both wildcards; 2 mishaps (two deletions, or one and a full socket; readdir may fail in addition). 1.0 M states |

The object identities of FtpDataConn are never reused, so a bound of two transfers
bounds a behaviour to two data transfers; the theorems drop this bound.

Deadlock is checked in `FtpDataPatient`, `ConfDB`, `Logins` and `Quotas`. It is
not in the others: a search or a listing that has ended, a connection that is closed, a program that has stopped and a model in
which undefined behaviour has occurred have no next step, rightly.

### What the properties say

* `SafePointers`: the pointers that `FTPControl` uses without a check name living
  objects that will report their death. `OneAnswer`: each 150 is followed by exactly one
  226 or 426, though `completed()`, the abort and the destructor all notify.
  `OneTransfer`: a given-up transfer cannot answer for a later one.
  `ParkedInOpenListener`: none waits in a listener that is about to delete itself.
  `FlowsOneWay`: RETR reads its file and STOR writes it, though `IOContextXfer` takes for its missing end
  a stream that asks it, in any order, and forgets an end whose stream goes.
* `NoFault`, `NothingLeaks`: no undefined behaviour, no object the loop cannot reach, for a patient client.
  `NothingLingers`: a finished listener and an answered transfer go without waiting for
  an event.
* `CleanEntries`, `DropsOnlyClean`, `Refines`: an entry not marked as changed equals its file; the
  cache is dropped only when everything reached its file; the store is implemented.
* `CountersExact`, `LimitsHold`, `CleanStop`: counters are what a start found plus what
  happened since; the limits hold for connections and logins, not only for the counters;
  a server that has only been stopped in order leaves zeros in its files.
* `BookedWithinLimit`, `CountsMoved`: a refused piece is not booked, nothing
  is booked that has not left its source, and nothing that has is left out except what was refused or tainted.
* `RepliesInOrder`, `WholeLines`, `LockStep`: bytes once and in order, lines
  never joined or split, no next line before the reply has been written, and no close by the server
  itself before the last one has; a connection that is ended otherwise may leave replies unsent.
* `OnlyTheIdleExpire`, `KeptWhenAwake`: only the idle are closed; they are, and a SIGTERM
  stops the program, unless the loop sleeps for ever (section 4), or passes that each take longer than the timeout
  let an FTP session say 421 anew for ever (`PassesTooSlow`; the SIGTERM is not excepted).
* `ResponsesInOrder`, `CloseAgreed`, `BodiesWhole`, as read off the wire: in order, one for each request; the last and only
  the last announces the close; as long as promised. Each excepts the mishaps that break it for
  certain: the order, a full socket and a response queued on another ("full", "misconfigured"), but even after a full
  socket no response comes after a later one; the number, "overfull", "nameless" and "misconfigured"; the
  announcement, "misconfigured" that another header follows it, "error" and "full" that there was none; the length, the
  three cuts of a transfer, "full" and "misconfigured".
* `OwnState`: no command relies on what another login left, and a restart position moves one
  transfer. `DataGoesWhereTold`: the mode and the address of a transfer are those of the
  replies, except after replies that leave the client unsure. `FilesKept`: what is not
  writable stays as it is; the code does not look at the target of a rename, nor at what is
  below its source, and these are excepted. The session's `TypeOK` says more than types:
  no path leads out of the user's directory, and the files remain a tree.
* `Lifetimes`: F exists exactly as long as S or N does, C as long as N; nothing is freed
  twice, except at the end of the program after AUTH TLS. `SentInOrder`: what the server
  said is with the client, in the socket or in the rest of the buffer, once and in order, up to a
  write that finds the socket full, or the deletion of S. `LinesRead`: a line that has arrived is read
  without a further event; excepted is the stall described in section 6.
* `EachPortOnce`: no port twice or outside the range, and "in use" only after all.
  `ListsAll`: each matching entry once and in order; what is missing was deleted meanwhile, was in
  a line that met a full socket, or comes after the place where `readdir_r` failed. `LinksLead`: the text of a line names its entry.

Each property of a passing run is paired in `PROJECT.json` with a mutant of the code's
definitions that breaks it.

## 4. Fairness

* `FtpDataConn`: weak fairness of every step outside `poll`. The program's own steps
  follow one another in one thread without waiting. Nothing is assumed of `poll`, which
  may block for ever; so `NothingLingers` says that no event is needed.
* `EventLoop`: weak fairness of the loop's steps, and of the clock. Nothing is
  assumed of clients. A loop that sleeps for ever is then a real possibility, because poll's
  timeout is -1: `KeptWhenAwake` claims its conclusion unless that happens. Nor is it assumed that a pass is
  shorter than the timeout, which is why `PassesTooSlow` has to be excepted.
* `SslFilter`: weak fairness of the pass through the table (`Loop`), and of the client reading what is
  in the socket, without which a server may wait for room for ever. Nothing is
  assumed of what the client sends, of other connections or of the clock.

The other modules have no fairness: their properties are safety.

## 5. Proofs

**FtpDataConn_proofs**: `TypeCorrect`, `PointersSafe`, `AnsweredOnce`, `SingleTransfer`, `ParkedOpen`:
the types and all properties of `FtpDataHasty` but `FlowsOneWay`, for any sets of listeners and transfers and
any settings. Assumed: identities are distinct (`ObjectsDistinct`) and the settings are
Booleans (`SettingsBoolean`).

`OneAnswer` is not inductive. Whether a transfer is answered once depends on who is
still attached to the session, on whether the session's pointer names it, and on the
listener it may be parked in. The invariant `Inv` adds to the types the part
`Consistent`: the listener and the transfer the session holds are alive and attached;
an attached transfer that was begun is the session's; the answers so far are counted
accordingly; a held transfer was begun, and one that was begun has a kind. The destructor cascade
is inside a single step, in the middle of which `Consistent` fails; so each operator of
`FtpDataObjects` has two lemmas: one that it preserves the type of the heap, one that says what it
does to `Consistent` (for a destructor: it keeps it if no pointer of the control
connection leads to the object, `Unlinked`). The step proof then has one case per action
and is short.

`ParkedInOpenListener` needs a second invariant, on the streams. `Docked(g, E)` says of a heap that what is
parked is the session's transfer in the session's listener, not joined to its data
connection (`Waiting`); that this listener has its socket in the table (`Reached`); that what is finished or doomed has been
in the table (`Sown`); and that a transfer consumes no stream but its own two (`Held`). `E` is the object
a destructor is just deleting, which is exempt until it has told the session. Again each operator of the
cascade has a lemma. Between the accept of a connection and the end of the next
preparation a finished listener does belong to the session; `Swept` says where the
passes stand then, and that the transfer handed over is still the session's, so that no other can be
parked. `Moored` is both. Assumed in addition: the null pointer is not a stream (`StreamsNotNull`).

**FtpDataPatient_proofs**: `PatientNoFault` and `PatientLeaksNothing` (`NoFault`, `NothingLeaks`), for any sets of
listeners and transfers, from the two hypotheses that name the setting of `FtpDataPatient`: the client does not
interfere with a transfer that is parked (`~Hasty`), and transfers have no timeout (`~XferTimeout`). A hasty
client breaks both, a transfer timeout breaks `NoFault` (`FtpDataNull`, and section 6); that nothing leaks
with timeouts as long as there is no fault was only checked on a small instance. The invariant `Patient` extends `Moored`. Each transfer is at one
of six places (`Sited`): not begun, over, a listing that waits or is being sent, a file whose data
connection is awaited, both ends joined, or a source at its end with a buffer still to be written; each place says which streams
name the transfer. The session and each listener live exactly as long as their streams (`Living`);
the listener that would still notify the session is the one it holds, and nobody would notify a deleted one (`Known`); and a session does
not end while a transfer waits (`Unhurried`), for which the control stream must be
doomed only after it was served in that pass (`Prompt`). From these, whoever consumes a stream is
alive (`ConsumersAlive`), so nothing freed is called, and whoever is alive consumes a stream or waits in a listener
that does (`CaredReached`), so nothing leaks. The lemmas follow the cascade of
destructors as in `FtpDataConn_proofs`; the step proof has a case for each action.

**LoopAndConf_proofs**, for ConfDB: `TypeCorrect`, `UnmarkedIsClean`, `SyncLosesNothing`,
`ImplementsStore`, for any keys, amounts and maximum; assumed is `ConfDBConstants`. The invariant
is the types, `CleanEntries` (an unmarked cached entry equals its file) and `Visited`:
while a sync runs and no file has failed, whatever is marked as changed is still pending.
So when nothing is pending and nothing failed, no entry is marked, and dropping the
cache loses nothing. One lemma, `NextInv`, has a step per action and proves invariance and
the refinement of that action together, since both use the same facts. For EventLoop, with
`LoopConstants`: `LoopTypeCorrect` and `OthersStay` (`OnlyTheIdleExpire`). A clock that has run out is explained by
a silence or an overrun (`Silent`): what is left of a clock and how long the client has been silent add up to at least the
timeout, as long as nothing of that client is unread.

**FtpSession_proofs**: `StateIsOwn` and `GoesWhereTold` (`OwnState`, `DataGoesWhereTold`), for
any arguments, tree, addresses and bounds; what a path resolves to plays no
part. The properties speak of the last
command only. The invariant speaks of the memory: what is remembered belongs to the
present login and a remembered position is untaken (`Remembered`), and mode and address are what
was told. `LoseAuthForgets` is the heart of the first: `lose_auth` forgets all that
`Remembered` is about.

`TypeCorrect` and `ReadOnlyStays` (`TypeOK`, `FilesKept`) are about paths, for any arguments
and any initial tree in which every entry has its directory (`SessionConstants`). `ChdirClean`: whatever
the components of an argument, what `Path::chdir` makes of them has no component that is empty or dots. It is an
induction along the argument, which is done without the library's induction theorems: if the fold failed somewhere
there would be a first place where it does (`LeastOf`). `SessionInv` then says that all paths the session keeps are
clean and that every entry of the tree has its directory (`Grounded`). A rename moves a whole
subtree and is the hard case: `MovedPoints`, `MovedApart` and `MovedAbove` say where a moved path comes from, what a move
leaves alone, and where the parent of a moved path is.

The same module has the search for ports: `PortsTriedOnce` (`EachPortOnce`), for a range of any width, any start and
whatever other programs do; assumed is `PortsConstants`. The invariant says that the ports tried are those that lie at
least `tries` places ahead of the next one, going round the range (`Beyond`, `Ahead`): when no try is
left, all were tried.

And it has the listings: `ListsEachOnce` and `LinksLeadBack` (`ListsAll`, `LinksLead`), for any directories whose names have no
slash and no NUL, any arguments, any pattern, and deletions, read errors and full sockets at any moment; assumed is `ListingConstants`. The properties speak of what is written,
and `ListsAll` of a finished listing. The invariant, `ListingInv`, says at every moment that there is a place `n`
in what was asked for (`AtNext`): the lister stands there, or broke off there when `readdir_r` failed (`Stands`), the entry there is one to give,
and the lines written and the line in the buffer tell of the entries before `n`, each once and in order, all but those that were deleted
or in a line that a full socket dropped or tore (`Lacks`). An HTTP page has in addition its
header first and its footer last, unless such a line was lost (`Page`). `LinksLead` follows from three facts about texts:

* `MatchMeans`: `FileListerGlob::match`, with its backtracking, says yes just where the name can be cut into the pieces that the pattern stands for (`Means`);
* `QuoteRoundTrip`: dequoting undoes quoting, for every text;
* `SlashAndStr`: `Path::append` reads back what `Path::str` writes, if no component is a dot, two dots, empty or has a slash in it.

`ParseOfPath`, `ParseOfHost` and `ParseOfSite` say what `URI::parse` makes of a link with and without a host. All of these are inductions
along a text. The induction theorems of the library take an operator, which the provers cannot instantiate, so induction is stated with a set:
`Counting` and `TextInduction` take the set of the numbers or texts of which a claim holds, and rest on the least number that would be missing from it (`LeastOf`). That a recursive function such as `Scan` has a value at all is a theorem of its own
(`TraceExists`: a run of the loop exists; `SameTrace`: there is one only), and likewise for `FlattenSeq` (`FlattenTrace`) and `Matching` (`MatchingIsPlaces`).

**SslFilter_proofs**: `LifetimesHold` (`Lifetimes`), for any records, any room and bound.
Each destructor finds the other stream by `_state`, not by a pointer; so the invariant
says that the state tells which of the streams is gone (`Agree`). It fails between
the two halves of a destructor, both of which are in one step, and so is stated of the
triple of objects, state and fault that `Delete` works on.

`SentOnceInOrder` (`SentInOrder`) needs the contents of the buffers. `Output` joins what the client has, the socket and the unwritten part
of the filter's buffer; the invariant says that it is what was said, in order, with close_notify at
its end at the latest. Within one call of the filter a function may have written half its
buffer or thrown; `Kept`, `Ended` and `Fine` say what each function of it returns from each of these.

**Accounts_proofs**, for Quotas: `WithinLimit`, `MovedIsCounted` and the types, from `QuotasConstants`. That a
limit on downloads only rises, when another session books an upload, is a lemma on
multiplication (`RatioGrows`). For `CountsMoved` the invariant has to say who books at all
(`Booking`): a `User` books both directions or neither; one that books neither although the user keeps
an account has tainted that user, and a transfer does as the `User` it was copied from.

For Logins: `ExactCounters`, `WithinLimits`, `StopsClean` and the types, from
`LoginsConstants`, which has no more than a finite set of connections, and `NoneIsNoUser`. The exact counters give the
limits, since `Fits` looks at the counters and they are never below what there is. `StopsClean`
needs that a stop leaves in the files what the start found there, and that this was nothing
before the first crash (`Restarts`).

**Responder_proofs**: `SentOnce` and `OneByOne` (`RepliesInOrder`, `LockStep`), from
`ResponderConstants`. The invariant (`Replies`) adds that a reply under way is never finished
between two steps, so that `add_response` keeps the position exactly when a byte is still to be
written, and that a connection that closed itself (`phase` is "done") has nothing left; of one that is "lost" it claims nothing of the kind. `LinesWhole` (`WholeLines`) follows the bytes: those
that wait in the line, in the socket and at the client's keyboard follow one another without a gap (`InStep`), from
the position that the lines already heard leave (`Here`). `TypeCorrect` is needed for it, with the line
shorter than its buffer between two reads.

**HttpConn_proofs**: `TypeCorrect`, `InOrder`, `CloseAnnounced`, `BodiesComplete` (`ResponsesInOrder`, `CloseAgreed`, `BodiesWhole`), from
`HttpConstants`. The properties are read off the wire, so the invariant is about the stream of
items: what the client has, followed by what waits. Its parts, each up to the mishaps that break it, are the types (`Typed`);
that a transfer belongs to the last request answered, and pumps only when nothing else waits to be written (`Xferring`); that the
headers of the stream are numbered without gaps and items belong to the header before them (`Chain` in `Streamed`, but for "full" and
"misconfigured"), every body but the last is whole and the last one lacks what the transfer has still to send (`Finished`, `Current`;
but for these two and the cuts); that even with a full socket the numbers never fall (`Raised`, but for "misconfigured");
that a header which announces a close is the last, and a connection that closes has announced it (`Agreed`); and that
answers and requests still to be read are together no more than what was asked (`Counted`). The actions are sorted by what they do to the stream (ask, read a line,
answer, send a piece, or nothing), and each part has one lemma for each sort.

**Only model-checked**: the liveness properties `NothingLingers`, `KeptWhenAwake` and `LinesRead` (liveness under
fairness is out of the prover's reach), and `FlowsOneWay`. Every other property that a passing run checks is also the
statement of a theorem. `TypeOK` of FtpDataConn and `QuotaTypeOK` are proved and in no run.

## 6. What the code does that a reader may not expect

One of these is shown by a run (`FtpDataNull`) and listed as a finding. The rest is in the
models as behaviour that the properties except, or is outside them; each was met
while translating the code.

Data connections:
* `passive_off` uses `_data_listener` after `free()` has set it to null through the
  destructor of a parked transfer (`FtpDataNull`); a listener that was
  forgotten can notify a deleted `FTPControl`, after an ABOR and a hang-up in one pass.
* With `timeout_xfer`, a transfer in passive mode can be deleted through its file
  stream while the data stream still names it.
* `ABOR` of a parked listing leaks it. A `connect` that fails in `start_xfer` leaks the
  transfer and its file stream. A parked passive `STOR` keeps the loop busy.
* Streams without consumer stay in the table until something wakes the loop.
* A reset connection during `STOR` counts as end of file and is answered with 226.
* `STOR` and `PUT` open without truncating; the `REST` position survives a failed `RETR`
  and a `LIST`.

Session:
* `RNTO` does not check that its target may be overwritten. `DELE` and `RMD` of the root
  directory take the last element of an empty path.
* An `EPSV` that cannot listen has no reply; a refused `EPRT` has already wiped the address and left
  passive mode, and one whose second delimiter is wrong gets two replies.
* The data address and the listener survive `REIN` and a new login. After `QUIT` during a
  transfer further commands are accepted.

Encrypted connections:
* An exception that comes while streams without a descriptor are asked for their clocks, or
  other than `Destroy` while a socket is asked whether it wants to write, leaves `poll`
  and ends the program: an idle encrypted connection, or a failing `SSL_shutdown`.
* On an orderly close, `try_shutdown` comes before `write_out`, and what was still in `_ssl_out`
  is dropped.
* A quiet line that ends exactly with its record, while OpenSSL holds another record, leaves the
  loop asleep on that record until the socket has an event.
* After close_notify, `SSL_read` returns 0, which is taken for a full line buffer.
* AUTH TLS enters the control stream in the table a second time.

Ports and listings:
* A range whose lower bound is above the upper divides by zero or reaches the null exception after the
  loop; bounds are cut to 16 bits.
* LIST leaves out entries it cannot look at; other listings end with the exception.
* A directory is read while its listing is written. A failing `readdir_r` ends the listing in silence, and FTP
  answers 226 as if it were complete.

Accounting:
* An accept that throws (limit, `accept`, `getpeername`) removes the listening stream.
* Counters stay too high after a crash.
* `MaxDownload` 0 means no limit, until a ratio and an upload make it one.
* A refused piece has already been moved. A `User` that was once without accounting
  never books again in that session.

Protocols and loop:
* `do_write` returns -1 on a full socket, which is added to `_buf_pos`. What had not been begun is dropped: a whole
  reply, the header of a file that is then sent without it, the response that announces a close, a line of a listing. What
  had been begun has a byte sent twice.
* A reply that comes while half a line is buffered loses the half.
* A SIGTERM can be missed until the next event; idle connections are closed only at
  the next event; a connection can expire with data unread. When passes take longer than the timeout, an FTP session
  is told 421 again and again.
* A connection that times out, fails or throws is removed with whatever replies are queued.
* HTTP: `finished_queuing_response` runs twice for failed commands, which closes
  the connection unannounced; too many headers, and a request line that begins with a blank, give several responses;
  a missing `timeout_xfer` or message is noticed after the header is queued, and a second response follows it; a cut
  download may be followed by the next response on the same connection; HEAD of a
  directory leaks its lister; wrong credentials give 401, where the README speaks of
  the default user.
* `~ConfDB` writes out a second time while an exception unwinds.

## 7. Not modelled, and why

* **OpenSSL**, external: the filter is modelled on how the code calls it. The limit of 16 MB on
  its buffers and the loading of keys are left out.
* **base64** and **make_response_multiline**: pure functions that no state depends on, without a
  reference in the repository beside themselves.
* **The file system outside** the program, formatting of listings and messages,
  reading of configuration files, `.message` files: what they return is a choice in the modules
  that call them. Changes that other programs make between a check and the call it is for
  ("obvious race!", `src/user.cc:44`) are not followed.
* **Names made or changed during a listing**: a new file that `readdir_r` gives is as one that was there from the start.
* Whether the **kernel's buffers** fill up is a choice; `Responder`, `SslFilter` and `HttpConn` follow what `_buf_pos` does to
  the first full socket of a connection, `Listings` to those its bound on mishaps allows.
* Memory exhaustion, `errno` values that are treated alike, IPv6 addresses.

## 8. Plan

Done, in this order: FtpDataObjects/FtpDataConn, ConfDB/CounterStore with the refinement,
Logins, Quotas, Responder, EventLoop, HttpConn; then Paths/FtpSession, SslFilter, Ports, Names and
Listings with PassiveListing; then the proofs: the data connections and the database, the accounting, lines and replies,
the event loop, HTTP, the paths and files of a session, the output of the SSL filter, the patient client, and last the texts, patterns and
listings, for which Names was rewritten on bytes and without recursive operators.

Left, in this order:

1. An abstract reply protocol (one reply per command, transfers with two) that
   Responder with FtpDataConn, and HttpConn, implement.
2. Other programs that change files between a check and its call, in FtpSession.
