-------------------------------- MODULE Ports --------------------------------
(***************************************************************************)
(* How passive_on (src/ftpcontrol.cc) finds a port to listen on:           *)
(* Stream::listen_ipv4_range (lib/stream.cc) begins anywhere in the        *)
(* configured range and goes round it, while other programs take and give  *)
(* back ports.                                                             *)
(***************************************************************************)
EXTENDS Integers, Sequences

CONSTANTS
  Width,     \* how many ports there are, for 2^16
  Bounds     \* what passive_port_min and passive_port_max may be set to

ASSUME PortsConstants == Width \in Nat \ {0} /\ Bounds \subseteq Nat

VARIABLES
  search,    \* "no", "on", and how it ended: "bound", "inuse", "failed",
             \* "crash"
  range,     \* port_min and port_max
  tries,     \* tries left
  port,      \* the port to try next, or the one found
  tried,     \* history: the ports tried so far
  taken      \* ports others listen on

ports == <<search, range, tries, port, tried, taken>>

PortNumbers == 0..(Width - 1)

\* Only what is asked for by number can be in use; port 0 stands for any.
Takeable == PortNumbers \ {0}

PortsInit ==
  /\ search = "no" /\ range = <<0, 0>> /\ tries = 0 /\ port = 0
  /\ tried = <<>> /\ taken \in SUBSET Takeable

\* Mutant of Tries: the last port of the range is left out.
TriesShort(min, max) == max - min

Tries(min, max) == max - min + 1

\* The numbers become 16 bits wide. rand() % tries takes the magnitude of
\* tries, and is a division by zero when max is one less than min; with fewer
\* tries the loop is not entered, and what follows it is reached.
Passive ==
  /\ search = "no"
  /\ \E min \in {b % Width : b \in Bounds}, max \in {b % Width : b \in Bounds} :
       LET n == Tries(min, max)
           spread == IF n < 0 THEN 0 - n ELSE n
       IN  /\ range' = <<min, max>>
           /\ tries' = n
           /\ \/ /\ n = 0 /\ search' = "crash" /\ port' = port
              \/ /\ n # 0
                 /\ search' = IF n < 0 THEN "crash" ELSE "on"
                 /\ \E r \in 0..(spread - 1) : port' = min + r
  /\ UNCHANGED <<tried, taken>>

\* One turn of the loop: bind(2) and listen(2) succeed, find the port in use,
\* or fail otherwise. The exception leaves with the last try.
Try ==
  /\ search = "on"
  /\ tried' = Append(tried, port)
  /\ \/ /\ port \notin taken
        /\ search' = "bound"
        /\ UNCHANGED <<port, tries>>
     \/ /\ search' = "failed"
        /\ UNCHANGED <<port, tries>>
     \/ /\ port \in taken
        /\ search' = IF tries = 1 THEN "inuse" ELSE "on"
        /\ port' = IF port + 1 > range[2] THEN range[1] ELSE port + 1
        /\ tries' = tries - 1
  /\ UNCHANGED <<range, taken>>

\* Other programs.
Elsewhere ==
  /\ search = "on"
  /\ \E p \in Takeable : taken' = IF p \in taken THEN taken \ {p}
                                  ELSE taken \cup {p}
  /\ UNCHANGED <<search, range, tries, port, tried>>

PortsNext == Passive \/ Try \/ Elsewhere

PortsSpec == PortsInit /\ [][PortsNext]_ports

-----------------------------------------------------------------------------
\* lib/stream.cc:53: no port is tried twice and none outside the range, and
\* that all are in use is said only after every one has been tried; the end of
\* the loop ("can't get here") is reached only with a range that is empty.
EachPortOnce ==
  LET inRange == range[1]..range[2]
      seen == {tried[i] : i \in DOMAIN tried}
  IN  /\ search # "crash" => seen \subseteq inRange
      /\ \A i, j \in DOMAIN tried : i # j => tried[i] # tried[j]
      /\ search = "inuse" => seen = inRange
      /\ search = "bound" => port \in seen
      /\ search = "crash" => range[2] < range[1]
=============================================================================
