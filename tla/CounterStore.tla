---------------------------- MODULE CounterStore ----------------------------
(***************************************************************************)
(* What the rest of the server may assume of the configuration database:   *)
(* a value per key, the value that would survive a crash, and a disk that  *)
(* is only ever brought up to date with what the program has written.      *)
(***************************************************************************)
EXTENDS Naturals

CONSTANTS
  Keys,    \* the names of the counters
  Values,  \* what a counter can hold
  Absent,  \* a counter that was never written
  Torn     \* a file that was opened for writing and never filled

VARIABLES
  value,   \* what a reader of the counter sees
  durable, \* what a restarted program would see
  life     \* tells each run of the program from the next

vars == <<value, durable, life>>

Contents == Values \cup {Absent, Torn}

Init == durable \in [Keys -> Contents] /\ value = durable /\ life = 0

Write(k, v) ==
  /\ value' = [value EXCEPT ![k] = v]
  /\ UNCHANGED <<durable, life>>

\* The file of k is written; a failure can leave it torn.
Flush(k) ==
  /\ durable' \in {[durable EXCEPT ![k] = c] : c \in {value[k], Torn}}
  /\ UNCHANGED <<value, life>>

\* Only what is durable is left, and one file may have been caught half
\* written.
Crash ==
  /\ durable' \in {durable} \cup {[durable EXCEPT ![k] = Torn] : k \in Keys}
  /\ value' = durable'
  /\ life' = 1 - life

Next == \/ \E k \in Keys, v \in Values : Write(k, v)
        \/ \E k \in Keys : Flush(k)
        \/ Crash

Spec == Init /\ [][Next]_vars
=============================================================================
