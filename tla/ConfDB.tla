------------------------------- MODULE ConfDB -------------------------------
(***************************************************************************)
(* lib/confdb: the counters of a server kept in files, one per key, behind *)
(* a cache.  Changes stay in the cache until sync (SIGUSR1, or the end of  *)
(* the program), which writes the changed entries file by file and then    *)
(* drops the cache.  A crash loses the cache.                              *)
(*                                                                         *)
(* A Value's text is abstracted to the number read from it, but the text   *)
(* that get makes of a file differs from the text put_type writes for the  *)
(* same number (get appends the end-of-file mark), and Value::set compares *)
(* texts: the raw flag of an entry keeps them apart.                       *)
(***************************************************************************)
EXTENDS Naturals

CONSTANTS
  Keys,      \* the names of the counters
  Absent,    \* no file
  Torn,      \* a file that holds no number: opened for writing, not filled
  MaxValue,  \* bound of the counters
  Amounts    \* what is added, subtracted and allowed

ASSUME ConfDBConstants ==
  /\ MaxValue \in Nat
  /\ Amounts \subseteq Nat
  /\ Absent # Torn
  /\ Absent \notin 0..MaxValue /\ Torn \notin 0..MaxValue

VARIABLES
  hash,     \* ConfDB::_hash
  disk,     \* the files under _base
  writing,  \* whether write_out is running
  pending,  \* the entries write_out has still to visit
  bad,      \* write_out's badfiles is not empty
  life      \* tells each run of the program from the next

vars == <<hash, disk, writing, pending, bad, life>>

Numbers == 0..MaxValue
Files == Numbers \cup {Absent, Torn}
Entries == [text : Numbers \cup {Torn}, raw : BOOLEAN, changed : BOOLEAN]

\* The cache is a map: only some keys have an entry.
Uncached == [k \in {} |-> Torn]

Init ==
  /\ hash = Uncached
  /\ disk \in [Keys -> Files]
  /\ writing = FALSE /\ pending = {} /\ bad = FALSE /\ life = 0

Cached(k) == k \in DOMAIN hash

\* ConfDB::exists.
Exists(k) == Cached(k) \/ disk[k] # Absent

\* The entry of k after ConfDB::get, which caches what it read, or the empty
\* one that operator[] makes for a counter that does not exist.
Entry(k) ==
  IF Cached(k) THEN hash[k]
  ELSE [text |-> IF disk[k] = Absent THEN Torn ELSE disk[k],
        raw |-> TRUE, changed |-> FALSE]

\* Mutant of Set: an earlier change is forgotten.
SetAnew(e, v) == [text |-> v, raw |-> FALSE, changed |-> e.raw \/ e.text # v]

\* Value::set.
Set(e, v) ==
  [text |-> v, raw |-> FALSE, changed |-> e.changed \/ e.raw \/ e.text # v]

\* The number a counter stands for: get_type throws on a torn file.
Readable(k) == Exists(k) => Entry(k).text # Torn
Number(k) == IF Exists(k) THEN Entry(k).text ELSE 0

With(k, e) == [j \in DOMAIN hash \cup {k} |-> IF j = k THEN e ELSE hash[j]]

Load(k) == hash' = IF Exists(k) THEN With(k, Entry(k)) ELSE hash
Put(k, v) == hash' = With(k, Set(Entry(k), v))

Operating == ~writing /\ UNCHANGED <<disk, writing, pending, bad, life>>

---------------------------------------------------------------------------
\* A read, or an operation that fails after its read.
Get(k) == Operating /\ Exists(k) /\ Load(k)

Increment(k, amt, max) ==
  /\ Operating /\ Readable(k)
  /\ Number(k) + amt <= MaxValue
  /\ IF max # 0 /\ Number(k) + amt > max
     THEN Load(k)
     ELSE Put(k, Number(k) + amt)

\* Mutant of Decrement: nothing is compared with the minimum.
DecrementFreely(k, amt) ==
  /\ Operating /\ Readable(k)
  /\ Put(k, Number(k) - amt)

\* ConfDB::decrement with min = 0.
Decrement(k, amt) ==
  /\ Operating /\ Readable(k)
  /\ IF amt > Number(k)
     THEN Load(k)
     ELSE Put(k, Number(k) - amt)

---------------------------------------------------------------------------
\* sync runs between two operations: the signals are blocked but in poll.
StartSync ==
  /\ ~writing
  /\ writing' = TRUE /\ bad' = FALSE
  /\ pending' = DOMAIN hash
  /\ UNCHANGED <<hash, disk, life>>

SkipUnchanged(k) ==
  /\ writing /\ k \in pending /\ ~hash[k].changed
  /\ pending' = pending \ {k}
  /\ UNCHANGED <<hash, disk, writing, bad, life>>

WriteFile(k) ==
  /\ writing /\ k \in pending /\ hash[k].changed
  /\ disk' = [disk EXCEPT ![k] = hash[k].text]
  /\ hash' = [hash EXCEPT ![k].changed = FALSE]
  /\ pending' = pending \ {k}
  /\ UNCHANGED <<writing, bad, life>>

\* Mutant of FailFile: the bad file is not reported.
FailFileQuietly(k) ==
  /\ writing /\ k \in pending /\ hash[k].changed
  /\ disk' \in {disk, [disk EXCEPT ![k] = Torn]}
  /\ pending' = pending \ {k}
  /\ UNCHANGED <<hash, writing, bad, life>>

\* The file cannot be opened, or has been truncated by the open and cannot
\* be filled: the entry stays changed.
FailFile(k) ==
  /\ writing /\ k \in pending /\ hash[k].changed
  /\ disk' \in {disk, [disk EXCEPT ![k] = Torn]}
  /\ bad' = TRUE
  /\ pending' = pending \ {k}
  /\ UNCHANGED <<hash, writing, life>>

\* Mutant of EndSync: the cache goes even when a file was bad.
EndSyncDropping ==
  /\ writing /\ pending = {}
  /\ hash' = Uncached
  /\ writing' = FALSE
  /\ UNCHANGED <<disk, pending, bad, life>>

\* write_out throws when a file was bad, and sync then keeps the cache.
EndSync ==
  /\ writing /\ pending = {}
  /\ hash' = IF bad THEN hash ELSE Uncached
  /\ writing' = FALSE
  /\ UNCHANGED <<disk, pending, bad, life>>

\* The program dies and is started again; the file being written is torn.
Crash ==
  /\ disk' \in {disk} \cup {[disk EXCEPT ![k] = Torn] :
                             k \in {j \in pending : hash[j].changed}}
  /\ hash' = Uncached
  /\ writing' = FALSE /\ pending' = {} /\ bad' = FALSE
  /\ life' = 1 - life

---------------------------------------------------------------------------
Operation(k) == \/ Get(k)
                \/ \E amt, max \in Amounts : Increment(k, amt, max)
                \/ \E amt \in Amounts : Decrement(k, amt)

Writing(k) == SkipUnchanged(k) \/ WriteFile(k) \/ FailFile(k)

Next == \/ \E k \in Keys : Operation(k) \/ Writing(k)
        \/ StartSync \/ EndSync \/ Crash

Spec == Init /\ [][Next]_vars

---------------------------------------------------------------------------
(* Properties *)

TypeOK ==
  /\ DOMAIN hash \subseteq Keys
  /\ hash \in [DOMAIN hash -> Entries]
  /\ disk \in [Keys -> Files]
  /\ writing \in BOOLEAN /\ bad \in BOOLEAN /\ life \in {0, 1}
  /\ pending \subseteq DOMAIN hash

\* What the server sees of a counter.
Seen == [k \in Keys |-> IF Cached(k) THEN hash[k].text ELSE disk[k]]

\* An entry that is not marked changed agrees with its file: dropping it
\* forgets nothing.  The mark is set by comparing texts and reset file by
\* file, over failures of the disk.
CleanEntries ==
  \A k \in DOMAIN hash : ~hash[k].changed => disk[k] = hash[k].text

\* When a sync is about to drop the cache, every entry has reached its file.
DropsOnlyClean ==
  writing /\ pending = {} /\ ~bad =>
    \A k \in DOMAIN hash : disk[k] = hash[k].text

Store == INSTANCE CounterStore
           WITH Values <- Numbers, value <- Seen, durable <- disk

\* Behind the cache the counters are a plain store: reading, syncing and
\* failing to sync never change a counter, an operation changes it once, and
\* a crash takes it back to its file.
Refines == Store!Spec
=============================================================================
