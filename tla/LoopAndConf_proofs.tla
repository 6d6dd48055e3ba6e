------------------------- MODULE LoopAndConf_proofs -------------------------
(***************************************************************************)
(* Two parts that every server of the program shares: the event loop, and  *)
(* the database of counters.  They have nothing in common but that.        *)
(*                                                                         *)
(* EventLoop: only silent connections expire, for any number of them and   *)
(* any timeout.  ConfDB: the cache is invisible; for any counters and      *)
(* bounds the database implements the plain store of CounterStore.         *)
(***************************************************************************)
EXTENDS EventLoop, ConfDB, TLAPS

---------------------------------------------------------------------------
(* The loop.  Since the clock of a connection was started its client has   *)
(* been silent, unless there is something to be read of it; and when the   *)
(* clock has run out, it was silent for too long or is not read in time.   *)

Silent(c) ==
  /\ left[c] # Unset /\ input[c] # "data" => quiet[c] + left[c] >= Idle + 1
  /\ left[c] = 0 => c \in late \cup overrun

LoopInv == LoopTypeOK /\ \A c \in Conns : Silent(c)

LEMMA LoopTypes ==
  ASSUME LoopTypeOK, NEW c \in Conns
  PROVE  /\ left[c] \in 0..Idle + 2 /\ quiet[c] \in 0..Idle + 1
         /\ input[c] \in {"none", "data", "eof"}
         /\ Idle \in Nat \ {0} /\ Unset = Idle + 2
BY LoopConstants DEF LoopTypeOK, Unset

LEMMA LoopInitInv == LoopInit => LoopInv
<1> SUFFICES ASSUME LoopInit PROVE LoopInv
  OBVIOUS
<1>1. Idle \in Nat \ {0}
  BY LoopConstants
<1>2. LoopTypeOK
  <2>1. left \in [Conns -> 0..Unset] /\ quiet \in [Conns -> 0..(Idle + 1)]
    BY <1>1 DEF LoopInit, Unset
  <2>2. /\ stage \in [Conns -> {"gone", "queued", "added", "in"}]
        /\ input \in [Conns -> {"none", "data", "eof"}]
        /\ bye \in [Conns -> {"none", "owed", "stuck", "sent"}]
        /\ {doomed, expired, late, overrun} \subseteq SUBSET Conns
        /\ phase \in Phases /\ todo \subseteq Conns \cup {Listener}
        /\ {signal, told, stop} \subseteq BOOLEAN
    BY DEF LoopInit, Phases
  <2> QED
    BY <2>1, <2>2 DEF LoopTypeOK
<1>3. ASSUME NEW c \in Conns
      PROVE  Silent(c)
  BY <1>1, <1>3 DEF LoopInit, Silent, Unset
<1> QED
  BY <1>2, <1>3 DEF LoopInv

\* A step that leaves the clocks, and what makes them run out, alone.
LEMMA SilenceKept ==
  ASSUME LoopInv, NEW c \in Conns,
         left'[c] = left[c], quiet'[c] = quiet[c],
         input'[c] = "data" \/ input[c] # "data",
         c \in late \cup overrun => c \in late' \cup overrun'
  PROVE  Silent(c)'
BY LoopTypes DEF LoopInv, Silent

LEMMA OpenStep ==
  ASSUME LoopInv, NEW d \in Conns, Open(d)
  PROVE  LoopInv'
<1>1. LoopTypeOK'
  <2>1. left' \in [Conns -> 0..Unset] /\ quiet' \in [Conns -> 0..(Idle + 1)]
    BY LoopConstants DEF LoopInv, LoopTypeOK, Open, Unset
  <2>2. /\ stage' \in [Conns -> {"gone", "queued", "added", "in"}]
        /\ input' \in [Conns -> {"none", "data", "eof"}]
        /\ bye' \in [Conns -> {"none", "owed", "stuck", "sent"}]
        /\ {doomed', expired', late', overrun'} \subseteq SUBSET Conns
        /\ UNCHANGED <<phase, todo, signal, told, stop>>
    BY DEF LoopInv, LoopTypeOK, Open, signals
  <2> QED
    BY <2>1, <2>2 DEF LoopInv, LoopTypeOK
<1>2. ASSUME NEW c \in Conns
      PROVE  Silent(c)'
  <2>1. CASE c = d
    <3>1. left'[c] = Unset /\ Unset # 0
      BY <2>1, LoopTypes DEF LoopInv, LoopTypeOK, Open
    <3> QED
      BY <3>1 DEF Silent
  <2>2. CASE c # d
    BY <1>2, <2>2, SilenceKept DEF LoopInv, LoopTypeOK, Open
  <2> QED
    BY <2>1, <2>2
<1> QED
  BY <1>1, <1>2 DEF LoopInv

LEMMA SendStep ==
  ASSUME LoopInv, NEW d \in Conns, Send(d)
  PROVE  LoopInv'
<1>1. LoopTypeOK'
  <2>1. quiet' \in [Conns -> 0..(Idle + 1)]
    BY LoopConstants DEF LoopInv, LoopTypeOK, Send
  <2>2. /\ input' \in [Conns -> {"none", "data", "eof"}]
        /\ UNCHANGED <<stage, doomed, left, late, overrun, bye, expired, phase,
                       todo, signal, told, stop>>
    BY DEF LoopInv, LoopTypeOK, Send, signals
  <2> QED
    BY <2>1, <2>2 DEF LoopInv, LoopTypeOK
<1>2. ASSUME NEW c \in Conns
      PROVE  Silent(c)'
  <2>1. CASE c = d
    BY <1>2, <2>1 DEF LoopInv, LoopTypeOK, Send, Silent
  <2>2. CASE c # d
    <3>1. left'[c] = left[c] /\ quiet'[c] = quiet[c] /\ input'[c] = input[c]
            /\ late' = late /\ overrun' = overrun
      BY <2>2 DEF LoopInv, LoopTypeOK, Send
    <3> QED
      BY <1>2, <3>1, SilenceKept
  <2> QED
    BY <2>1, <2>2
<1> QED
  BY <1>1, <1>2 DEF LoopInv

LEMMA CloseStep ==
  ASSUME LoopInv, NEW d \in Conns, Close(d)
  PROVE  LoopInv'
<1>1. LoopTypeOK'
  BY DEF LoopInv, LoopTypeOK, Close, clocks, signals
<1>2. ASSUME NEW c \in Conns
      PROVE  Silent(c)'
  <2>1. /\ left' = left /\ quiet' = quiet /\ late' = late /\ overrun' = overrun
        /\ input[d] = "none" /\ input' = [input EXCEPT ![d] = "eof"]
    BY DEF Close, clocks
  <2>2. input'[c] = "data" \/ input[c] # "data"
    BY <2>1 DEF LoopInv, LoopTypeOK
  <2> QED
    BY <1>2, <2>1, <2>2, SilenceKept
<1> QED
  BY <1>1, <1>2 DEF LoopInv

LEMMA DrainStep ==
  ASSUME LoopInv, NEW d \in Conns, Drain(d)
  PROVE  LoopInv'
<1>1. LoopTypeOK'
  BY DEF LoopInv, LoopTypeOK, Drain, clocks, signals
<1>2. ASSUME NEW c \in Conns
      PROVE  Silent(c)'
  BY <1>2, SilenceKept DEF Drain, clocks
<1> QED
  BY <1>1, <1>2 DEF LoopInv

LEMMA TickStep ==
  ASSUME LoopInv, Tick
  PROVE  LoopInv'
<1> USE DEF LoopInv
<1>1. \A c \in Conns :
        /\ left'[c] = IF left[c] \in 1..(Idle + 1) THEN left[c] - 1 ELSE left[c]
        /\ quiet'[c] = IF quiet[c] <= Idle THEN quiet[c] + 1 ELSE quiet[c]
        /\ left'[c] \in 0..Idle + 2 /\ quiet'[c] \in 0..Idle + 1
  BY LoopTypes DEF Tick
<1>2. /\ late' = late \cup {c \in Conns : quiet'[c] > Idle}
      /\ overrun' = overrun \cup {c \in Conns : input[c] = "data"}
      /\ UNCHANGED <<stage, doomed, input, bye, expired, phase, todo, signals>>
      /\ left' = [c \in Conns |-> left'[c]] /\ quiet' = [c \in Conns |-> quiet'[c]]
  BY DEF Tick, kernel
<1>3. LoopTypeOK'
  <2>1. left' \in [Conns -> 0..Unset] /\ quiet' \in [Conns -> 0..Idle + 1]
    BY <1>1, <1>2 DEF Unset
  <2> QED
    BY <1>2, <2>1 DEF LoopTypeOK, signals
<1>4. ASSUME NEW c \in Conns
      PROVE  Silent(c)'
  <2>1. /\ left[c] # Unset /\ input[c] # "data" => quiet[c] + left[c] >= Idle + 1
        /\ left[c] = 0 => c \in late \cup overrun
    BY DEF Silent
  <2>2. left'[c] # Unset /\ input[c] # "data" => quiet'[c] + left'[c] >= Idle + 1
    BY <1>1, <2>1, LoopTypes
  <2>3. ASSUME left'[c] = 0
        PROVE  c \in late' \cup overrun'
    <3>1. CASE left[c] = 0
      BY <1>2, <2>1, <3>1
    <3>2. CASE left[c] # 0 /\ input[c] = "data"
      BY <1>2, <3>2
    <3>3. CASE left[c] # 0 /\ input[c] # "data"
      <4>1. quiet'[c] > Idle
        BY <1>1, <2>2, <2>3, <3>3, LoopTypes
      <4> QED
        BY <1>2, <4>1
    <3> QED
      BY <3>1, <3>2, <3>3
  <2> QED
    BY <1>2, <2>2, <2>3 DEF Silent
<1> QED
  BY <1>3, <1>4

\* The clock of a connection is started, and no other is touched.
LEMMA ClockStarted ==
  ASSUME LoopInv, NEW d \in Conns, StartClock(d), UNCHANGED quiet,
         LoopTypeOK',
         \A c \in Conns \ {d} : input'[c] = input[c]
              /\ (c \in late \cup overrun => c \in late' \cup overrun')
  PROVE  \A c \in Conns : Silent(c)'
<1> SUFFICES ASSUME NEW c \in Conns PROVE Silent(c)'
  OBVIOUS
<1>1. CASE c = d
  <2>1. left'[c] = Idle + 1
    BY <1>1 DEF StartClock, LoopInv, LoopTypeOK
  <2>2. quiet'[c] \in 0..Idle + 1 /\ Idle \in Nat
    BY LoopTypes, LoopConstants DEF LoopInv
  <2>3. quiet'[c] + left'[c] >= Idle + 1 /\ left'[c] # 0
    BY <2>1, <2>2
  <2> QED
    BY <2>3 DEF Silent
<1>2. CASE c # d
  <2>1. left'[c] = left[c]
    BY <1>2 DEF StartClock, LoopInv, LoopTypeOK
  <2> QED
    BY <1>2, <2>1, SilenceKept
<1> QED
  BY <1>1, <1>2

LEMMA PrepareStep ==
  ASSUME LoopInv, NEW d \in Conns, Prepare(d)
  PROVE  LoopInv'
<1>1. /\ todo' = todo \ {d}
      /\ UNCHANGED <<stage, quiet, late, overrun, input, phase, signals>>
      /\ StartClock(d) \/ UNCHANGED left
      /\ doomed' = doomed \/ doomed' = doomed \cup {d}
      /\ expired' = expired \/ expired' = expired \cup {d}
      /\ bye' = bye \/ \E b \in {"owed", "stuck"} : bye' = [bye EXCEPT ![d] = b]
  BY DEF Prepare, TimedOut
<1>2. LoopTypeOK'
  <2>1. left' \in [Conns -> 0..Unset]
    BY <1>1, LoopConstants DEF LoopInv, LoopTypeOK, StartClock, Unset
  <2> QED
    BY <1>1, <2>1 DEF LoopInv, LoopTypeOK, signals
<1>3. \A c \in Conns : Silent(c)'
  <2>1. CASE StartClock(d)
    BY <1>1, <1>2, <2>1, ClockStarted
  <2>2. CASE UNCHANGED left
    BY <1>1, <2>2, SilenceKept DEF LoopInv, Silent
  <2> QED
    BY <1>1, <2>1, <2>2
<1> QED
  BY <1>2, <1>3 DEF LoopInv

LEMMA ServeClosingStep ==
  ASSUME LoopInv, NEW d \in Conns, ServeClosing(d)
  PROVE  LoopInv'
<1>1. /\ todo' = todo \ {d}
      /\ UNCHANGED <<stage, quiet, late, overrun, input, expired, phase, signals>>
      /\ \/ /\ StartClock(d) /\ UNCHANGED doomed
            /\ bye' = [bye EXCEPT ![d] = "sent"]
         \/ doomed' = doomed \cup {d} /\ UNCHANGED <<bye, left>>
  BY DEF ServeClosing
<1>2. LoopTypeOK'
  <2>1. left' \in [Conns -> 0..Unset]
    BY <1>1, LoopConstants DEF LoopInv, LoopTypeOK, StartClock, Unset
  <2> QED
    BY <1>1, <2>1 DEF LoopInv, LoopTypeOK, signals
<1>3. \A c \in Conns : Silent(c)'
  <2>1. CASE StartClock(d)
    BY <1>1, <1>2, <2>1, ClockStarted
  <2>2. CASE UNCHANGED left
    BY <1>1, <2>2, SilenceKept DEF LoopInv, Silent
  <2> QED
    BY <1>1, <2>1, <2>2
<1> QED
  BY <1>2, <1>3 DEF LoopInv

LEMMA ServeStep ==
  ASSUME LoopInv, NEW d \in Conns, Serve(d)
  PROVE  LoopInv'
<1>1. /\ todo' = todo \ {d} /\ UNCHANGED <<stage, quiet, bye, expired, phase, signals>>
  BY DEF Serve
<1>2. CASE /\ input' = [input EXCEPT ![d] = "none"] /\ StartClock(d)
           /\ late' = late \ {d} /\ overrun' = overrun \ {d} /\ UNCHANGED doomed
  <2>1. LoopTypeOK'
    <3>1. left' \in [Conns -> 0..Unset]
      BY <1>2, LoopConstants DEF LoopInv, LoopTypeOK, StartClock, Unset
    <3> QED
      BY <1>1, <1>2, <3>1 DEF LoopInv, LoopTypeOK, signals
  <2>2. \A c \in Conns \ {d} : input'[c] = input[c]
             /\ (c \in late \cup overrun => c \in late' \cup overrun')
    BY <1>2 DEF LoopInv, LoopTypeOK
  <2>3. \A c \in Conns : Silent(c)'
    BY <1>1, <1>2, <2>1, <2>2, ClockStarted
  <2> QED
    BY <2>1, <2>3 DEF LoopInv
<1>3. CASE doomed' = doomed \cup {d} /\ UNCHANGED <<input, left, late, overrun>>
  BY <1>1, <1>3 DEF LoopInv, LoopTypeOK, Silent, signals
<1> QED
  BY <1>2, <1>3 DEF Serve

\* The other steps of the loop move streams between its tables.
LEMMA TableStep ==
  ASSUME LoopInv,
         Kill \/ SowAndReap \/ EndPrepare \/ EnterPoll \/ Handle
           \/ PollReturns \/ Accept \/ EndBatch \/ UNCHANGED loop
  PROVE  LoopInv'
<1>1. UNCHANGED <<clocks, input, bye>>
  BY DEF Kill, SowAndReap, EndPrepare, EnterPoll, Handle, PollReturns, Accept,
         EndBatch, loop, kernel
<1>2. /\ stage' \in [Conns -> {"gone", "queued", "added", "in"}]
      /\ doomed' \in SUBSET Conns /\ expired' = expired
      /\ phase' \in Phases /\ todo' \subseteq Conns \cup {Listener}
      /\ signal' \in BOOLEAN /\ told' \in BOOLEAN /\ stop' \in BOOLEAN
  <2> USE DEF LoopInv, LoopTypeOK, signals, clocks, Phases
  <2>1. CASE Kill \/ UNCHANGED loop
    BY <2>1 DEF Kill, loop
  <2>2. CASE SowAndReap
    BY <2>2 DEF SowAndReap
  <2>3. CASE EndPrepare \/ EnterPoll \/ Handle \/ EndBatch
    BY <2>3 DEF EndPrepare, EnterPoll, Handle, EndBatch
  <2>4. CASE PollReturns
    <3>1. Ready \subseteq Conns \cup {Listener}
      BY DEF Ready, InTable
    <3> QED
      BY <2>4, <3>1 DEF PollReturns
  <2>5. CASE Accept
    BY <2>5 DEF Accept
  <2> QED
    BY <2>1, <2>2, <2>3, <2>4, <2>5
<1>3. LoopTypeOK'
  BY <1>1, <1>2 DEF LoopInv, LoopTypeOK, clocks
<1>4. ASSUME NEW c \in Conns
      PROVE  Silent(c)'
  BY <1>1, <1>4, SilenceKept DEF clocks
<1> QED
  BY <1>3, <1>4 DEF LoopInv

LEMMA LoopStepInv ==
  ASSUME LoopInv, [LoopNext]_loop
  PROVE  LoopInv' /\ expired' \ expired \subseteq late \cup overrun
<1>1. ASSUME NEW c \in Conns, Prepare(c)
      PROVE  expired' \ expired \subseteq late \cup overrun
  <2>1. expired' = expired \/ (expired' = expired \cup {c} /\ left[c] = 0)
    BY <1>1 DEF Prepare, TimedOut
  <2>2. left[c] = 0 => c \in late \cup overrun
    BY DEF LoopInv, Silent
  <2> QED
    BY <2>1, <2>2
<1>2. ASSUME NEW c \in Conns, \/ Open(c) \/ Send(c) \/ Close(c) \/ Drain(c)
                               \/ Serve(c) \/ ServeClosing(c)
      PROVE  expired' \subseteq expired
  BY <1>2 DEF Open, Send, Close, Drain, Serve, ServeClosing
<1>3. ASSUME Tick \/ Kill \/ SowAndReap \/ EndPrepare \/ EnterPoll \/ Handle
               \/ PollReturns \/ Accept \/ EndBatch \/ UNCHANGED loop
      PROVE  expired' = expired
  BY <1>3 DEF Tick, Kill, SowAndReap, EndPrepare, EnterPoll, Handle, PollReturns,
              Accept, EndBatch, loop
<1>4. CASE \E c \in Conns : Prepare(c)
  BY <1>1, <1>4, PrepareStep
<1>5. CASE \E c \in Conns : \/ Open(c) \/ Send(c) \/ Close(c) \/ Drain(c)
                             \/ Serve(c) \/ ServeClosing(c)
  BY <1>2, <1>5, OpenStep, SendStep, CloseStep, DrainStep, ServeStep,
     ServeClosingStep
<1>6. CASE Tick \/ Kill \/ SowAndReap \/ EndPrepare \/ EnterPoll \/ Handle
             \/ PollReturns \/ Accept \/ EndBatch \/ UNCHANGED loop
  BY <1>3, <1>6, TickStep, TableStep
<1> QED
  BY <1>4, <1>5, <1>6 DEF LoopNext, LoopStep

\* The loop's tables, clocks and signals keep their types, for any number of
\* connections and any timeout.
THEOREM LoopTypeCorrect == LoopSpec => []LoopTypeOK
<1>1. LoopInv => LoopTypeOK
  BY DEF LoopInv
<1>2. LoopInv /\ [LoopNext]_loop => LoopInv'
  BY LoopStepInv
<1> QED
  BY <1>1, <1>2, LoopInitInv, PTL DEF LoopSpec

\* A connection is closed for idleness only when its client was silent for
\* longer than the timeout since it was last read, or when time passed with
\* its data unread.
THEOREM OthersStay == LoopSpec => OnlyTheIdleExpire
<1>1. LoopInv /\ [LoopNext]_loop => LoopInv'
  BY LoopStepInv
<1>2. LoopInv /\ [LoopNext]_loop
        => [expired' \ expired \subseteq late \cup overrun]_loop
  BY LoopStepInv
<1> QED
  BY <1>1, <1>2, LoopInitInv, PTL DEF LoopSpec, OnlyTheIdleExpire

---------------------------------------------------------------------------
(* The database of counters. *)

\* While write_out runs and no file has failed, what is changed is pending.
Visited ==
  writing /\ ~bad => \A k \in DOMAIN hash : hash[k].changed => k \in pending

Inv == TypeOK /\ CleanEntries /\ Visited

---------------------------------------------------------------------------
LEMMA EntryType ==
  ASSUME TypeOK, NEW k \in Keys
  PROVE  Entry(k) \in Entries
BY ConfDBConstants DEF TypeOK, Entry, Entries, Cached, Files, Numbers

\* What a reader sees of a counter that exists is what its entry holds.
LEMMA EntrySeen ==
  ASSUME TypeOK, NEW k \in Keys, Exists(k)
  PROVE  /\ Entry(k).text = Seen[k]
         /\ Entry(k).changed => Cached(k) /\ hash[k].changed
BY DEF Exists, Entry, Seen, Cached

LEMMA LoadKeeps ==
  ASSUME TypeOK, CleanEntries, NEW k \in Keys, Operating, Load(k)
  PROVE  TypeOK' /\ CleanEntries' /\ Seen' = Seen
<1>1. CASE ~Exists(k)
  BY <1>1 DEF Operating, Load, TypeOK, CleanEntries, Seen, Cached
<1>2. CASE Exists(k)
  <2>1. /\ DOMAIN hash' = DOMAIN hash \cup {k}
        /\ hash'[k] = Entry(k)
        /\ \A j \in DOMAIN hash : j # k => hash'[j] = hash[j]
    BY <1>2 DEF Load, With
  <2>2. hash' = [j \in DOMAIN hash' |-> hash'[j]]
    BY <1>2 DEF Load, With
  <2>3. TypeOK'
    BY <2>1, <2>2, EntryType DEF TypeOK, Operating
  <2>4. CleanEntries'
    BY <1>2, <2>1, EntrySeen DEF CleanEntries, Operating, Entry, Exists,
       Cached
  <2>5. \A j \in Keys : Seen'[j] = Seen[j]
    BY <1>2, <2>1, EntrySeen DEF Seen, Cached, Operating
  <2> QED BY <2>3, <2>4, <2>5 DEF Seen
<1> QED BY <1>1, <1>2

LEMMA PutWrites ==
  ASSUME TypeOK, CleanEntries, NEW k \in Keys, NEW v \in Numbers, Operating,
         Put(k, v)
  PROVE  TypeOK' /\ CleanEntries' /\ Seen' = [Seen EXCEPT ![k] = v]
<1> DEFINE e == Set(Entry(k), v)
<1>1. /\ DOMAIN hash' = DOMAIN hash \cup {k}
      /\ hash'[k] = e
      /\ \A j \in DOMAIN hash : j # k => hash'[j] = hash[j]
      /\ hash' = [j \in DOMAIN hash' |-> hash'[j]]
  BY DEF Put, With
<1>2. e \in Entries /\ e.text = v
  BY EntryType DEF Set, Entries
<1>3. ~e.changed => Entry(k).text = v /\ ~Entry(k).changed /\ ~Entry(k).raw
  BY EntryType DEF Set, Entries
<1>4. ~Entry(k).raw => Cached(k) /\ Entry(k) = hash[k]
  BY DEF Entry
<1> HIDE DEF e
<1>5. TypeOK' BY <1>1, <1>2 DEF TypeOK, Operating
<1>6. CleanEntries'
  <2>1. ~e.changed => disk[k] = v
    BY <1>3, <1>4 DEF CleanEntries, Cached
  <2> QED BY <1>1, <1>2, <2>1 DEF CleanEntries, Operating
<1>7. \A j \in Keys : Seen'[j] = IF j = k THEN v ELSE Seen[j]
  BY <1>1, <1>2 DEF Seen, Cached, Operating
<1> QED BY <1>5, <1>6, <1>7 DEF Seen

---------------------------------------------------------------------------
\* Every operation keeps the invariant and is a write of the store, or
\* nothing at all.
LEMMA OperationStep ==
  ASSUME Inv, NEW k \in Keys, Operation(k)
  PROVE  /\ Inv'
         /\ \/ UNCHANGED <<Seen, disk, life>>
            \/ \E v \in Numbers : Store!Write(k, v)
<1> USE DEF Inv
<1>1. Operating BY DEF Operation, Get, Increment, Decrement
<1>2. Visited' BY <1>1 DEF Visited, Operating
<1>3. CASE Load(k) BY <1>1, <1>2, <1>3, LoadKeeps DEF Operating
<1>4. ASSUME NEW v \in Numbers, Put(k, v)
      PROVE  Inv' /\ Store!Write(k, v)
  BY <1>1, <1>2, <1>4, PutWrites DEF Operating, Store!Write
<1>5. Readable(k) => Number(k) \in Nat
  <2>1. Exists(k) => Entry(k).text \in Numbers \cup {Torn}
    BY EntryType DEF Entries
  <2> QED BY <2>1 DEF Readable, Number, Numbers
<1>6. Load(k) \/ \E v \in Numbers : Put(k, v)
  <2>1. ASSUME NEW amt \in Amounts, NEW max \in Amounts,
               Increment(k, amt, max)
        PROVE  Load(k) \/ \E v \in Numbers : Put(k, v)
    <3>1. Number(k) + amt \in Numbers
      BY <1>5, <2>1, ConfDBConstants DEF Increment, Numbers
    <3> QED BY <2>1, <3>1 DEF Increment
  <2>2. ASSUME NEW amt \in Amounts, Decrement(k, amt)
        PROVE  Load(k) \/ \E v \in Numbers : Put(k, v)
    <3>1. Number(k) \in Numbers
      BY <2>2, EntryType, ConfDBConstants DEF Decrement, Readable, Number,
         Entries, Numbers
    <3>2. amt \in Nat BY ConfDBConstants
    <3>3. CASE amt > Number(k) BY <2>2, <3>3 DEF Decrement
    <3>4. CASE ~(amt > Number(k))
      <4>1. Number(k) - amt \in Numbers
        BY <3>1, <3>2, <3>4, ConfDBConstants DEF Numbers
      <4> QED BY <2>2, <3>4, <4>1 DEF Decrement
    <3> QED BY <3>3, <3>4
  <2> QED BY <2>1, <2>2 DEF Operation, Get
<1> QED BY <1>3, <1>4, <1>6

\* write_out visits an entry: the store flushes it, or nothing happens.
LEMMA WritingStep ==
  ASSUME Inv, NEW k \in Keys, Writing(k)
  PROVE  /\ Inv'
         /\ UNCHANGED <<Seen, disk, life>> \/ Store!Flush(k)
<1> USE DEF Inv
<1>1. CASE SkipUnchanged(k)
  BY <1>1 DEF SkipUnchanged, TypeOK, CleanEntries, Visited, Seen, Cached
<1>2. CASE WriteFile(k)
  <2>1. k \in DOMAIN hash BY <1>2 DEF WriteFile, TypeOK
  <2>2. hash[k] \in Entries BY <2>1 DEF TypeOK
  <2>3. /\ DOMAIN hash' = DOMAIN hash
        /\ hash'[k] = [hash[k] EXCEPT !.changed = FALSE]
        /\ \A j \in DOMAIN hash : j # k => hash'[j] = hash[j]
        /\ hash' = [j \in DOMAIN hash' |-> hash'[j]]
    BY <1>2, <2>1 DEF WriteFile, TypeOK
  <2>4. /\ hash'[k] \in Entries /\ ~hash'[k].changed
        /\ hash'[k].text = hash[k].text
    BY <2>2, <2>3 DEF Entries
  <2>5. \A j \in Keys : disk'[j] = IF j = k THEN hash[k].text ELSE disk[j]
    BY <1>2 DEF WriteFile, TypeOK
  <2>6. TypeOK'
    <3>1. disk' \in [Keys -> Files]
      BY <1>2, <2>2 DEF WriteFile, TypeOK, Entries, Files
    <3> QED BY <1>2, <2>3, <2>4, <3>1 DEF WriteFile, TypeOK
  <2>7. CleanEntries'
    BY <2>3, <2>4, <2>5 DEF CleanEntries, TypeOK
  <2>8. Visited' BY <1>2, <2>3, <2>4 DEF Visited, WriteFile
  <2>9. \A j \in Keys : Seen'[j] = Seen[j]
    BY <2>1, <2>3, <2>4, <2>5 DEF Seen, Cached
  <2>10. disk' = [disk EXCEPT ![k] = Seen[k]]
    BY <1>2, <2>1 DEF WriteFile, Seen, Cached
  <2>11. Seen' = Seen /\ life' = life BY <1>2, <2>9 DEF WriteFile, Seen
  <2> QED BY <2>6, <2>7, <2>8, <2>10, <2>11 DEF Store!Flush
<1>3. CASE FailFile(k)
  <2>1. k \in DOMAIN hash /\ hash[k].changed
    BY <1>3 DEF FailFile, TypeOK
  <2>2. /\ \A j \in Keys : j # k => disk'[j] = disk[j]
        /\ disk' \in [Keys -> Files]
    BY <1>3 DEF FailFile, TypeOK, Files
  <2>3. TypeOK' BY <1>3, <2>2 DEF FailFile, TypeOK
  <2>4. CleanEntries'
    BY <1>3, <2>1, <2>2 DEF FailFile, CleanEntries, TypeOK
  <2>5. Visited' BY <1>3 DEF FailFile, Visited
  <2>6. \A j \in Keys : Seen'[j] = Seen[j]
    BY <1>3, <2>1, <2>2 DEF FailFile, Seen, Cached
  <2>7. Seen' = Seen BY <2>6 DEF Seen
  <2>8. disk' \in {disk, [disk EXCEPT ![k] = Torn]} /\ life' = life
    BY <1>3 DEF FailFile
  <2> QED BY <2>3, <2>4, <2>5, <2>7, <2>8 DEF Store!Flush
<1> QED BY <1>1, <1>2, <1>3 DEF Writing

LEMMA InitInv == Init => Inv /\ Store!Init
<1> SUFFICES ASSUME Init PROVE Inv /\ Store!Init OBVIOUS
<1>1. DOMAIN hash = {} /\ hash = [j \in DOMAIN hash |-> hash[j]]
  BY DEF Init, Uncached
<1>2. Inv
  BY <1>1 DEF Init, Inv, TypeOK, CleanEntries, Visited
<1>3. Seen = disk BY <1>1 DEF Init, Seen, Cached
<1>4. disk \in [Keys -> Store!Contents]
  BY DEF Init, Files, Store!Contents
<1>5. life = 0 BY DEF Init
<1> QED BY <1>2, <1>3, <1>4, <1>5 DEF Store!Init

LEMMA StartSyncStep ==
  ASSUME Inv, StartSync PROVE Inv' /\ UNCHANGED <<Seen, disk, life>>
BY DEF StartSync, Inv, TypeOK, CleanEntries, Visited, Seen, Cached

LEMMA EndSyncStep ==
  ASSUME Inv, EndSync PROVE Inv' /\ UNCHANGED <<Seen, disk, life>>
<1>1. CASE bad
  BY <1>1 DEF EndSync, Inv, TypeOK, CleanEntries, Visited, Seen, Cached
<1>2. CASE ~bad
  <2>1. \A j \in DOMAIN hash : disk[j] = hash[j].text
    BY <1>2 DEF EndSync, Inv, CleanEntries, Visited
  <2>2. DOMAIN hash' = {} /\ hash' = [j \in DOMAIN hash' |-> hash'[j]]
    BY <1>2 DEF EndSync, Uncached
  <2>3. \A j \in Keys : Seen'[j] = Seen[j]
    BY <2>1, <2>2 DEF EndSync, Seen, Cached
  <2>4. Inv'
    BY <2>2 DEF EndSync, Inv, TypeOK, CleanEntries, Visited
  <2> QED BY <2>3, <2>4 DEF Seen, EndSync
<1> QED BY <1>1, <1>2 DEF Inv, TypeOK

LEMMA CrashStep ==
  ASSUME Inv, Crash PROVE Inv' /\ Store!Crash
<1>1. DOMAIN hash' = {} /\ hash' = [j \in DOMAIN hash' |-> hash'[j]]
  BY DEF Crash, Uncached
<1>2. pending \subseteq Keys BY DEF Inv, TypeOK
<1>3. disk' \in {disk} \cup {[disk EXCEPT ![k] = Torn] : k \in Keys}
  BY <1>2 DEF Crash
<1>4. disk' \in [Keys -> Files] BY <1>3 DEF Inv, TypeOK, Files
<1>5. Inv'
  <2>1. life' \in {0, 1} BY DEF Crash, Inv, TypeOK
  <2>2. TypeOK' BY <1>1, <1>4, <2>1 DEF Crash, TypeOK
  <2>3. CleanEntries' /\ Visited'
    BY <1>1 DEF Crash, CleanEntries, Visited
  <2> QED BY <2>2, <2>3 DEF Inv
<1>6. Seen' = disk' BY <1>1, <1>4 DEF Seen, Cached
<1>7. life' = 1 - life BY DEF Crash
<1> QED BY <1>3, <1>5, <1>6, <1>7 DEF Store!Crash

LEMMA NextInv == Inv /\ [Next]_vars => Inv' /\ [Store!Next]_(Store!vars)
<1> SUFFICES ASSUME Inv, [Next]_vars
             PROVE  Inv' /\ [Store!Next]_(Store!vars)
  OBVIOUS
<1> USE DEF Store!Next, Store!vars
<1>1. ASSUME NEW k \in Keys, Operation(k)
      PROVE  Inv' /\ [Store!Next]_(Store!vars)
  BY <1>1, OperationStep
<1>2. ASSUME NEW k \in Keys, Writing(k)
      PROVE  Inv' /\ [Store!Next]_(Store!vars)
  BY <1>2, WritingStep
<1>3. CASE StartSync BY <1>3, StartSyncStep
<1>4. CASE EndSync BY <1>4, EndSyncStep
<1>5. CASE Crash BY <1>5, CrashStep
<1>6. CASE UNCHANGED vars
  BY <1>6 DEF vars, Inv, TypeOK, CleanEntries, Visited, Seen, Cached
<1> QED BY <1>1, <1>2, <1>3, <1>4, <1>5, <1>6 DEF Next

---------------------------------------------------------------------------
\* The cache and the files keep their types.
THEOREM TypeCorrect == Spec => []TypeOK
<1>1. Inv => TypeOK BY DEF Inv
<1> QED BY <1>1, InitInv, NextInv, PTL DEF Spec

\* Value::_changed is right: what is not marked agrees with its file.
THEOREM UnmarkedIsClean == Spec => []CleanEntries
<1>1. Inv => CleanEntries BY DEF Inv
<1> QED BY <1>1, InitInv, NextInv, PTL DEF Spec

\* sync drops the cache only when every entry has reached its file.
THEOREM SyncLosesNothing == Spec => []DropsOnlyClean
<1>1. Inv => DropsOnlyClean
  BY DEF Inv, Visited, CleanEntries, DropsOnlyClean
<1> QED BY <1>1, InitInv, NextInv, PTL DEF Spec

\* ConfDB with its cache implements a store of counters without one.
THEOREM ImplementsStore == Spec => Refines
<1> QED BY InitInv, NextInv, PTL DEF Spec, Store!Spec, Refines
=============================================================================
