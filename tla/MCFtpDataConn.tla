--------------------------- MODULE MCFtpDataConn ---------------------------
(***************************************************************************)
(* FtpDataConn for TLC.  Listeners and transfers are interchangeable       *)
(* identities, so their permutations are a symmetry of every invariant.    *)
(* The members of a transfer that was deleted are never read again (the    *)
(* actions ask first whether a consumer is alive): states that differ only *)
(* in these are one to the runs that check invariants alone.               *)
(***************************************************************************)
EXTENDS FtpDataConn, TLC

Symmetry == Permutations(Xfers) \cup Permutations(Listeners)

Live(member, blank) ==
  [x \in Xfers |-> IF x \in h.alive THEN member[x] ELSE blank]

View ==
  <<[h EXCEPT !.in = Live(@, None), !.out = Live(@, None),
              !.buf = Live(@, "none"), !.clock = Live(@, "off")],
    phase, todo>>
============================================================================
