---------------------------- MODULE MCFtpSession -----------------------------
(* A small tree: a file that may not be written, and a directory with one    *)
(* that may. *)
EXTENDS FtpSession, TLC

MCArgs == {Arg(FALSE, <<>>), Arg(FALSE, <<"f">>), Arg(FALSE, <<"d">>),
           Arg(FALSE, <<"..", "f">>), Arg(TRUE, <<"d", ".", "g">>)}

MCTree ==
  (<<>> :> [kind |-> "dir", read |-> TRUE, write |-> TRUE, made |-> FALSE])
  @@ (<<"f">> :>
       [kind |-> "file", read |-> TRUE, write |-> FALSE, made |-> FALSE])
  @@ (<<"d">> :>
       [kind |-> "dir", read |-> TRUE, write |-> TRUE, made |-> FALSE])
  @@ (<<"d", "f">> :>
       [kind |-> "file", read |-> FALSE, write |-> TRUE, made |-> FALSE])
=============================================================================
