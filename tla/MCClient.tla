------------------------------- MODULE MCClient -------------------------------
(* A small instance of Client: one user who logs in and transfers files.   *)
EXTENDS Client

CONSTANTS alice, right, dir, x, y

MCText == {alice, right, dir, x, y, <<x>>, <<y>>, <<dir, x>>}
MCCredentials == [u \in {alice} |-> right]

L(cmd, arg) == [indented |-> FALSE, line |-> [cmd |-> cmd, arg |-> arg]]

\* What becomes of the connection after "exit" can happen after any line.
MCInput ==
  {L("login", alice), L("pass", right),
   L("get", <<dir, x>>), L("get", <<y>>), L("put", <<x>>),
   [indented |-> TRUE, line |-> [cmd |-> "get", arg |-> <<y>>]]}

\* Without indented lines.
MCPlainInput == {i \in MCInput : ~i.indented /\ i.line.cmd # "put"}
===============================================================================
