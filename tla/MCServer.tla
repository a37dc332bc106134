------------------------------- MODULE MCServer -------------------------------
(* Small instances of Server: one user, and lines of every kind that the   *)
(* event loop and the login sessions tell apart.                           *)
EXTENDS Server, TLC

CONSTANTS alice, right, c1

MCCredentials == [u \in {alice} |-> right]

L(cmd, arg) == [cmd |-> cmd, arg |-> arg]

\* Logging in and looking around.
MCInput == {L("login", alice), L("pass", right), L("w", None)}

\* The event loop alone: a line that is executed and one that ends it.
MCTraffic == {L("ping", None), L("exit", None)}

\* A long dialogue on one connection, a shorter one on every other.
LongLines == [c \in Conn |-> IF c = c1 THEN 3 ELSE 2]

\* Two lines on one connection; the others come and go.
LinesOfOne == [c \in Conn |-> IF c = c1 THEN 2 ELSE 0]

\* Descriptors are interchangeable, and so are connections of equal length.
FdSymmetry == Permutations(Fd)
===============================================================================
