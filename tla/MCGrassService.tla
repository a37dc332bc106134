---------------------------- MODULE MCGrassService ----------------------------
(* A small instance of Login: two users whose passwords differ and one who *)
(* is unknown, on one connection.                                          *)
EXTENDS Login

CONSTANTS alice, bob, carol, right, wrong, sandbox, low, high

MCText == {alice, bob, carol, right, wrong}
MCNumber == [n \in {low, high} |-> IF n = low THEN 1337 ELSE 65536]

Start == << <<"base", " ", sandbox>>, <<"port", " ", low, "#", "port", " ", high>> >>

UserLine(u, p) == <<"user", " ", u, " ", p>>

\* A line overridden, one in a comment, one with a word too many.
MCFile ==
  Start \o <<UserLine(alice, wrong), UserLine(bob, wrong), UserLine(alice, right),
             <<"#", " ", "user", " ", carol, " ", right>>,
             UserLine(carol, right) \o <<" ", wrong>> >>

MCCredentials == parseFromFile(MCFile).credentials

\* Lines in the format, with a comment, and out of it in every way.
MCLines ==
  {UserLine(alice, right), UserLine(alice, wrong), UserLine(bob, right),
   UserLine(alice, right) \o <<"#", bob>>,
   UserLine(alice, right) \o <<" ", "#", bob>>, UserLine(alice, right) \o <<" ", bob>>,
   <<"user", " ", alice>>, <<"user", " ", alice, " ">>, <<"user", " ">>,
   <<"user", " ", " ", alice, " ", right>>,
   <<"user", " ", alice, " ", "#", " ", bob>>, <<"#", "user", " ", alice, " ", right>>,
   << >>, <<"port", " ", high>>, <<"port", " ", " ", low>>,
   <<"base", " ", " ">>, <<"base", " ", "#", sandbox>>}

MCFiles == {Start \o f : f \in BoundedSeq(MCLines, 3)}

\* Whatever is in the file, documented or not and in any order, the users are
\* those its documented format gives, with the passwords given last.
ASSUME FormatFollowed ==
  \A file \in MCFiles : IsFileOfLines(file) /\ FollowsFormat(file)

L(cmd, arg) == [cmd |-> cmd, arg |-> arg]

\* Every line that matters to a login, in every order.
MCInput ==
  {L("login", u) : u \in {alice, bob, carol}}
    \cup {L("pass", p) : p \in {right, wrong}}
    \cup {L("login", None), L("pass", None), L("logout", None),
          L("blank", None), L("whoami", None)}

FiveLines == [c \in Conn |-> 5]
===============================================================================
