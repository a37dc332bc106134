------------------------------ MODULE ConfigFile ------------------------------
(***************************************************************************)
(* Config::parseFromFile (src/config.cpp): what the server makes of its    *)
(* configuration file.  A line is the sequence of its words, its spaces    *)
(* " " and its comment marks "#".                                          *)
(***************************************************************************)
EXTENDS Integers, SequencesExt

CONSTANT Number  \* from each word that begins with a number to its value

Space == " "
Separator == {Space, "#"}

Port == 0..65535

ASSUME NumberAssumption ==
  Number \in [DOMAIN Number -> Int] /\ DOMAIN Number \cap Separator = {}

\* Two words never follow each other directly, and none is empty.
IsLine(line) ==
  /\ line \in Seq(ToSet(line)) /\ "" \notin ToSet(line)
  /\ \A k \in 1..(Len(line) - 1) : {line[k], line[k + 1]} \cap Separator # {}

IsFileOfLines(file) ==
  file \in Seq(ToSet(file)) /\ \A i \in DOMAIN file : IsLine(file[i])

\* A Config when no line has been read.
Unread == [directory |-> << >>, port |-> -1, credentials |-> << >>]

\* In place of a Config: parseFromFile throws a GrassException.
Invalid == Unread

\* The position of the first token equal to t, or 0.
Find(line, t) == SelectInSeq(line, LAMBDA u : u = t)

removeComments(line) ==
  IF Find(line, "#") = 0 THEN line ELSE SubSeq(line, 1, Find(line, "#") - 1)

\* std::stoi, after white space; -1 when it throws.
stoi(text) ==
  LET i == SelectInSeq(text, LAMBDA u : u # Space)
  IN  IF i > 0 /\ text[i] \in DOMAIN Number THEN Number[text[i]] ELSE -1

\* A text without a space is one word, or empty.
WordOf(text) == IF text = << >> THEN "" ELSE text[1]

Entered(credentials, username, password) ==
  [u \in DOMAIN credentials \cup {username} |->
     IF u = username THEN password ELSE credentials[u]]

\* What follows "user ".  Without a space find() returns npos, which is not
\* told from a position: the whole text is both the name and, from npos + 1
\* on, the password.
addUser(credentials, text) ==
  LET index == Find(text, Space)
      username == IF index = 0 THEN text ELSE SubSeq(text, 1, index - 1)
      password == SubSeq(text, index + 1, Len(text))
  IN  IF index = 1 \/ Find(password, Space) # 0
        THEN credentials
        ELSE Entered(credentials, WordOf(username), WordOf(password))

Begins(line, key) == IsPrefix(<<key, Space>>, line)

parseLine(conf, rawLine) ==
  LET line == removeComments(rawLine)
      rest == SubSeq(line, 3, Len(line))
  IN  CASE Begins(line, "base") -> [conf EXCEPT !.directory = rest]
        [] Begins(line, "port") -> [conf EXCEPT !.port = stoi(rest)]
        [] Begins(line, "user") -> [conf EXCEPT !.credentials = addUser(@, rest)]
        [] OTHER -> conf

parseFromFile(file) ==
  LET conf[n \in 0..Len(file)] ==
        IF n = 0 THEN Unread ELSE parseLine(conf[n - 1], file[n])
      read == conf[Len(file)]
  IN  IF read.port \in Port /\ read.directory # << >> THEN read ELSE Invalid

-------------------------------------------------------------------------------
(***************************************************************************)
(* The format as grass.conf documents it: "# marks a comment", "Format:    *)
(* port port number" and "Format: user name pass".                         *)
(***************************************************************************)
\* The last line with this keyword.
IsLast(file, key, i) ==
  /\ Begins(file[i], key)
  /\ \A j \in DOMAIN file : j > i => ~Begins(file[j], key)

HasDirectory(line) == Len(line) >= 3 /\ line[3] # "#"

HasPort(line) ==
  \E k \in 3..Len(line) :
    /\ \A j \in 3..(k - 1) : line[j] = Space
    /\ line[k] \in DOMAIN Number /\ Number[line[k]] \in Port

Valid(file) ==
  /\ \E i \in DOMAIN file : IsLast(file, "base", i) /\ HasDirectory(file[i])
  /\ \E i \in DOMAIN file : IsLast(file, "port", i) /\ HasPort(file[i])

\* "user name pass", and a comment or nothing.
Documented(line) ==
  /\ Len(line) >= 5 /\ Begins(line, "user") /\ line[4] = Space
  /\ line[3] \notin Separator /\ line[5] \notin Separator
  /\ Len(line) = 5 \/ line[6] = "#"

IsAbout(line, u) == Begins(line, "user") /\ Len(line) >= 3 /\ line[3] = u

\* The password that a line is meant to give u, or the name or nothing for it
\* when the line ends with the name or the space after it.
Gives(line, u, p) ==
  /\ IsAbout(line, u)
  /\ IF Documented(line) THEN p = line[5] ELSE p \in {u, ""}

(***************************************************************************)
(* The last "base" and the last "port" line decide whether there is a      *)
(* configuration.  A documented user line counts unless a later line is    *)
(* about the same user, and every password comes from a line about its     *)
(* user that no documented line overrides, never from a comment or another *)
(* user's line.                                                            *)
(***************************************************************************)
FollowsFormat(file) ==
  LET users == parseFromFile(file).credentials IN
    /\ parseFromFile(file) # Invalid <=> Valid(file)
    /\ Valid(file) =>
      /\ \A i \in DOMAIN file : LET line == file[i] IN
           /\ Documented(line)
           /\ \A j \in DOMAIN file : j > i => ~IsAbout(file[j], line[3])
           => line[3] \in DOMAIN users /\ users[line[3]] = line[5]
      /\ \A u \in DOMAIN users \ {""} : \E i \in DOMAIN file :
           /\ Gives(file[i], u, users[u])
           /\ \A j \in DOMAIN file :
                j > i => ~(Documented(file[j]) /\ IsAbout(file[j], u))
===============================================================================
