------------------------------- MODULE Commands -------------------------------
(***************************************************************************)
(* What a session does with one line of input: Session::execute and the    *)
(* methods it calls (src/session.cpp), as operators.  The login automaton  *)
(* is modelled in full.  The commands that work on files or the clock, get *)
(* and put apart (ls, cd, mkdir, rm, grep, date), are one word, "files":   *)
(* all of them leave the login state alone, and answer with output or an   *)
(* error.  What they do to directories is the subject of Directory.        *)
(***************************************************************************)
EXTENDS Integers

CONSTANTS
  Text,         \* the words clients use as user names and passwords
  Credentials,  \* the "user" lines of grass.conf: user name to password
  None          \* an empty std::optional, or an argument that is missing

ASSUME CredentialsAssumption ==
  /\ DOMAIN Credentials \subseteq Text
  /\ \A u \in DOMAIN Credentials : Credentials[u] \in Text
ASSUME NoneAssumption == None \notin Text

(***************************************************************************)
(* A line, split at white space.  "exit" is the line that reads exactly    *)
(* "exit"; any other line whose first word is exit is "exit ...".  "blank" *)
(* has no word at all, "other" starts with a word that is no command.      *)
(***************************************************************************)
PRIVILEGED_COMMANDS == {"files", "get", "put", "whoami", "w", "logout"}

Word == PRIVILEGED_COMMANDS
          \cup {"login", "pass", "ping", "exit", "exit ...", "blank", "other"}

Line == [cmd : Word, arg : Text \cup {None}]

\* Session::_state
State == [username : Text \cup {None}, login_attempt : Text \cup {None}]

NewState == [username |-> None, login_attempt |-> None]

\* The lines that neither interrupt nor finish a login attempt.
Harmless(line) ==
  line.cmd = "blank" \/ (line.cmd = "pass" /\ line.arg = None)

(***************************************************************************)
(* A reply: its text, with "" for the empty reply of a command that        *)
(* succeeds without output, and the users that whoami or w names (w names  *)
(* a user as often as there are sessions of that user).                    *)
(***************************************************************************)
Users == [Text -> Nat]

Nobody == [u \in Text |-> 0]

Says(text) == [text |-> text, users |-> Nobody]

Names(users) == [text |-> "users", users |-> users]

Message == {"", "output", "users", "failed", "Missing username",
            "Missing password", "Missing host", "Login interrupted",
            "Wrong credentials", "Access denied", "Invalid command"}

Reply == [text : Message, users : Users]

Outcome(state, reply) == [state |-> state, reply |-> reply]

-------------------------------------------------------------------------------
(* Mutant: the password of any user will do. *)
checkLoginAnyUser(username, password) ==
  /\ username \in DOMAIN Credentials
  /\ \E u \in DOMAIN Credentials : Credentials[u] = password

(* Config::checkLogin *)
checkLogin(username, password) ==
  /\ username \in DOMAIN Credentials
  /\ Credentials[username] = password

executePass(s, password) ==
  IF checkLogin(s.login_attempt, password)
    THEN Outcome([username |-> s.login_attempt, login_attempt |-> None], Says(""))
    ELSE Outcome([s EXCEPT !.login_attempt = None], Says("Wrong credentials"))

\* Output of a command, or the error of a GrassException.
executePing(s) == {Outcome(s, Says("output")), Outcome(s, Says("failed"))}

\* Likewise; cd, mkdir, rm and a search without a match answer nothing.
executeFiles(s) ==
  {Outcome(s, Says(text)) : text \in {"", "output", "failed"}}

\* get and put answer with the port of the data connection, or an error.
executeTransfer(s) == {Outcome(s, Says("output")), Outcome(s, Says("failed"))}

\* online: the users of all sessions of the server, for w.
executePrivileged(s, line, online) ==
  CASE line.cmd = "whoami" ->
         {Outcome(s, Names([u \in Text |-> IF u = s.username THEN 1 ELSE 0]))}
    [] line.cmd = "w" -> {Outcome(s, Names(online))}
    [] line.cmd = "logout" -> {Outcome([s EXCEPT !.username = None], Says(""))}
    [] line.cmd = "files" -> executeFiles(s)
    [] line.cmd \in {"get", "put"} -> executeTransfer(s)

(* Mutant: a line other than "pass" does not reset the login attempt.      *)
executeDuringLoginLenient(s, line) ==
  CASE line.cmd # "pass" -> {Outcome(s, Says("Login interrupted"))}
    [] line.cmd = "pass" /\ line.arg = None ->
         {Outcome(s, Says("Missing password"))}
    [] line.cmd = "pass" /\ line.arg # None -> {executePass(s, line.arg)}

(* Mutant: the login attempt becomes "" where it should be reset.          *)
executeDuringLoginEmptied(s, line) ==
  CASE line.cmd # "pass" ->
         {Outcome([s EXCEPT !.login_attempt = ""], Says("Login interrupted"))}
    [] line.cmd = "pass" /\ line.arg = None ->
         {Outcome(s, Says("Missing password"))}
    [] line.cmd = "pass" /\ line.arg # None -> {executePass(s, line.arg)}

(* The login attempt is over with the next line, unless that is a "pass"   *)
(* without its argument.                                                   *)
executeDuringLogin(s, line) ==
  CASE line.cmd # "pass" ->
         {Outcome([s EXCEPT !.login_attempt = None], Says("Login interrupted"))}
    [] line.cmd = "pass" /\ line.arg = None ->
         {Outcome(s, Says("Missing password"))}
    [] line.cmd = "pass" /\ line.arg # None -> {executePass(s, line.arg)}

(* Mutant: privileged commands are not refused.                            *)
executeCommandUnchecked(s, line, online) ==
  CASE line.cmd = "login" /\ line.arg = None ->
         {Outcome(s, Says("Missing username"))}
    [] line.cmd = "login" /\ line.arg # None ->
         {Outcome([s EXCEPT !.login_attempt = line.arg], Says(""))}
    [] line.cmd = "ping" -> executePing(s)
    [] line.cmd = "exit ..." -> {Outcome(s, Says(""))}
    [] line.cmd \in PRIVILEGED_COMMANDS -> executePrivileged(s, line, online)
    [] line.cmd \in {"pass", "other"} -> {Outcome(s, Says("Invalid command"))}

(* Without a login attempt.  A GrassException thrown on the way becomes    *)
(* the reply that onNewData builds from it.                                *)
executeCommand(s, line, online) ==
  CASE line.cmd = "login" ->
         IF line.arg = None
           THEN {Outcome(s, Says("Missing username"))}
           ELSE {Outcome([s EXCEPT !.login_attempt = line.arg], Says(""))}
    [] line.cmd = "ping" ->
         IF line.arg = None
           THEN {Outcome(s, Says("Missing host"))}
           ELSE executePing(s)
    [] line.cmd = "exit ..." -> {Outcome(s, Says(""))}
    [] line.cmd \in PRIVILEGED_COMMANDS ->
         IF s.username # None
           THEN executePrivileged(s, line, online)
           ELSE {Outcome(s, Says("Access denied"))}
    [] line.cmd \in {"pass", "other"} -> {Outcome(s, Says("Invalid command"))}

(* Everything a line can lead to. *)
execute(s, line, online) ==
  IF line.cmd = "blank"
    THEN {Outcome(s, Says(""))}
    ELSE IF s.login_attempt # None
           THEN executeDuringLogin(s, line)
           ELSE executeCommand(s, line, online)
===============================================================================
