---------------------------- MODULE CommandsProofs ----------------------------
(* What Session::execute can do with a line, for any users and passwords:  *)
(* lemmas for the proofs about GrassService and Server.                    *)
EXTENDS Commands, TLAPS

-------------------------------------------------------------------------------
(* What a line does to a session *)

(* The kinds of outcome that the login state machine tells apart. *)
Keeps(s, line, o) ==
  /\ o.state = s
  /\ s.login_attempt # None => Harmless(line)
  /\ line.cmd = "logout" => o.reply.text # ""

EndsAttempt(s, line, o) ==
  /\ s.login_attempt # None
  /\ o.state = [s EXCEPT !.login_attempt = None]
  /\ line.cmd = "logout" => o.reply.text # ""

StartsAttempt(s, line, o) ==
  /\ s.login_attempt = None
  /\ line.cmd = "login" /\ line.arg \in Text
  /\ o.reply.text = ""
  /\ o.state = [s EXCEPT !.login_attempt = line.arg]

LogsIn(s, line, o) ==
  /\ s.login_attempt # None
  /\ line.cmd = "pass"
  /\ checkLogin(s.login_attempt, line.arg)
  /\ o.state = [username |-> s.login_attempt, login_attempt |-> None]

LogsOut(s, line, o) ==
  /\ s.login_attempt = None
  /\ line.cmd = "logout"
  /\ o.state = [s EXCEPT !.username = None]

(* A privileged command that was not refused ran for the user logged in. *)
Privileged(s, line, o) ==
  /\ line.cmd \in PRIVILEGED_COMMANDS
  /\ o.reply.text \notin {"Access denied", "Login interrupted"}
  => /\ s.username \in Text
     /\ line.cmd = "whoami" => o.reply.users[s.username] = 1

LEMMA NobodyType == Nobody \in Users
  BY SMT DEF Nobody, Users

LEMMA OutcomeFields ==
  ASSUME NEW s \in State, NEW text \in Message
  PROVE  /\ Outcome(s, Says(text)) \in [state : State, reply : Reply]
         /\ Outcome(s, Says(text)).state = s
         /\ Outcome(s, Says(text)).reply.text = text
  BY NobodyType DEF Outcome, Says, Reply

LEMMA NamesFields ==
  ASSUME NEW s \in State, NEW users \in Users
  PROVE  /\ Outcome(s, Names(users)) \in [state : State, reply : Reply]
         /\ Outcome(s, Names(users)).state = s
         /\ Outcome(s, Names(users)).reply.text = "users"
         /\ Outcome(s, Names(users)).reply.users = users
  BY DEF Outcome, Names, Reply, Message

LEMMA StateFields ==
  ASSUME NEW s \in State, NEW t \in Text \cup {None}
  PROVE  /\ [s EXCEPT !.login_attempt = t] \in State
         /\ [s EXCEPT !.username = t] \in State
         /\ s.login_attempt # None => s.login_attempt \in Text
         /\ s.username # None => s.username \in Text
  BY DEF State

(* A line that leaves the session alone and is answered with a message.    *)
LEMMA KeepsSays ==
  ASSUME NEW s \in State, NEW line, NEW text \in Message, NEW o,
         o = Outcome(s, Says(text)),
         s.login_attempt # None => Harmless(line),
         line.cmd = "logout" => text # "",
         /\ line.cmd \in PRIVILEGED_COMMANDS
         /\ text \notin {"Access denied", "Login interrupted"}
         => s.username \in Text /\ line.cmd # "whoami"
  PROVE  /\ o \in [state : State, reply : Reply]
         /\ Keeps(s, line, o)
         /\ Privileged(s, line, o)
<1>1. /\ o \in [state : State, reply : Reply]
      /\ o.state = s /\ o.reply.text = text
  BY OutcomeFields
<1>2. QED  BY <1>1 DEF Keeps, Privileged

(* Likewise one that names users. *)
LEMMA KeepsNames ==
  ASSUME NEW s \in State, NEW line, NEW users \in Users, NEW o,
         o = Outcome(s, Names(users)),
         s.login_attempt = None, s.username \in Text, line.cmd # "logout",
         line.cmd = "whoami" => users[s.username] = 1
  PROVE  /\ o \in [state : State, reply : Reply]
         /\ Keeps(s, line, o)
         /\ Privileged(s, line, o)
<1>1. /\ o \in [state : State, reply : Reply]
      /\ o.state = s /\ o.reply.text = "users" /\ o.reply.users = users
  BY NamesFields
<1>2. QED  BY <1>1 DEF Keeps, Privileged

(* An attempt is running: it ends, is kept, or succeeds. *)
LEMMA DuringLogin ==
  ASSUME NEW s \in State, NEW line \in Line, s.login_attempt # None,
         NEW o \in executeDuringLogin(s, line)
  PROVE  /\ o \in [state : State, reply : Reply]
         /\ line.cmd # "blank" =>
              Keeps(s, line, o) \/ EndsAttempt(s, line, o) \/ LogsIn(s, line, o)
         /\ Privileged(s, line, o)
<1>. USE DEF Message
<1>1. CASE line.cmd # "pass"
  <2>. DEFINE t == [s EXCEPT !.login_attempt = None]
  <2>1. o = Outcome(t, Says("Login interrupted"))
    BY <1>1 DEF executeDuringLogin
  <2>2. t \in State  BY StateFields
  <2>. HIDE DEF t
  <2>3. o \in [state : State, reply : Reply] /\ o.state = t
    BY <2>1, <2>2, OutcomeFields
  <2>4. o.reply.text = "Login interrupted"  BY <2>1 DEF Outcome, Says
  <2>5. QED  BY <2>3, <2>4 DEF t, EndsAttempt, Privileged
<1>2. CASE line.cmd = "pass" /\ line.arg = None
  <2>1. o = Outcome(s, Says("Missing password"))
    BY <1>2 DEF executeDuringLogin
  <2>2. QED
    BY <1>2, <2>1, KeepsSays DEF Harmless, PRIVILEGED_COMMANDS
<1>3. CASE line.cmd = "pass" /\ line.arg # None
  <2>1. o = executePass(s, line.arg)  BY <1>3 DEF executeDuringLogin
  <2>2. CASE checkLogin(s.login_attempt, line.arg)
    <3>. DEFINE t == [username |-> s.login_attempt, login_attempt |-> None]
    <3>1. t \in State  BY StateFields DEF State
    <3>2. o = Outcome(t, Says(""))  BY <2>1, <2>2 DEF executePass
    <3>. HIDE DEF t
    <3>3. o \in [state : State, reply : Reply] /\ o.state = t
      BY <3>1, <3>2, OutcomeFields
    <3>4. QED
      BY <1>3, <2>2, <3>3 DEF t, LogsIn, Privileged, PRIVILEGED_COMMANDS
  <2>3. CASE ~checkLogin(s.login_attempt, line.arg)
    <3>. DEFINE t == [s EXCEPT !.login_attempt = None]
    <3>1. t \in State  BY StateFields
    <3>2. o = Outcome(t, Says("Wrong credentials"))
      BY <2>1, <2>3 DEF executePass
    <3>. HIDE DEF t
    <3>3. o \in [state : State, reply : Reply] /\ o.state = t
      BY <3>1, <3>2, OutcomeFields
    <3>4. QED
      BY <1>3, <3>3 DEF t, EndsAttempt, Privileged, PRIVILEGED_COMMANDS
  <2>4. QED  BY <2>2, <2>3
<1>4. QED  BY <1>1, <1>2, <1>3

(* No attempt is running: the session is kept, an attempt starts, or the   *)
(* user is logged out.                                                     *)
LEMMA WithoutAttempt ==
  ASSUME NEW s \in State, NEW line \in Line, s.login_attempt = None,
         NEW online \in Users, line.cmd \notin {"exit", "blank"},
         NEW o \in executeCommand(s, line, online)
  PROVE  /\ o \in [state : State, reply : Reply]
         /\ \/ Keeps(s, line, o)
            \/ StartsAttempt(s, line, o)
            \/ LogsOut(s, line, o)
         /\ Privileged(s, line, o)
<1>. USE DEF Message
<1>1. CASE line.cmd = "login"
  <2>1. CASE line.arg = None
    <3>1. o = Outcome(s, Says("Missing username"))
      BY <1>1, <2>1 DEF executeCommand, PRIVILEGED_COMMANDS
    <3>2. QED  BY <1>1, <3>1, KeepsSays DEF PRIVILEGED_COMMANDS
  <2>2. CASE line.arg # None
    <3>. DEFINE t == [s EXCEPT !.login_attempt = line.arg]
    <3>1. o = Outcome(t, Says(""))
      BY <1>1, <2>2 DEF executeCommand, PRIVILEGED_COMMANDS
    <3>2. line.arg \in Text  BY <2>2 DEF Line
    <3>3. t \in State  BY <3>2, StateFields
    <3>. HIDE DEF t
    <3>4. o \in [state : State, reply : Reply] /\ o.state = t
      BY <3>1, <3>3, OutcomeFields
    <3>5. o.reply.text = ""  BY <3>1 DEF Outcome, Says
    <3>6. QED
      BY <1>1, <3>2, <3>4, <3>5 DEF t, StartsAttempt, Privileged, PRIVILEGED_COMMANDS
  <2>3. QED  BY <2>1, <2>2
<1>2. CASE line.cmd \in {"ping", "exit ...", "pass", "other"}
  <2>1. PICK text \in Message : o = Outcome(s, Says(text))
    <3>1. CASE line.cmd = "ping" /\ line.arg = None
      BY <3>1 DEF executeCommand, PRIVILEGED_COMMANDS
    <3>2. CASE line.cmd = "ping" /\ line.arg # None
      BY <3>2 DEF executeCommand, executePing, PRIVILEGED_COMMANDS
    <3>3. CASE line.cmd = "exit ..."
      BY <3>3 DEF executeCommand, PRIVILEGED_COMMANDS
    <3>4. CASE line.cmd \in {"pass", "other"}
      BY <3>4 DEF executeCommand, PRIVILEGED_COMMANDS
    <3>5. QED  BY <1>2, <3>1, <3>2, <3>3, <3>4
  <2>2. QED  BY <1>2, <2>1, KeepsSays DEF PRIVILEGED_COMMANDS
<1>3. CASE line.cmd \in PRIVILEGED_COMMANDS /\ s.username = None
  <2>1. o = Outcome(s, Says("Access denied"))
    BY <1>3 DEF executeCommand, PRIVILEGED_COMMANDS
  <2>2. QED  BY <1>3, <2>1, KeepsSays DEF PRIVILEGED_COMMANDS
<1>4. CASE line.cmd \in PRIVILEGED_COMMANDS /\ s.username # None
  <2>1. o \in executePrivileged(s, line, online) /\ s.username \in Text
    BY <1>4, StateFields DEF executeCommand, PRIVILEGED_COMMANDS
  <2>2. CASE line.cmd = "whoami"
    <3>1. o = Outcome(s, Names([u \in Text |-> IF u = s.username THEN 1 ELSE 0]))
      BY <2>1, <2>2 DEF executePrivileged
    <3>2. [u \in Text |-> IF u = s.username THEN 1 ELSE 0] \in Users
      BY SMT DEF Users
    <3>3. [u \in Text |-> IF u = s.username THEN 1 ELSE 0][s.username] = 1
      BY <2>1
    <3>4. QED  BY <2>1, <2>2, <3>1, <3>2, <3>3, KeepsNames
  <2>3. CASE line.cmd = "w"
    <3>1. o = Outcome(s, Names(online))
      BY <2>1, <2>3 DEF executePrivileged
    <3>2. QED  BY <2>1, <2>3, <3>1, KeepsNames
  <2>4. CASE line.cmd = "logout"
    <3>. DEFINE t == [s EXCEPT !.username = None]
    <3>1. o = Outcome(t, Says(""))  BY <2>1, <2>4 DEF executePrivileged
    <3>2. t \in State  BY StateFields
    <3>. HIDE DEF t
    <3>3. o \in [state : State, reply : Reply] /\ o.state = t
      BY <3>1, <3>2, OutcomeFields
    <3>4. QED  BY <2>1, <2>4, <3>3 DEF t, LogsOut, Privileged
  <2>5. CASE line.cmd = "files"
    <3>1. PICK text \in Message : o = Outcome(s, Says(text))
      BY <2>1, <2>5 DEF executePrivileged, executeFiles
    <3>2. QED  BY <2>1, <2>5, <3>1, KeepsSays
  <2>6. CASE line.cmd \in {"get", "put"}
    <3>1. PICK text \in Message : o = Outcome(s, Says(text))
      BY <2>1, <2>6 DEF executePrivileged, executeTransfer
    <3>2. QED  BY <2>1, <2>6, <3>1, KeepsSays
  <2>7. QED  BY <1>4, <2>2, <2>3, <2>4, <2>5, <2>6 DEF PRIVILEGED_COMMANDS
<1>5. QED  BY <1>1, <1>2, <1>3, <1>4 DEF Line, Word

(* Every line does one of five things to the login state. *)
LEMMA ExecuteKinds ==
  ASSUME NEW s \in State, NEW line \in Line, line.cmd # "exit",
         NEW online \in Users, NEW o \in execute(s, line, online)
  PROVE  /\ o \in [state : State, reply : Reply]
         /\ \/ Keeps(s, line, o)
            \/ EndsAttempt(s, line, o)
            \/ StartsAttempt(s, line, o)
            \/ LogsIn(s, line, o)
            \/ LogsOut(s, line, o)
         /\ Privileged(s, line, o)
<1>1. CASE line.cmd = "blank"
  <2>1. o = Outcome(s, Says(""))  BY <1>1 DEF execute
  <2>2. QED
    BY <1>1, <2>1, OutcomeFields
    DEF Message, Keeps, Harmless, Privileged, PRIVILEGED_COMMANDS
<1>2. CASE line.cmd # "blank" /\ s.login_attempt # None
  <2>1. o \in executeDuringLogin(s, line)  BY <1>2 DEF execute
  <2>2. QED  BY <1>2, <2>1, DuringLogin
<1>3. CASE line.cmd # "blank" /\ s.login_attempt = None
  <2>1. o \in executeCommand(s, line, online)  BY <1>3 DEF execute
  <2>2. QED  BY <1>3, <2>1, WithoutAttempt
<1>4. QED  BY <1>1, <1>2, <1>3
===============================================================================
