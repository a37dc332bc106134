-------------------------------- MODULE Login --------------------------------
(***************************************************************************)
(* The service with the users of a configuration file: what the            *)
(* constructor of ServerManager reads (src/server_manager.cpp) is what     *)
(* checkLogin looks up for every session.                                  *)
(***************************************************************************)
EXTENDS GrassService, ConfigFile

CONSTANT File  \* the configuration file

ASSUME FileAssumption == IsFileOfLines(File)
ASSUME ReadAssumption == Credentials = parseFromFile(File).credentials

(***************************************************************************)
(* From the text of the configuration file to the session: whoever is      *)
(* logged in has a line in the file, has given the password of that line   *)
(* on the same connection, and no later documented line is about the same  *)
(* user.  parseFromFile, checkLogin and the login dialogue together.       *)
(***************************************************************************)
LoginByFile ==
  \A c \in Conn : LET u == session[c].username IN
    u \notin {None, ""} =>
      \E i \in DOMAIN File : \E k \in DOMAIN log[c] :
        /\ log[c][k].line.cmd = "pass"
        /\ Gives(File[i], u, log[c][k].line.arg)
        /\ \A j \in DOMAIN File :
             j > i => ~(Documented(File[j]) /\ IsAbout(File[j], u))
===============================================================================
