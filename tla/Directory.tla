------------------------------ MODULE Directory ------------------------------
(***************************************************************************)
(* Sessions in a common directory tree: the class Directory and            *)
(* RemoveDirectoryRecursively (src/filesystem.cpp), and the commands of    *)
(* Session that move around in the tree or change it (src/session.cpp):    *)
(* cd, mkdir, rm, get, put and grep.  A session keeps its directory as a   *)
(* path; what is at that path can change under it.  Commands run one at a  *)
(* time; the worker threads of get and put end at any time between them.   *)
(*                                                                         *)
(* A command that is refused or fails only answers so: the actions are the *)
(* commands that change something.                                         *)
(***************************************************************************)
EXTENDS Integers, FiniteSets, SequencesExt

CONSTANTS
  Session,     \* the sessions, all logged in
  Name,        \* names of files and directories, of valid characters
  Arg,         \* bound: the path arguments that sessions give
  MaxPath,     \* the limit on a path, 128 characters, in components
  MaxWorkers,  \* bound: transfers at the same time
  None         \* a GrassException instead of a path

\* A string split at "/": "a/../b" is <<"a", "..", "b">>, "a/" is <<"a", "">>.
Token == Name \cup {"", ".", ".."}

ASSUME NameAssumption == Name \cap {"", ".", ".."} = {}
ASSUME ArgAssumption == \A arg \in Arg : arg \in Seq(Token) \ {<< >>, <<"">>}
ASSUME NoneAssumption == None \notin Seq(Name)
ASSUME BoundAssumption == MaxPath \in Nat /\ MaxWorkers \in Nat

VARIABLES
  tree,     \* "dir" or "file" for every path there is; << >> is the base
  cwd,      \* _directory._path of each session
  workers,  \* a bag: the transfers that have not ended
  up        \* the server has not terminated

vars == <<tree, cwd, workers, up>>

\* from is where the session was, and valid says that it was a directory.
Worker == [path : Seq(Name), from : Seq(Name), valid : BOOLEAN,
           kind : {"get", "put"}]

IsDir(p) == p \in DOMAIN tree /\ tree[p] = "dir"

IsFile(p) == p \in DOMAIN tree /\ tree[p] = "file"

TypeOK ==
  /\ DOMAIN tree \subseteq Seq(Name) /\ tree \in [DOMAIN tree -> {"dir", "file"}]
  /\ \A p \in DOMAIN tree : Len(p) <= MaxPath
  /\ cwd \in [Session -> Seq(Name)]
  /\ IsABag(workers) /\ BagToSet(workers) \subseteq Worker
  /\ up \in BOOLEAN

-------------------------------------------------------------------------------
(* Paths *)

IsAbsolute(arg) == arg[1] = "" /\ Len(arg) > 1

\* Mutant: ".." at the base stays there.
TokenizePathClamped(path, arg) ==
  LET to[n \in 0..Len(arg)] ==
        IF n = 0 THEN path
          ELSE CASE arg[n] \in {"", "."} -> to[n - 1]
                 [] arg[n] = ".." -> IF to[n - 1] = << >> THEN << >>
                                                          ELSE Front(to[n - 1])
                 [] arg[n] \in Name -> Append(to[n - 1], arg[n])
  IN  IF IsAbsolute(arg) THEN None ELSE to[Len(arg)]

\* Directory::TokenizePath of arg, where _path is path.
TokenizePath(path, arg) ==
  LET to[n \in 0..Len(arg)] ==
        IF n = 0 THEN path
          ELSE CASE to[n - 1] = None -> None
                 [] to[n - 1] # None /\ arg[n] \in {"", "."} -> to[n - 1]
                 [] to[n - 1] # None /\ arg[n] = ".." ->
                      IF to[n - 1] = << >> THEN None ELSE Front(to[n - 1])
                 [] to[n - 1] # None /\ arg[n] \in Name ->
                      Append(to[n - 1], arg[n])
  IN  IF IsAbsolute(arg) THEN None ELSE to[Len(arg)]

\* Mutant: a path of any length.
PathFromRootUnchecked(s, arg) == TokenizePath(cwd[s], arg)

\* Directory::PathFromRoot.
PathFromRoot(s, arg) ==
  LET path == TokenizePath(cwd[s], arg)
  IN  IF path # None /\ Len(path) > MaxPath THEN None ELSE path

\* Mutant: the directories before it stay.
ExtractFilenameAsGiven(arg) == arg

ExtractFilename(arg) == <<arg[Len(arg)]>>

-------------------------------------------------------------------------------
(* The commands *)

Init ==
  /\ tree = [p \in {<< >>} |-> "dir"]
  /\ cwd = [s \in Session |-> << >>]
  /\ workers = EmptyBag
  /\ up = TRUE

Cd(s, arg) ==
  LET path == PathFromRoot(s, arg) IN
    /\ up
    /\ path # None
    /\ IsDir(path)
    /\ cwd' = [cwd EXCEPT ![s] = path]
    /\ UNCHANGED <<tree, workers, up>>

\* mkdir(2) and open(2) with O_CREAT need the parent; the base's is the
\* directory the server was started in.
CanCreate(path) ==
  path \notin DOMAIN tree /\ (path = << >> \/ IsDir(Front(path)))

Created(path, kind) ==
  [p \in DOMAIN tree \cup {path} |-> IF p = path THEN kind ELSE tree[p]]

\* The valid characters include neither "." nor "/".
Mkdir(s, arg) ==
  LET path == PathFromRoot(s, arg) IN
    /\ up
    /\ Len(arg) = 1 /\ arg[1] \in Name
    /\ path # None
    /\ CanCreate(path)
    /\ tree' = Created(path, "dir")
    /\ UNCHANGED <<cwd, workers, up>>

\* RemoveDirectoryRecursively: path and everything below it.
RemoveAll(path) ==
  [p \in {q \in DOMAIN tree : ~IsPrefix(path, q)} |-> tree[p]]

Rm(s, arg) ==
  LET path == PathFromRoot(s, arg) IN
    /\ up
    /\ arg \notin {<<".">>, <<"..">>}
    /\ path \in DOMAIN tree
    /\ tree' = RemoveAll(path)
    /\ UNCHANGED <<cwd, workers, up>>

AddWorker(s, path, kind) ==
  /\ BagCardinality(workers) < MaxWorkers
  /\ workers' = workers (+) SetToBag({[path |-> path, kind |-> kind,
                                      from |-> cwd[s], valid |-> IsDir(cwd[s])]})

Get(s, arg) ==
  LET path == PathFromRoot(s, arg) IN
    /\ up
    /\ path # None
    /\ IsFile(path)
    /\ AddWorker(s, path, "get")
    /\ UNCHANGED <<tree, cwd, up>>

\* Of the path given only the file name counts.  The file is created, or
\* truncated, before the worker starts; it stays when run() fails to start one.
Put(s, arg) ==
  LET path == PathFromRoot(s, ExtractFilename(arg)) IN
    /\ up
    /\ path # None
    /\ IsFile(path) \/ CanCreate(path)
    /\ tree' = Created(path, "file")
    /\ AddWorker(s, path, "put") \/ UNCHANGED workers
    /\ UNCHANGED <<cwd, up>>

\* SearchDirectory cuts the directory's path and one character more off the
\* path of each file it finds.  When the session's directory is itself a file
\* by now, and matches, substr() throws an exception that nothing catches.
Grep(s) ==
  /\ up
  /\ IsFile(cwd[s])
  /\ up' = FALSE
  /\ UNCHANGED <<tree, cwd, workers>>

\* The catch block's remove(3): a file, or a directory that is empty.
Removable(path) ==
  path \in DOMAIN tree /\ \A p \in DOMAIN tree : ~IsStrictPrefix(path, p)

\* A worker succeeds, or fails and removes whatever has its file's name.
WorkerEnds(w) ==
  /\ up
  /\ workers' = workers (-) SetToBag({w})
  /\ \/ UNCHANGED tree
     \/ tree' = IF Removable(w.path) THEN RemoveAll(w.path) ELSE tree
  /\ UNCHANGED <<cwd, up>>

Next ==
  \/ \E s \in Session :
       \/ \E arg \in Arg : Cd(s, arg) \/ Mkdir(s, arg) \/ Rm(s, arg)
                             \/ Get(s, arg) \/ Put(s, arg)
       \/ Grep(s)
  \/ \E w \in BagToSet(workers) : WorkerEnds(w)

Spec == Init /\ [][Next]_vars

-------------------------------------------------------------------------------
(* Properties *)

(***************************************************************************)
(* A reference for the meaning of a path: the kernel follows it one        *)
(* component at a time in the tree as it is, through directories only.     *)
(***************************************************************************)
Outside == <<"..">>  \* above the base
Missing == <<"">>

Step(place, token) ==
  CASE token \in {"", "."} -> place
    [] token = ".." -> IF place = << >> THEN Outside ELSE Front(place)
    [] token \in Name -> IF Append(place, token) \in DOMAIN tree
                           THEN Append(place, token) ELSE Missing

Follow(place, token) ==
  IF place \in {Outside, Missing} THEN place
    ELSE IF IsDir(place) THEN Step(place, token) ELSE Missing

KernelPath(path, arg) ==
  LET at[n \in 0..Len(arg)] ==
        IF n = 0 THEN path ELSE Follow(at[n - 1], arg[n])
  IN  IF IsAbsolute(arg) THEN Outside ELSE at[Len(arg)]

(***************************************************************************)
(* A path means to a session what it means to the kernel: where the kernel *)
(* can follow it inside the base, TokenizePath leads to the same place,    *)
(* and where it leads outside, TokenizePath refuses it, although it never  *)
(* looks at the tree, and others change the tree all the time.             *)
(***************************************************************************)
PathsAgreeWithKernel ==
  \A s \in Session, arg \in Arg :
    LET there == KernelPath(cwd[s], arg) IN
      /\ there \in DOMAIN tree => TokenizePath(cwd[s], arg) = there
      /\ there = Outside => TokenizePath(cwd[s], arg) = None

(***************************************************************************)
(* src/session.cpp:393, of executePut: "The file will be saved in the      *)
(* current working directory".  So it is, whatever path the client gives,  *)
(* as long as that directory exists.  When others have removed it, or it   *)
(* is a file by now, a put can still reach something, with "x/" or "..":   *)
(* but only what has taken the directory's own place, or its parent's.     *)
(***************************************************************************)
UploadsStayInDirectory ==
  \A w \in BagToSet(workers) :
    w.kind = "put" =>
      \/ w.valid /\ \E n \in Name : w.path = Append(w.from, n)
      \/ ~w.valid /\ w.path = w.from
      \/ ~w.valid /\ w.from # << >> /\ w.path = Front(w.from)

===============================================================================
