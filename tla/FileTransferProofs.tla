-------------------------- MODULE FileTransferProofs --------------------------
(* Theorems about FileTransfer, for any transfers, names, file sizes and   *)
(* number of descriptors.                                                  *)
EXTENDS FileTransfer, FiniteSetTheorems, TLAPS

-------------------------------------------------------------------------------
(* The inductive invariant *)

\* The worker, or the session before it, has the file open.
Active == {"accepting", "sending", "receiving", "closing", "failing"}

Puts(t) == job[t] # None /\ job[t].kind = "put"

Gets(t) == job[t] # None /\ job[t].kind = "get"

\* Where a worker is tells what it does and which descriptors it holds.
WorkersOK ==
  \A t \in Transfer :
    /\ pc[t] = "none" <=> job[t] = None
    /\ <<"file", t>> \in open <=> pc[t] \in Active
    /\ pc[t] = "sending" => Gets(t)
    /\ pc[t] = "receiving" => Puts(t)
    /\ pc[t] \in {"none", "refused", "accepting"} => moved[t] = 0 /\ got[t] = << >>

SizesOK == \A i \in Inode : Len(content[i]) <= MaxSize + 1

\* i is a file that was created under the name p.
CreatedAs(i, p) ==
  /\ i \in Path => i = p
  /\ i \in Transfer => job[i] # None /\ job[i].path = p

\* A file never has a second name, nor a new one; last is of the right inode.
NamesOK ==
  /\ \A p \in Path : Exists(p) => CreatedAs(dir[p], p)
  /\ \A t \in Transfer : job[t] # None => CreatedAs(job[t].inode, job[t].path)
  /\ \A i \in Inode :
       last[i] # None => Puts(last[i]) /\ job[last[i]].inode = i

\* Two puts, or a get and a put, on one inode: the history has noted it for
\* the put that came last, and for the get.
OverlapsOK ==
  \A s, t \in Transfer :
    /\ s # t /\ Puts(s) /\ job[t] # None /\ job[s].inode = job[t].inode
    /\ pc[s] \in Active
    => /\ Puts(t) /\ last[job[t].inode] = t => t \in overlapped
       /\ Gets(t) /\ pc[t] \in Active => t \in overlapped

\* The bytes of a put are counted against the size announced, and are what
\* its file holds as long as nobody interferes.
UploadOK(t) ==
  /\ moved[t] <= sent[t]
  /\ pc[t] \in {"accepting", "receiving"} => moved[t] <= job[t].size
  /\ pc[t] = "closing" => moved[t] = job[t].size
  /\ pc[t] \in {"finishing", "done"} =>
       moved[t] = job[t].size \/ dir[job[t].path] # job[t].inode
  /\ last[job[t].inode] = t /\ t \notin overlapped =>
       content[job[t].inode] = [k \in 1..moved[t] |-> <<t, k>>]

UploadsOK == \A t \in Transfer : Puts(t) => UploadOK(t)

\* What a get has sent is a part of the file, which is as it was opened.
DownloadOK(t) ==
  /\ pc[t] \in Active /\ t \notin overlapped =>
       /\ Len(content[job[t].inode]) = job[t].size
       /\ moved[t] <= job[t].size
       /\ got[t] = [k \in 1..moved[t] |-> content[job[t].inode][k]]
  /\ pc[t] \in {"sending", "closing"} => client[t] # "absent"
  /\ pc[t] = "closing" /\ client[t] = "connected" /\ t \notin overlapped =>
       moved[t] = job[t].size

DownloadsOK == \A t \in Transfer : Gets(t) => DownloadOK(t)

IInv ==
  /\ TypeOK /\ WorkersOK /\ SizesOK /\ NamesOK
  /\ OverlapsOK /\ UploadsOK /\ DownloadsOK

-------------------------------------------------------------------------------
(* The descriptor table *)

LEMMA OpenIsFinite ==
  ASSUME TypeOK
  PROVE  IsFiniteSet(open)
<1>1. IsFiniteSet({"file"} \cup {"listen"} \cup {"data"})
  <2>1. IsFiniteSet({"file"})  BY FS_Singleton
  <2>2. IsFiniteSet({"file"} \cup {"listen"})  BY <2>1, FS_AddElement
  <2>3. QED  BY <2>2, FS_AddElement
<1>2. {"file"} \cup {"listen"} \cup {"data"} = {"file", "listen", "data"}
  OBVIOUS
<1>3. IsFiniteSet({"file", "listen", "data"} \X Transfer)
  BY <1>1, <1>2, TransferAssumption, FS_Product
<1>4. QED  BY <1>3, FS_Subset DEF TypeOK

LEMMA OneMore ==
  ASSUME TypeOK, NEW d
  PROVE  /\ Cardinality(open) \in Nat
         /\ IsFiniteSet(open \cup {d})
         /\ Cardinality(open \cup {d}) \in Nat
         /\ Cardinality(open \cup {d}) <= Cardinality(open) + 1
<1>1. IsFiniteSet(open)  BY OpenIsFinite
<1>2. /\ IsFiniteSet(open \cup {d})
      /\ Cardinality(open \cup {d}) =
           IF d \in open THEN Cardinality(open) ELSE Cardinality(open) + 1
  BY <1>1, FS_AddElement
<1>3. Cardinality(open) \in Nat /\ Cardinality(open \cup {d}) \in Nat
  BY <1>1, <1>2, FS_CardinalityType
<1>4. QED  BY <1>2, <1>3

LEMMA TwoMore ==
  ASSUME TypeOK, NEW d, NEW e
  PROVE  /\ Cardinality(open \cup {d, e}) \in Nat
         /\ Cardinality(open \cup {d, e}) <= Cardinality(open) + 2
<1>1. /\ Cardinality(open) \in Nat
      /\ IsFiniteSet(open \cup {d})
      /\ Cardinality(open \cup {d}) \in Nat
      /\ Cardinality(open \cup {d}) <= Cardinality(open) + 1
  BY OneMore
<1>2. (open \cup {d}) \cup {e} = open \cup {d, e}  OBVIOUS
<1>3. /\ IsFiniteSet(open \cup {d, e})
      /\ Cardinality(open \cup {d, e}) =
           IF e \in open \cup {d} THEN Cardinality(open \cup {d})
                                  ELSE Cardinality(open \cup {d}) + 1
  BY <1>1, <1>2, FS_AddElement
<1>4. Cardinality(open \cup {d, e}) \in Nat
  BY <1>3, FS_CardinalityType
<1>5. QED  BY <1>1, <1>3, <1>4

LEMMA OneLess ==
  ASSUME TypeOK, NEW d
  PROVE  Cardinality(open \ {d}) <= MaxFds
<1>1. IsFiniteSet(open)  BY OpenIsFinite
<1>2. Cardinality(open \ {d}) =
        IF d \in open THEN Cardinality(open) - 1 ELSE Cardinality(open)
  BY <1>1, FS_RemoveElement
<1>3. Cardinality(open) \in Nat /\ Cardinality(open) <= MaxFds /\ MaxFds \in Nat
  BY <1>1, FS_CardinalityType, BoundAssumption DEF TypeOK
<1>4. QED  BY <1>2, <1>3

(* A job that is there is a record with fields of their types. *)
LEMMA JobType ==
  ASSUME TypeOK, NEW t \in Transfer, job[t] # None
  PROVE  /\ job[t] \in Job /\ job[t].kind \in {"get", "put"}
         /\ job[t].path \in Path /\ job[t].inode \in Inode
         /\ job[t].size \in 0..(MaxSize + 1)
         /\ Puts(t) \/ Gets(t)
  BY DEF TypeOK, Job, Puts, Gets

-------------------------------------------------------------------------------
(* The steps of a worker that only go on, and open or close descriptors *)

LEMMA Initially == Init => IInv
<1>. SUFFICES ASSUME Init  PROVE IInv
  OBVIOUS
<1>1. Cardinality({}) = 0  BY FS_EmptySet
<1>2. MaxSize \in Nat /\ MaxFds \in Nat  BY BoundAssumption
<1>3. \A i \in Inode : content[i] \in Seq(Block) /\ Len(content[i]) <= MaxSize + 1
  <2>1. ASSUME NEW i \in Path
        PROVE  /\ [k \in 1..MaxSize |-> <<i, k>>] \in Seq(Block)
               /\ Len([k \in 1..MaxSize |-> <<i, k>>]) = MaxSize
    BY <1>2 DEF Block, Inode
  <2>2. << >> \in Seq(Block) /\ Len(<< >>) = 0  OBVIOUS
  <2>3. ASSUME NEW i \in Inode
        PROVE  content[i] \in Seq(Block) /\ Len(content[i]) <= MaxSize + 1
    <3>1. CASE i \in Path
      <4>1. content[i] = [k \in 1..MaxSize |-> <<i, k>>]
        BY <3>1 DEF Init
      <4>2. QED  BY <1>2, <2>1, <3>1, <4>1
    <3>2. CASE i \notin Path
      <4>1. content[i] = << >>  BY <3>2 DEF Init
      <4>2. QED  BY <1>2, <2>2, <4>1
    <3>3. QED  BY <3>1, <3>2
  <2>4. QED  BY <2>3
<1>4. content \in [Inode -> Seq(Block)]
  BY <1>3, Zenon DEF Init
<1>5. TypeOK
  <2>1. \A p \in Path : p \in Inode  BY DEF Inode
  <2>2. dir \in [Path -> Inode \cup {None}]  BY <2>1 DEF Init
  <2>3. QED  BY <1>1, <1>2, <1>4, <2>2 DEF Init, TypeOK, Locations
<1>6. WorkersOK  BY DEF Init, WorkersOK, Active
<1>7. SizesOK  BY <1>3 DEF SizesOK
<1>8. NamesOK
  BY PathAssumption DEF Init, NamesOK, CreatedAs, Exists
<1>9. OverlapsOK /\ UploadsOK /\ DownloadsOK
  BY DEF Init, OverlapsOK, UploadsOK, UploadOK, DownloadsOK, DownloadOK, Puts, Gets
<1>10. QED  BY <1>5, <1>6, <1>7, <1>8, <1>9 DEF IInv

LEMMA GoOn ==
  ASSUME IInv, NEW t \in Transfer, NEW w \in Locations,
         UNCHANGED <<job, dir, content, moved, client, sent, got, last, overlapped>>,
         pc' = [pc EXCEPT ![t] = w],
         open' \subseteq {"file", "listen", "data"} \X Transfer,
         Cardinality(open') <= MaxFds,
         \A s \in Transfer :
           <<"file", s>> \in open'
             <=> IF s = t THEN w \in Active ELSE <<"file", s>> \in open,
         pc[t] \notin {"none", "refused"},
         w \notin {"none", "refused", "accepting"},
         w \in Active => pc[t] \in Active,
         w = "sending" => Gets(t) /\ client[t] # "absent",
         w = "receiving" => Puts(t) /\ pc[t] = "accepting",
         w = "closing" =>
           /\ Puts(t) => moved[t] = job[t].size
           /\ Gets(t) => /\ client[t] # "absent"
                         /\ client[t] = "connected" /\ t \notin overlapped =>
                              moved[t] = job[t].size,
         w \in {"finishing", "done"} /\ Puts(t) =>
           moved[t] = job[t].size \/ dir[job[t].path] # job[t].inode
  PROVE  IInv'
<1>. USE DEF IInv
<1>1. /\ pc'[t] = w
      /\ \A s \in Transfer : s # t => pc'[s] = pc[s]
  BY DEF TypeOK
<1>2. \A s : (Puts(s)' <=> Puts(s)) /\ (Gets(s)' <=> Gets(s))
  BY DEF Puts, Gets
<1>3. TypeOK'  BY DEF TypeOK
<1>4. WorkersOK'  BY <1>1, <1>2 DEF WorkersOK
<1>5. SizesOK'  BY DEF SizesOK
<1>6. NamesOK'  BY <1>2 DEF NamesOK, CreatedAs, Exists
<1>7. OverlapsOK'  BY <1>1, <1>2 DEF OverlapsOK
<1>8. UploadsOK'  BY <1>1, <1>2 DEF UploadsOK, UploadOK, Active
<1>9. DownloadsOK'  BY <1>1, <1>2 DEF DownloadsOK, DownloadOK, Active
<1>10. QED  BY <1>3, <1>4, <1>5, <1>6, <1>7, <1>8, <1>9

(* Facts about the worker of t that the steps below start from. *)
LEMMA Worker ==
  ASSUME IInv, NEW t \in Transfer, pc[t] \notin {"none"}
  PROVE  /\ job[t] # None /\ job[t] \in Job
         /\ job[t].kind \in {"get", "put"} /\ (Puts(t) \/ Gets(t))
         /\ Puts(t) => ~Gets(t)
         /\ job[t].inode \in Inode /\ job[t].path \in Path
         /\ job[t].size \in 0..(MaxSize + 1)
         /\ moved[t] \in 0..(MaxSize + 1) /\ sent[t] \in 0..(MaxSize + 1)
         /\ content[job[t].inode] \in Seq(Block)
         /\ Len(content[job[t].inode]) \in Nat
         /\ Len(content[job[t].inode]) <= MaxSize + 1
         /\ MaxSize \in Nat
<1>1. job[t] # None  BY DEF IInv, WorkersOK
<1>2. /\ job[t] \in Job /\ job[t].kind \in {"get", "put"}
      /\ job[t].path \in Path /\ job[t].inode \in Inode
      /\ job[t].size \in 0..(MaxSize + 1)
      /\ Puts(t) \/ Gets(t)
  BY <1>1, JobType DEF IInv
<1>3. /\ content[job[t].inode] \in Seq(Block)
      /\ Len(content[job[t].inode]) <= MaxSize + 1
  BY <1>2 DEF IInv, TypeOK, SizesOK
<1>4. Puts(t) => ~Gets(t)  BY DEF Puts, Gets
<1>5. moved[t] \in 0..(MaxSize + 1) /\ sent[t] \in 0..(MaxSize + 1)
  BY DEF IInv, TypeOK
<1>6. Len(content[job[t].inode]) \in Nat  BY <1>3
<1>7. QED  BY <1>1, <1>2, <1>3, <1>4, <1>5, <1>6, BoundAssumption

LEMMA AcceptStep ==
  ASSUME IInv, NEW t \in Transfer, Accept(t)
  PROVE  IInv'
<1>1. /\ pc[t] = "accepting" /\ client[t] # "absent" /\ Free >= 1
      /\ open' = open \cup {<<"data", t>>}
      /\ UNCHANGED <<job, dir, content, moved, client, sent, got, last, overlapped>>
  BY DEF Accept, fileVars, clientVars, historyVars
<1>2. PICK w \in {"sending", "receiving"} :
        /\ pc' = [pc EXCEPT ![t] = w]
        /\ w = "sending" <=> job[t].kind = "get"
  BY DEF Accept, Goto
<1>3. /\ job[t] # None /\ job[t].kind \in {"get", "put"}
  BY <1>1, Worker
<1>4. Cardinality(open') <= MaxFds
  <2>1. /\ Cardinality(open) \in Nat /\ Cardinality(open \cup {<<"data", t>>}) \in Nat
        /\ Cardinality(open \cup {<<"data", t>>}) <= Cardinality(open) + 1
    BY OneMore DEF IInv
  <2>2. MaxFds \in Nat  BY BoundAssumption
  <2>3. QED  BY <1>1, <2>1, <2>2 DEF Free
<1>5. open' \subseteq {"file", "listen", "data"} \X Transfer
  BY <1>1 DEF IInv, TypeOK
<1>6. \A s \in Transfer :
        <<"file", s>> \in open'
          <=> IF s = t THEN w \in Active ELSE <<"file", s>> \in open
  BY <1>1, <1>2 DEF IInv, WorkersOK, Active
<1>7. QED
  BY <1>1, <1>2, <1>3, <1>4, <1>5, <1>6, GoOn
  DEF Locations, Active, Puts, Gets

(* The steps that leave the descriptors alone. *)
LEMMA PlaceStep ==
  ASSUME IInv, NEW t \in Transfer,
         AcceptFails(t) \/ EndSend(t) \/ EndReceive(t)
  PROVE  IInv'
<1>1. /\ UNCHANGED <<job, dir, content, moved, client, sent, got, last, overlapped>>
      /\ open' = open
  BY DEF AcceptFails, EndSend, EndReceive, fileVars, clientVars, historyVars
<1>2. PICK w \in {"failing", "closing"} :
        /\ pc' = [pc EXCEPT ![t] = w]
        /\ w = "failing" => pc[t] \in {"accepting", "receiving"}
        /\ w = "closing" =>
             \/ /\ pc[t] = "sending"
                /\ \/ moved[t] >= job[t].size
                   \/ moved[t] >= Len(content[job[t].inode])
                   \/ client[t] = "closed"
             \/ pc[t] = "receiving" /\ ~(moved[t] < job[t].size)
  BY DEF AcceptFails, EndSend, EndReceive, Goto
<1>3. pc[t] \in {"accepting", "receiving", "sending"}  BY <1>2
<1>4. /\ job[t] # None /\ (Puts(t) \/ Gets(t)) /\ (Puts(t) => ~Gets(t))
      /\ job[t].size \in Nat /\ moved[t] \in Nat
      /\ Len(content[job[t].inode]) \in Nat
  BY <1>3, Worker
<1>5. /\ pc[t] = "sending" => Gets(t)
      /\ pc[t] = "receiving" => Puts(t)
      /\ pc[t] = "receiving" => moved[t] <= job[t].size
      /\ pc[t] = "sending" /\ t \notin overlapped =>
           /\ Len(content[job[t].inode]) = job[t].size
           /\ moved[t] <= job[t].size
      /\ pc[t] = "sending" => client[t] # "absent"
  BY DEF IInv, WorkersOK, UploadsOK, UploadOK, DownloadsOK, DownloadOK, Active
<1>6. w = "closing" /\ Puts(t) => moved[t] = job[t].size
  BY <1>2, <1>4, <1>5
<1>7. w = "closing" /\ Gets(t) =>
        /\ client[t] # "absent"
        /\ client[t] = "connected" /\ t \notin overlapped =>
             moved[t] = job[t].size
  BY <1>2, <1>4, <1>5
<1>8. \A s \in Transfer :
        <<"file", s>> \in open'
          <=> IF s = t THEN w \in Active ELSE <<"file", s>> \in open
  BY <1>1, <1>2, <1>3 DEF IInv, WorkersOK, Active
<1>9. /\ open' \subseteq {"file", "listen", "data"} \X Transfer
      /\ Cardinality(open') <= MaxFds
  BY <1>1 DEF IInv, TypeOK
<1>10. /\ w \in Locations /\ pc[t] \notin {"none", "refused"}
       /\ w \notin {"none", "refused", "accepting", "sending", "receiving",
                    "finishing", "done"}
       /\ pc[t] \in Active
  BY <1>2, <1>3 DEF Locations, Active
<1>11. QED
  BY <1>1, <1>2, <1>6, <1>7, <1>8, <1>9, <1>10, GoOn

(* The steps that close a descriptor. *)
LEMMA CloseStep ==
  ASSUME IInv, NEW t \in Transfer, CloseFile(t) \/ Finish(t)
  PROVE  IInv'
<1>1. UNCHANGED <<job, dir, content, moved, client, sent, got, last, overlapped>>
  BY DEF CloseFile, Finish, fileVars, clientVars, historyVars
<1>2. PICK w \in {"finishing", "removing", "done"}, d \in {"file", "listen"} :
        /\ pc' = [pc EXCEPT ![t] = w]
        /\ open' = open \ {<<d, t>>}
        /\ \/ pc[t] = "closing" /\ w = "finishing" /\ d = "file"
           \/ pc[t] = "failing" /\ w = "removing" /\ d = "file"
           \/ pc[t] = "finishing" /\ w = "done" /\ d = "listen"
  BY DEF CloseFile, Finish, Goto
<1>3. w \in {"finishing", "done"} /\ Puts(t) =>
        moved[t] = job[t].size \/ dir[job[t].path] # job[t].inode
  BY <1>2 DEF IInv, UploadsOK, UploadOK
<1>4. Cardinality(open') <= MaxFds  BY <1>2, OneLess DEF IInv
<1>5. open' \subseteq {"file", "listen", "data"} \X Transfer
  BY <1>2 DEF IInv, TypeOK
<1>6. \A s \in Transfer :
        <<"file", s>> \in open'
          <=> IF s = t THEN w \in Active ELSE <<"file", s>> \in open
  BY <1>2 DEF IInv, WorkersOK, Active
<1>7. /\ w \in Locations /\ pc[t] \notin {"none", "refused"}
      /\ w \notin {"none", "refused", "accepting", "sending", "receiving", "closing"}
      /\ w \notin Active
  BY <1>2 DEF Locations, Active
<1>8. QED  BY <1>1, <1>2, <1>3, <1>4, <1>5, <1>6, <1>7, GoOn

-------------------------------------------------------------------------------
(* The steps that move blocks *)

LEMMA OneBlockMore ==
  ASSUME NEW n \in Nat, NEW f, NEW s, s = [k \in 1..n |-> f[k]]
  PROVE  Append(s, f[n + 1]) = [k \in 1..(n + 1) |-> f[k]]
<1>. DEFINE S == {f[k] : k \in 1..(n + 1)}
<1>1. s \in Seq(S) /\ Len(s) = n /\ f[n + 1] \in S
  <2>1. \A k \in 1..n : f[k] \in S  OBVIOUS
  <2>. HIDE DEF S
  <2>2. s \in [1..n -> S]  BY <2>1
  <2>3. f[n + 1] \in S  BY DEF S
  <2>4. QED  BY <2>2, <2>3
<1>. HIDE DEF S
<1>. DEFINE x == f[n + 1]
<1>. DEFINE a == Append(s, x)
<1>2. x \in S  BY <1>1
<1>. HIDE DEF x
<1>3. /\ a \in Seq(S) /\ Len(a) = n + 1
      /\ \A k \in 1..n : a[k] = s[k]
      /\ a[n + 1] = x
  BY <1>1, <1>2
<1>. HIDE DEF a
<1>4. a \in [1..(n + 1) -> S]  BY <1>3
<1>5. ASSUME NEW k \in 1..(n + 1)  PROVE a[k] = f[k]
  <2>1. CASE k = n + 1  BY <1>3, <2>1 DEF x
  <2>2. CASE k # n + 1
    <3>1. k \in 1..n  BY <2>2
    <3>2. QED  BY <1>3, <3>1
  <2>3. QED  BY <2>1, <2>2
<1>6. a = [k \in 1..(n + 1) |-> f[k]]  BY <1>4, <1>5
<1>7. QED  BY <1>6 DEF a, x

LEMMA SendStep ==
  ASSUME IInv, NEW t \in Transfer, SendBlock(t)
  PROVE  IInv'
<1>. DEFINE i == job[t].inode
<1>. DEFINE m == moved[t]
<1>1. /\ pc[t] = "sending" /\ m < job[t].size /\ m < Len(content[i])
      /\ got' = [got EXCEPT ![t] = Append(@, content[i][m + 1])]
      /\ moved' = [moved EXCEPT ![t] = m + 1]
      /\ UNCHANGED <<job, pc, open, dir, content, client, sent, last, overlapped>>
  BY DEF SendBlock, fileVars, clientVars, historyVars
<1>2. /\ Gets(t) /\ ~Puts(t) /\ i \in Inode /\ content[i] \in Seq(Block)
      /\ m \in Nat /\ job[t].size \in 0..(MaxSize + 1) /\ MaxSize \in Nat
  <2>1. Gets(t)  BY <1>1 DEF IInv, WorkersOK
  <2>2. QED  BY <1>1, <2>1, Worker
<1>. USE DEF IInv
<1>. HIDE DEF i, m
<1>3. content[i][m + 1] \in Block  BY <1>1, <1>2
<1>4. /\ moved' \in [Transfer -> 0..(MaxSize + 1)]
      /\ moved'[t] = m + 1 /\ m + 1 <= job[t].size
      /\ \A s \in Transfer : s # t => moved'[s] = moved[s]
  BY <1>1, <1>2 DEF TypeOK, m
<1>5. /\ got' \in [Transfer -> Seq(Block)]
      /\ got'[t] = Append(got[t], content[i][m + 1])
      /\ \A s \in Transfer : s # t => got'[s] = got[s]
  <2>1. got \in [Transfer -> Seq(Block)]  BY DEF TypeOK
  <2>2. Append(got[t], content[i][m + 1]) \in Seq(Block)
    BY <1>3, <2>1
  <2>3. QED  BY <1>1, <2>1, <2>2
<1>6. \A s : (Puts(s)' <=> Puts(s)) /\ (Gets(s)' <=> Gets(s))
  BY <1>1 DEF Puts, Gets
<1>7. TypeOK'  BY <1>1, <1>4, <1>5 DEF TypeOK
<1>8. WorkersOK'  BY <1>1, <1>4, <1>5, <1>6 DEF WorkersOK
<1>9. SizesOK' /\ NamesOK' /\ OverlapsOK'
  BY <1>1, <1>6 DEF SizesOK, NamesOK, CreatedAs, Exists, OverlapsOK
<1>10. UploadsOK'  BY <1>1, <1>2, <1>4, <1>6 DEF UploadsOK, UploadOK
<1>11. t \notin overlapped =>
         got'[t] = [k \in 1..(m + 1) |-> content[i][k]]
  <2>1. SUFFICES ASSUME t \notin overlapped
                 PROVE  got'[t] = [k \in 1..(m + 1) |-> content[i][k]]
    OBVIOUS
  <2>2. got[t] = [k \in 1..m |-> content[i][k]]
    BY <1>1, <1>2, <2>1 DEF DownloadsOK, DownloadOK, Active, i, m
  <2>3. QED  BY <1>2, <1>5, <2>2, OneBlockMore
<1>12. DownloadsOK'
  <2>1. ASSUME NEW s \in Transfer, Gets(s), s # t
        PROVE  moved'[s] = moved[s] /\ got'[s] = got[s]
    BY <1>4, <1>5, <2>1
  <2>2. pc[t] # "closing" /\ client[t] # "absent"
    BY <1>1, <1>2 DEF DownloadsOK, DownloadOK
  <2>3. /\ t \notin overlapped => Len(content[i]) = job[t].size
        /\ moved'[t] <= job[t].size
        /\ t \notin overlapped =>
             got'[t] = [k \in 1..moved'[t] |-> content[i][k]]
    BY <1>1, <1>2, <1>4, <1>11 DEF DownloadsOK, DownloadOK, Active, i
  <2>4. DownloadOK(t)'  BY <1>1, <2>2, <2>3 DEF DownloadOK, i
  <2>5. ASSUME NEW s \in Transfer, Gets(s), s # t  PROVE DownloadOK(s)'
    BY <1>1, <2>1, <2>5 DEF DownloadsOK, DownloadOK
  <2>6. QED  BY <1>6, <2>4, <2>5 DEF DownloadsOK
<1>13. QED  BY <1>7, <1>8, <1>9, <1>10, <1>12

(* What a write at the file offset leaves of a file. *)
LEMMA WrittenBlocks ==
  ASSUME TypeOK, NEW t \in Transfer, NEW old \in Seq(Block), NEW n \in Nat,
         Len(old) <= MaxSize + 1, moved[t] + n <= MaxSize + 1
  PROVE  /\ Written(old, t, n) \in Seq(Block)
         /\ Len(Written(old, t, n)) <= MaxSize + 1
         /\ old = [k \in 1..moved[t] |-> <<t, k>>] =>
              Written(old, t, n) = [k \in 1..(moved[t] + n) |-> <<t, k>>]
<1>. DEFINE m == moved[t]
<1>. DEFINE l == IF Len(old) > m + n THEN Len(old) ELSE m + n
<1>. DEFINE b(k) == IF k \in (m + 1)..(m + n) THEN <<t, k>>
                     ELSE IF k <= Len(old) THEN old[k] ELSE Hole
<1>1. /\ MaxSize \in Nat /\ m \in Nat /\ Len(old) \in Nat
      /\ l \in Nat /\ l <= MaxSize + 1 /\ t \in Inode
  BY BoundAssumption DEF TypeOK, Inode
<1>2. Written(old, t, n) = [k \in 1..l |-> b(k)]  BY DEF Written
<1>3. ASSUME NEW k \in 1..l  PROVE b(k) \in Block
  <2>1. CASE k \in (m + 1)..(m + n)
    <3>1. k \in 1..(MaxSize + 1)  BY <1>1, <2>1
    <3>2. QED  BY <1>1, <2>1, <3>1 DEF Block
  <2>2. CASE k \notin (m + 1)..(m + n) /\ k <= Len(old)
    <3>1. k \in 1..Len(old)  BY <1>1, <2>2
    <3>2. QED  BY <2>2, <3>1
  <2>3. CASE k \notin (m + 1)..(m + n) /\ ~(k <= Len(old))
    BY <2>3 DEF Block
  <2>4. QED  BY <2>1, <2>2, <2>3
<1>4. ASSUME old = [k \in 1..m |-> <<t, k>>]
      PROVE  [k \in 1..l |-> b(k)] = [k \in 1..(m + n) |-> <<t, k>>]
  <2>1. Len(old) = m  BY <1>1, <1>4
  <2>2. l = m + n  BY <1>1, <2>1
  <2>3. ASSUME NEW k \in 1..l  PROVE b(k) = <<t, k>>
    <3>1. CASE k \in (m + 1)..(m + n)  BY <3>1
    <3>2. CASE k \notin (m + 1)..(m + n)
      <4>1. k \in 1..m  BY <1>1, <2>2, <3>2
      <4>2. b(k) = old[k]  BY <1>1, <2>1, <3>2, <4>1
      <4>3. QED  BY <1>4, <4>1, <4>2
    <3>3. QED  BY <3>1, <3>2
  <2>. HIDE DEF l, b
  <2>4. QED  BY <2>2, <2>3
<1>. HIDE DEF l, b
<1>5. [k \in 1..l |-> b(k)] \in Seq(Block) /\ Len([k \in 1..l |-> b(k)]) = l
  BY <1>1, <1>3
<1>6. QED  BY <1>1, <1>2, <1>4, <1>5 DEF m

LEMMA ReceiveStep ==
  ASSUME IInv, NEW t \in Transfer, Receive(t)
  PROVE  IInv'
<1>. DEFINE i == job[t].inode
<1>. DEFINE m == moved[t]
<1>1. /\ pc[t] = "receiving"
      /\ UNCHANGED <<job, open, dir, client, sent, got, last, overlapped>>
      /\ IF moved'[t] > job[t].size THEN Goto(t, "failing") ELSE UNCHANGED pc
  BY DEF Receive, clientVars, historyVars
<1>2. PICK n \in 1..(sent[t] - m) :
        /\ content' = [content EXCEPT ![i] = Written(@, t, n)]
        /\ moved' = [moved EXCEPT ![t] = @ + n]
  BY DEF Receive
<1>3. /\ Puts(t) /\ ~Gets(t) /\ i \in Inode /\ content[i] \in Seq(Block)
      /\ Len(content[i]) <= MaxSize + 1
      /\ m \in Nat /\ sent[t] \in 0..(MaxSize + 1) /\ MaxSize \in Nat
  <2>1. Puts(t)  BY <1>1 DEF IInv, WorkersOK
  <2>2. QED  BY <1>1, <2>1, Worker
<1>4. n \in Nat /\ m + n <= sent[t] /\ m + n \in 0..(MaxSize + 1) /\ m + n # 0
  BY <1>3
<1>5. /\ moved' \in [Transfer -> 0..(MaxSize + 1)]
      /\ moved'[t] = m + n
      /\ \A s \in Transfer : s # t => moved'[s] = moved[s]
  BY <1>2, <1>4 DEF IInv, TypeOK
<1>. DEFINE b == Written(content[i], t, n)
<1>6. /\ b \in Seq(Block) /\ Len(b) <= MaxSize + 1
      /\ content[i] = [k \in 1..m |-> <<t, k>>] =>
           b = [k \in 1..(m + n) |-> <<t, k>>]
  <2>1. TypeOK  BY DEF IInv
  <2>2. m + n <= MaxSize + 1  BY <1>3, <1>4
  <2>. HIDE DEF i
  <2>3. QED  BY <1>3, <1>4, <2>1, <2>2, WrittenBlocks
<1>7. content' = [content EXCEPT ![i] = b]  BY <1>2
<1>. HIDE DEF b, i, m
<1>. USE DEF IInv
<1>8. /\ content' \in [Inode -> Seq(Block)] /\ content'[i] = b
      /\ \A j \in Inode : j # i => content'[j] = content[j]
  BY <1>3, <1>6, <1>7 DEF TypeOK
<1>9. /\ pc' \in [Transfer -> Locations]
      /\ \/ pc'[t] = "failing"
         \/ pc'[t] = "receiving" /\ ~(moved'[t] > job[t].size)
      /\ \A s \in Transfer : s # t => pc'[s] = pc[s]
  BY <1>1 DEF TypeOK, Goto, Locations
<1>10. \A s : (Puts(s)' <=> Puts(s)) /\ (Gets(s)' <=> Gets(s))
  BY <1>1 DEF Puts, Gets
<1>11. TypeOK'  BY <1>1, <1>5, <1>8, <1>9 DEF TypeOK
<1>12. WorkersOK'  BY <1>1, <1>3, <1>5, <1>9, <1>10 DEF WorkersOK, Active
<1>13. SizesOK'  BY <1>6, <1>8 DEF SizesOK
<1>14. NamesOK'  BY <1>1, <1>10 DEF NamesOK, CreatedAs, Exists
<1>15. OverlapsOK'  BY <1>1, <1>9, <1>10 DEF OverlapsOK, Active
<1>16. ASSUME NEW s \in Transfer, job[s] # None, s # t, s \notin overlapped,
              \/ Puts(s) /\ last[job[s].inode] = s
              \/ Gets(s) /\ pc[s] \in Active
       PROVE  content'[job[s].inode] = content[job[s].inode]
  <2>1. job[s].inode \in Inode  BY <1>16, JobType
  <2>2. job[s].inode # i
    BY <1>1, <1>3, <1>16 DEF OverlapsOK, Active, i
  <2>3. QED  BY <1>8, <2>1, <2>2
<1>17. ASSUME NEW s \in Transfer, Puts(s), s # t  PROVE UploadOK(s)'
  <2>1. UploadOK(s) /\ job[s] # None  BY <1>17 DEF UploadsOK, Puts
  <2>2. moved'[s] = moved[s] /\ pc'[s] = pc[s]  BY <1>5, <1>9, <1>17
  <2>3. last[job[s].inode] = s /\ s \notin overlapped =>
          content'[job[s].inode] = content[job[s].inode]
    BY <1>16, <1>17, <2>1
  <2>4. QED  BY <1>1, <2>1, <2>2, <2>3 DEF UploadOK
<1>18. UploadOK(t)'
  <2>1. UploadOK(t)  BY <1>3 DEF UploadsOK
  <2>2. job[t].size \in Nat  BY <1>1, Worker
  <2>3. moved'[t] <= sent'[t]  BY <1>1, <1>4, <1>5
  <2>4. pc'[t] \in {"accepting", "receiving"} => moved'[t] <= job'[t].size
    BY <1>1, <1>4, <1>5, <1>9, <2>2
  <2>5. last[i] = t /\ t \notin overlapped =>
          content'[i] = [k \in 1..moved'[t] |-> <<t, k>>]
    BY <1>5, <1>6, <1>8, <2>1 DEF UploadOK, i, m
  <2>6. pc'[t] \notin {"closing", "finishing", "done"}  BY <1>9
  <2>7. QED  BY <1>1, <2>3, <2>4, <2>5, <2>6 DEF UploadOK, i
<1>19. ASSUME NEW s \in Transfer, Gets(s)  PROVE DownloadOK(s)'
  <2>1. DownloadOK(s) /\ job[s] # None /\ s # t
    BY <1>3, <1>19 DEF DownloadsOK, Gets
  <2>2. moved'[s] = moved[s] /\ pc'[s] = pc[s]  BY <1>5, <1>9, <2>1
  <2>3. pc[s] \in Active /\ s \notin overlapped =>
          content'[job[s].inode] = content[job[s].inode]
    BY <1>16, <1>19, <2>1
  <2>4. QED  BY <1>1, <2>1, <2>2, <2>3 DEF DownloadOK
<1>20. UploadsOK'  BY <1>10, <1>17, <1>18 DEF UploadsOK
<1>21. DownloadsOK'  BY <1>10, <1>19 DEF DownloadsOK
<1>22. QED  BY <1>11, <1>12, <1>13, <1>14, <1>15, <1>20, <1>21

-------------------------------------------------------------------------------
(* The steps that take a name away, and those of the clients *)

LEMMA RmStep ==
  ASSUME IInv, NEW p \in Path, Rm(p)
  PROVE  IInv'
<1>. USE DEF IInv
<1>1. /\ dir' = [dir EXCEPT ![p] = None]
      /\ UNCHANGED <<job, pc, open, content, moved, client, sent, got, last, overlapped>>
  BY DEF Rm, clientVars, historyVars
<1>2. TypeOK'  BY <1>1 DEF TypeOK
<1>3. \A s : (Puts(s)' <=> Puts(s)) /\ (Gets(s)' <=> Gets(s))
  BY <1>1 DEF Puts, Gets
<1>4. WorkersOK'  BY <1>1, <1>3 DEF WorkersOK
<1>5. SizesOK' /\ OverlapsOK' /\ DownloadsOK'
  BY <1>1, <1>3 DEF SizesOK, OverlapsOK, DownloadsOK, DownloadOK
<1>6. \A q \in Path : dir'[q] = dir[q] \/ dir'[q] = None
  BY <1>1 DEF TypeOK
<1>7. NamesOK'
  BY <1>1, <1>3, <1>6 DEF NamesOK, CreatedAs, Exists
<1>8. ASSUME NEW s \in Transfer, Puts(s)  PROVE UploadOK(s)'
  <2>1. job[s].path \in Path /\ job[s].inode \in Inode
    BY <1>8, JobType DEF Puts
  <2>2. job[s].inode # None  BY <2>1, NoneAssumption DEF Inode
  <2>3. dir'[job[s].path] = dir[job[s].path] \/ dir'[job[s].path] # job[s].inode
    BY <1>6, <2>1, <2>2
  <2>4. QED  BY <1>1, <1>8, <2>3 DEF UploadsOK, UploadOK
<1>9. UploadsOK'  BY <1>3, <1>8 DEF UploadsOK
<1>10. QED  BY <1>2, <1>4, <1>5, <1>7, <1>9

LEMMA RemoveStep ==
  ASSUME IInv, NEW t \in Transfer, Remove(t)
  PROVE  IInv'
<1>. DEFINE p == job[t].path
<1>1. /\ pc[t] = "removing" /\ dir' = [dir EXCEPT ![p] = None]
      /\ pc' = [pc EXCEPT ![t] = "finishing"]
      /\ UNCHANGED <<job, open, content, moved, client, sent, got, last, overlapped>>
  BY DEF Remove, Goto, clientVars, historyVars
<1>2. p \in Path /\ job[t].inode \in Inode /\ job[t] # None
  BY <1>1, Worker
<1>. HIDE DEF p
<1>. USE DEF IInv
<1>3. /\ pc' \in [Transfer -> Locations] /\ pc'[t] = "finishing"
      /\ \A s \in Transfer : s # t => pc'[s] = pc[s]
  BY <1>1 DEF TypeOK, Locations
<1>4. TypeOK'  BY <1>1, <1>3 DEF TypeOK
<1>5. \A s : (Puts(s)' <=> Puts(s)) /\ (Gets(s)' <=> Gets(s))
  BY <1>1 DEF Puts, Gets
<1>6. WorkersOK'  BY <1>1, <1>2, <1>3, <1>5 DEF WorkersOK, Active
<1>7. SizesOK'  BY <1>1 DEF SizesOK
<1>8. OverlapsOK'  BY <1>1, <1>3, <1>5 DEF OverlapsOK, Active
<1>9. DownloadsOK'  BY <1>1, <1>3, <1>5 DEF DownloadsOK, DownloadOK, Active
<1>10. dir'[p] = None /\ \A q \in Path : dir'[q] = dir[q] \/ dir'[q] = None
  BY <1>1, <1>2 DEF TypeOK
<1>11. NamesOK'
  BY <1>1, <1>5, <1>10 DEF NamesOK, CreatedAs, Exists
<1>12. ASSUME NEW s \in Transfer, Puts(s)  PROVE UploadOK(s)'
  <2>1. job[s].path \in Path /\ job[s].inode \in Inode
    BY <1>12, JobType DEF Puts
  <2>2. job[s].inode # None  BY <2>1, NoneAssumption DEF Inode
  <2>3. dir'[job[s].path] = dir[job[s].path] \/ dir'[job[s].path] # job[s].inode
    BY <1>10, <2>1, <2>2
  <2>4. s = t => dir'[job[s].path] # job[s].inode
    BY <1>10, <2>2 DEF p
  <2>5. QED  BY <1>1, <1>3, <1>12, <2>3, <2>4 DEF UploadsOK, UploadOK
<1>13. UploadsOK'  BY <1>5, <1>12 DEF UploadsOK
<1>14. QED  BY <1>4, <1>6, <1>7, <1>8, <1>9, <1>11, <1>13

LEMMA ClientStep ==
  ASSUME IInv, NEW t \in Transfer, Client(t)
  PROVE  IInv'
<1>. USE DEF IInv
<1>1. /\ UNCHANGED <<job, pc, open, dir, content, moved, got, last, overlapped>>
      /\ \/ /\ client[t] = "absent" /\ sent' = sent
            /\ client' = [client EXCEPT ![t] = "connected"]
         \/ /\ client' = client /\ sent[t] < MaxSize + 1
            /\ sent' = [sent EXCEPT ![t] = @ + 1]
         \/ /\ client' = [client EXCEPT ![t] = "closed"] /\ sent' = sent
  BY DEF Client, ClientConnect, ClientSend, ClientClose, fileVars, historyVars
<1>2. \A s : (Puts(s)' <=> Puts(s)) /\ (Gets(s)' <=> Gets(s))
  BY <1>1 DEF Puts, Gets
<1>3. MaxSize \in Nat  BY BoundAssumption
<1>4. /\ sent' \in [Transfer -> 0..(MaxSize + 1)]
      /\ \A s \in Transfer : sent[s] <= sent'[s]
  <2>1. sent \in [Transfer -> 0..(MaxSize + 1)]  BY DEF TypeOK
  <2>2. CASE sent' = sent
    <3>1. \A s \in Transfer : sent[s] \in Nat  BY <2>1
    <3>2. QED  BY <2>1, <2>2, <3>1
  <2>3. CASE sent[t] < MaxSize + 1 /\ sent' = [sent EXCEPT ![t] = @ + 1]
    <3>1. sent[t] + 1 \in 0..(MaxSize + 1)  BY <1>3, <2>1, <2>3
    <3>2. \A s \in Transfer :
            sent[s] \in Nat /\ sent'[s] = IF s = t THEN sent[s] + 1 ELSE sent[s]
      BY <2>1, <2>3
    <3>3. QED  BY <2>1, <2>3, <3>1, <3>2
  <2>4. QED  BY <1>1, <2>2, <2>3
<1>5. /\ client' \in [Transfer -> {"absent", "connected", "closed"}]
      /\ \A s \in Transfer :
           \/ client'[s] = client[s]
           \/ client[s] = "absent" /\ client'[s] # "absent"
           \/ client'[s] = "closed"
  BY <1>1 DEF TypeOK
<1>6. TypeOK'  BY <1>1, <1>4, <1>5 DEF TypeOK
<1>7. WorkersOK' /\ SizesOK' /\ OverlapsOK'
  BY <1>1, <1>2 DEF WorkersOK, SizesOK, OverlapsOK
<1>8. NamesOK'  BY <1>1, <1>2 DEF NamesOK, CreatedAs, Exists
<1>9. ASSUME NEW s \in Transfer, Puts(s)  PROVE UploadOK(s)'
  <2>1. moved[s] <= sent'[s]
    <3>1. moved[s] \in Nat /\ sent[s] \in Nat /\ sent'[s] \in Nat
      BY <1>4 DEF TypeOK
    <3>2. moved[s] <= sent[s]  BY <1>9 DEF UploadsOK, UploadOK
    <3>3. QED  BY <1>4, <3>1, <3>2
  <2>2. QED  BY <1>1, <1>9, <2>1 DEF UploadsOK, UploadOK
<1>10. UploadsOK'  BY <1>2, <1>9 DEF UploadsOK
<1>11. DownloadsOK'  BY <1>1, <1>2, <1>5 DEF DownloadsOK, DownloadOK
<1>12. QED  BY <1>6, <1>7, <1>8, <1>10, <1>11
-------------------------------------------------------------------------------
(* The steps that open a file *)

(* What the session does to the descriptors and to the worker of t, when it *)
(* gets as far as opening the file of t.                                    *)
Opened(t, w) ==
  /\ pc[t] = "none" /\ pc' = [pc EXCEPT ![t] = w]
  /\ w \in {"accepting", "refused"}
  /\ open' \subseteq {"file", "listen", "data"} \X Transfer
  /\ Cardinality(open') <= MaxFds
  /\ \A s \in Transfer :
       <<"file", s>> \in open'
         <=> IF s = t THEN w \in Active ELSE <<"file", s>> \in open
  /\ UNCHANGED <<moved, client, sent, got>>

LEMMA OpensDescriptors ==
  ASSUME IInv, NEW t \in Transfer, NEW p \in Path, Start(t, p) \/ StartFails(t, p)
  PROVE  /\ Opened(t, "accepting") \/ Opened(t, "refused")
         /\ OpenForGet(t, p) \/ \E n \in 1..MaxSize : OpenForPut(t, p, n)
<1>1. /\ pc[t] = "none" /\ UNCHANGED <<moved, client, sent, got>>
      /\ OpenForGet(t, p) \/ \E n \in 1..MaxSize : OpenForPut(t, p, n)
  BY DEF Start, StartFails, OpenFile, clientVars
<1>2. TypeOK /\ MaxFds \in Nat  BY BoundAssumption DEF IInv
<1>3. Cardinality(open) \in Nat /\ Cardinality(open) <= MaxFds
  BY <1>2, OneMore DEF TypeOK
<1>4. <<"file", t>> \notin open  BY <1>1 DEF IInv, WorkersOK, Active
<1>5. CASE Start(t, p)
  <2>1. /\ Free >= 2 /\ open' = open \cup {<<"file", t>>, <<"listen", t>>}
        /\ pc' = [pc EXCEPT ![t] = "accepting"]
    BY <1>5 DEF Start, Goto
  <2>2. /\ Cardinality(open \cup {<<"file", t>>, <<"listen", t>>}) \in Nat
        /\ Cardinality(open \cup {<<"file", t>>, <<"listen", t>>})
             <= Cardinality(open) + 2
    BY <1>2, TwoMore
  <2>3. Cardinality(open') <= MaxFds  BY <1>2, <1>3, <2>1, <2>2 DEF Free
  <2>4. open' \subseteq {"file", "listen", "data"} \X Transfer
    BY <1>2, <2>1 DEF TypeOK
  <2>5. Opened(t, "accepting")
    BY <1>1, <2>1, <2>3, <2>4 DEF Opened, Active
  <2>6. QED  BY <1>1, <2>5
<1>6. CASE StartFails(t, p)
  <2>1. /\ Free >= 1 /\ pc' = [pc EXCEPT ![t] = "refused"]
        /\ open' = open \/ (Free >= 2 /\ open' = open \cup {<<"listen", t>>})
    <3>1. /\ Free >= 1 /\ pc' = [pc EXCEPT ![t] = "refused"]
          /\ open' \in {open} \cup
               (IF Free >= 2 THEN {open \cup {<<"listen", t>>}} ELSE {})
      BY <1>6 DEF StartFails, Goto
    <3>2. CASE Free >= 2  BY <3>1, <3>2, Zenon
    <3>3. CASE ~(Free >= 2)  BY <3>1, <3>3, Zenon
    <3>4. QED  BY <3>2, <3>3
  <2>2. /\ Cardinality(open \cup {<<"listen", t>>}) \in Nat
        /\ Cardinality(open \cup {<<"listen", t>>}) <= Cardinality(open) + 1
    BY <1>2, OneMore
  <2>3. Cardinality(open') <= MaxFds
    <3>1. CASE open' = open  BY <1>3, <3>1
    <3>2. CASE Free >= 2 /\ open' = open \cup {<<"listen", t>>}
      BY <1>2, <1>3, <2>2, <3>2 DEF Free
    <3>3. QED  BY <2>1, <3>1, <3>2
  <2>4. open' \subseteq {"file", "listen", "data"} \X Transfer
    BY <1>2, <2>1 DEF TypeOK
  <2>5. Opened(t, "refused")
    BY <1>1, <1>4, <2>1, <2>3, <2>4 DEF Opened, Active
  <2>6. QED  BY <1>1, <2>5
<1>7. QED  BY <1>5, <1>6

(* Facts about a transfer that is about to be requested: its file does not *)
(* exist yet, and nobody refers to it.                                     *)
LEMMA Fresh ==
  ASSUME IInv, NEW t \in Transfer, pc[t] = "none"
  PROVE  /\ job[t] = None /\ t \in Inode /\ t \notin Path /\ t # None
         /\ moved[t] = 0 /\ got[t] = << >>
         /\ \A q \in Path : dir[q] # t
         /\ \A s \in Transfer : job[s] # None => job[s].inode # t
         /\ \A j \in Inode : last[j] # t
<1>1. job[t] = None /\ moved[t] = 0 /\ got[t] = << >>  BY DEF IInv, WorkersOK
<1>2. t \in Inode /\ t \notin Path /\ t # None
  BY PathAssumption, NoneAssumption DEF Inode
<1>3. \A q \in Path : dir[q] # t
  BY <1>1, <1>2 DEF IInv, NamesOK, CreatedAs, Exists
<1>4. \A s \in Transfer : job[s] # None => job[s].inode # t
  BY <1>1 DEF IInv, NamesOK, CreatedAs
<1>5. \A j \in Inode : last[j] # t
  BY <1>1, <1>2 DEF IInv, NamesOK, Puts
<1>6. QED  BY <1>1, <1>2, <1>3, <1>4, <1>5

LEMMA GetOpened ==
  ASSUME IInv, NEW t \in Transfer, NEW p \in Path, NEW w, Opened(t, w),
         OpenForGet(t, p)
  PROVE  IInv'
<1>. PICK i : i = dir[p]
  OBVIOUS
<1>. DEFINE r == [kind |-> "get", path |-> p, size |-> Len(content[i]), inode |-> i]
<1>1. /\ i # None /\ job' = [job EXCEPT ![t] = r]
      /\ UNCHANGED <<dir, content, last>>
      /\ overlapped' = IF Holding(i, {"put"}) # {} THEN overlapped \cup {t}
                                                   ELSE overlapped
  BY DEF OpenForGet, Exists, fileVars
<1>2. /\ pc[t] = "none" /\ pc' = [pc EXCEPT ![t] = w]
      /\ w \in {"accepting", "refused"}
      /\ UNCHANGED <<moved, client, sent, got>>
  BY DEF Opened
<1>3. /\ job[t] = None /\ moved[t] = 0 /\ got[t] = << >>
      /\ \A q \in Path : dir[q] # t
      /\ \A s \in Transfer : job[s] # None => job[s].inode # t
      /\ \A j \in Inode : last[j] # t
  BY <1>2, Fresh
<1>4. i \in Inode /\ MaxSize \in Nat
  BY <1>1, BoundAssumption DEF IInv, TypeOK
<1>5. /\ content[i] \in Seq(Block) /\ Len(content[i]) \in 0..(MaxSize + 1)
  BY <1>4 DEF IInv, TypeOK, SizesOK
<1>6. r \in Job  BY <1>4, <1>5 DEF Job
<1>7. r # None /\ r.kind = "get" /\ r.path = p /\ r.inode = i
      /\ r.size = Len(content[i])
  BY <1>6, JobAssumption
<1>. HIDE DEF r
<1>8. /\ job' \in [Transfer -> Job \cup {None}] /\ job'[t] = r
      /\ \A s \in Transfer : s # t => job'[s] = job[s]
  BY <1>1, <1>6 DEF IInv, TypeOK
<1>9. /\ pc' \in [Transfer -> Locations] /\ pc'[t] = w
      /\ \A s \in Transfer : s # t => pc'[s] = pc[s]
  BY <1>2 DEF IInv, TypeOK, Locations
<1>10. /\ Gets(t)' /\ ~Puts(t)'
       /\ \A s \in Transfer : s # t => (Puts(s)' <=> Puts(s)) /\ (Gets(s)' <=> Gets(s))
  BY <1>7, <1>8 DEF Puts, Gets
<1>11. /\ overlapped \subseteq overlapped' /\ overlapped' \subseteq overlapped \cup {t}
       /\ Holding(i, {"put"}) # {} => t \in overlapped'
  BY <1>1
<1>. USE DEF IInv
<1>12. TypeOK'  BY <1>1, <1>2, <1>8, <1>9, <1>11 DEF TypeOK, Opened
<1>13. WorkersOK'
  <2>1. ASSUME NEW s \in Transfer, s # t
        PROVE  /\ pc'[s] = pc[s] /\ job'[s] = job[s]
               /\ moved'[s] = moved[s] /\ got'[s] = got[s]
               /\ <<"file", s>> \in open' <=> <<"file", s>> \in open
    BY <1>2, <1>8, <1>9, <2>1 DEF Opened
  <2>2. <<"file", t>> \in open' <=> w \in Active  BY DEF Opened
  <2>3. QED
    BY <1>2, <1>3, <1>7, <1>8, <1>9, <1>10, <2>1, <2>2 DEF WorkersOK
<1>14. SizesOK'  BY <1>1 DEF SizesOK
<1>15. \A j, q : CreatedAs(j, q) => CreatedAs(j, q)'
  BY <1>3, <1>8 DEF CreatedAs
<1>16. NamesOK'
  <2>1. \A q \in Path : Exists(q)' => CreatedAs(dir[q], q)'
    BY <1>1, <1>15 DEF NamesOK, Exists
  <2>2. CreatedAs(i, p)'  BY <1>1, <1>15 DEF NamesOK, Exists
  <2>3. ASSUME NEW s \in Transfer, NEW j, NEW q,
               job'[s] # None, j = job'[s].inode, q = job'[s].path
        PROVE  CreatedAs(j, q)'
    <3>1. CASE s = t  BY <1>7, <1>8, <2>2, <2>3, <3>1
    <3>2. CASE s # t  BY <1>8, <1>15, <2>3, <3>2 DEF NamesOK
    <3>3. QED  BY <3>1, <3>2
  <2>4. \A j \in Inode :
          last'[j] # None => Puts(last[j])' /\ job'[last'[j]].inode = j
    BY <1>1, <1>3, <1>8, <1>10 DEF NamesOK, TypeOK
  <2>5. QED  BY <1>1, <2>1, <2>3, <2>4 DEF NamesOK
<1>17. OverlapsOK'
  <2>1. ASSUME NEW s \in Transfer, NEW u \in Transfer,
               s # u, Puts(s)', job'[u] # None, job'[s].inode = job'[u].inode,
               pc'[s] \in Active
        PROVE  /\ Puts(u)' /\ last'[job'[u].inode] = u => u \in overlapped'
               /\ Gets(u)' /\ pc'[u] \in Active => u \in overlapped'
    <3>1. /\ s # t /\ Puts(s) /\ pc[s] \in Active
          /\ job'[s] = job[s]
      BY <1>8, <1>9, <1>10, <2>1
    <3>2. CASE u = t
      <4>1. job[s].inode = i  BY <1>7, <1>8, <2>1, <3>1, <3>2
      <4>2. s \in Holding(i, {"put"})
        BY <3>1, <4>1 DEF Holding, WorkersOK, Puts
      <4>3. QED  BY <1>11, <3>2, <4>2
    <3>3. CASE u # t
      BY <1>1, <1>8, <1>9, <1>10, <1>11, <2>1, <3>1, <3>3 DEF OverlapsOK
    <3>4. QED  BY <3>2, <3>3
  <2>2. QED  BY <2>1 DEF OverlapsOK
<1>18. UploadsOK'
  <2>1. ASSUME NEW s \in Transfer, Puts(s)'  PROVE UploadOK(s)'
    <3>1. s # t /\ Puts(s)  BY <1>10, <2>1
    <3>2. UploadOK(s)  BY <3>1 DEF UploadsOK
    <3>3. pc'[s] = pc[s] /\ job'[s] = job[s]  BY <1>8, <1>9, <3>1
    <3>4. QED  BY <1>1, <1>2, <1>11, <3>2, <3>3 DEF UploadOK
  <2>2. QED  BY <2>1 DEF UploadsOK
<1>19. DownloadsOK'
  <2>1. DownloadOK(t)'
    <3>1. << >> = [k \in 1..0 |-> content[i][k]]  OBVIOUS
    <3>2. QED
      BY <1>1, <1>2, <1>3, <1>5, <1>7, <1>8, <1>9, <3>1 DEF DownloadOK
  <2>2. ASSUME NEW s \in Transfer, Gets(s)', s # t  PROVE DownloadOK(s)'
    <3>1. DownloadOK(s)  BY <1>10, <2>2 DEF DownloadsOK
    <3>2. pc'[s] = pc[s] /\ job'[s] = job[s]  BY <1>8, <1>9, <2>2
    <3>3. QED  BY <1>1, <1>2, <1>11, <3>1, <3>2 DEF DownloadOK
  <2>3. QED  BY <2>1, <2>2 DEF DownloadsOK
<1>20. QED  BY <1>12, <1>13, <1>14, <1>16, <1>17, <1>18, <1>19

LEMMA PutOpened ==
  ASSUME IInv, NEW t \in Transfer, NEW p \in Path, NEW w, Opened(t, w),
         NEW n \in 1..MaxSize, OpenForPut(t, p, n)
  PROVE  IInv'
<1>. PICK i : i = IF dir[p] = None THEN t ELSE dir[p]
  OBVIOUS
<1>. DEFINE r == [kind |-> "put", path |-> p, size |-> n, inode |-> i]
<1>1. /\ job' = [job EXCEPT ![t] = r]
      /\ dir' = [dir EXCEPT ![p] = i]
      /\ content' = [content EXCEPT ![i] = << >>]
      /\ last' = [last EXCEPT ![i] = t]
      /\ overlapped' = overlapped \cup Holding(i, {"get", "put"})
                         \cup (IF Holding(i, {"put"}) # {} THEN {t} ELSE {})
  BY DEF OpenForPut
<1>2. /\ pc[t] = "none" /\ pc' = [pc EXCEPT ![t] = w]
      /\ w \in {"accepting", "refused"}
      /\ UNCHANGED <<moved, client, sent, got>>
  BY DEF Opened
<1>3. /\ job[t] = None /\ t \in Inode /\ t \notin Path /\ t # None
      /\ moved[t] = 0 /\ got[t] = << >>
      /\ \A q \in Path : dir[q] # t
      /\ \A s \in Transfer : job[s] # None => job[s].inode # t
      /\ \A j \in Inode : last[j] # t
  BY <1>2, Fresh
<1>4. i \in Inode /\ i # None /\ MaxSize \in Nat
  BY <1>3, BoundAssumption, NoneAssumption DEF IInv, TypeOK, Inode
<1>5. r \in Job  BY <1>4 DEF Job
<1>6. r # None /\ r.kind = "put" /\ r.path = p /\ r.inode = i /\ r.size = n
  BY <1>5, JobAssumption
<1>. HIDE DEF r
<1>7. /\ job' \in [Transfer -> Job \cup {None}] /\ job'[t] = r
      /\ \A s \in Transfer : s # t => job'[s] = job[s]
  BY <1>1, <1>5 DEF IInv, TypeOK
<1>8. /\ pc' \in [Transfer -> Locations] /\ pc'[t] = w
      /\ \A s \in Transfer : s # t => pc'[s] = pc[s]
  BY <1>2 DEF IInv, TypeOK, Locations
<1>9. /\ dir' \in [Path -> Inode \cup {None}] /\ dir'[p] = i
      /\ \A q \in Path : q # p => dir'[q] = dir[q]
  BY <1>1, <1>4 DEF IInv, TypeOK
<1>10. /\ content' \in [Inode -> Seq(Block)] /\ content'[i] = << >>
       /\ \A j \in Inode : j # i => content'[j] = content[j]
  <2>1. << >> \in Seq(Block) /\ content \in [Inode -> Seq(Block)]
    BY DEF IInv, TypeOK
  <2>2. QED  BY <1>1, <1>4, <2>1
<1>11. /\ last' \in [Inode -> Transfer \cup {None}] /\ last'[i] = t
       /\ \A j \in Inode : j # i => last'[j] = last[j]
  BY <1>1, <1>4 DEF IInv, TypeOK
<1>12. /\ Puts(t)' /\ ~Gets(t)'
       /\ \A s \in Transfer : s # t => (Puts(s)' <=> Puts(s)) /\ (Gets(s)' <=> Gets(s))
  BY <1>6, <1>7 DEF Puts, Gets
<1>13. /\ overlapped \subseteq overlapped'
       /\ \A s \in Holding(i, {"get", "put"}) : s \in overlapped'
       /\ Holding(i, {"put"}) # {} => t \in overlapped'
       /\ overlapped' \subseteq Transfer
  <2>1. Holding(i, {"get", "put"}) \subseteq Transfer  BY DEF Holding
  <2>2. overlapped \subseteq Transfer  BY DEF IInv, TypeOK
  <2>3. QED  BY <1>1, <2>1, <2>2
<1>. USE DEF IInv
<1>14. TypeOK'
  BY <1>2, <1>7, <1>8, <1>9, <1>10, <1>11, <1>13 DEF TypeOK, Opened
<1>15. WorkersOK'
  <2>1. ASSUME NEW s \in Transfer, s # t
        PROVE  /\ pc'[s] = pc[s] /\ job'[s] = job[s]
               /\ moved'[s] = moved[s] /\ got'[s] = got[s]
               /\ <<"file", s>> \in open' <=> <<"file", s>> \in open
    BY <1>2, <1>7, <1>8, <2>1 DEF Opened
  <2>2. <<"file", t>> \in open' <=> w \in Active  BY DEF Opened
  <2>3. /\ job'[t] # None /\ pc'[t] \notin {"none", "sending", "receiving"}
        /\ moved'[t] = 0 /\ got'[t] = << >>
    BY <1>2, <1>3, <1>6, <1>7, <1>8
  <2>4. QED
    BY <1>8, <1>12, <2>1, <2>2, <2>3 DEF WorkersOK
<1>16. SizesOK'
  <2>1. Len(<< >>) <= MaxSize + 1  BY <1>4
  <2>2. QED  BY <1>10, <2>1 DEF SizesOK
<1>17. \A j, q : CreatedAs(j, q) => CreatedAs(j, q)'
  BY <1>3, <1>7 DEF CreatedAs
<1>18. CreatedAs(i, p)'
  <2>1. CASE dir[p] = None
    BY <1>3, <1>6, <1>7, <2>1 DEF CreatedAs
  <2>2. CASE dir[p] # None
    BY <1>17, <2>2 DEF NamesOK, Exists
  <2>3. QED  BY <2>1, <2>2
<1>19. NamesOK'
  <2>1. ASSUME NEW q \in Path, NEW j, j = dir'[q], j # None
        PROVE  CreatedAs(j, q)'
    BY <1>9, <1>17, <1>18, <2>1 DEF NamesOK, Exists
  <2>2. ASSUME NEW s \in Transfer, NEW j, NEW q,
               job'[s] # None, j = job'[s].inode, q = job'[s].path
        PROVE  CreatedAs(j, q)'
    <3>1. CASE s = t  BY <1>6, <1>7, <1>18, <2>2, <3>1
    <3>2. CASE s # t  BY <1>7, <1>17, <2>2, <3>2 DEF NamesOK
    <3>3. QED  BY <3>1, <3>2
  <2>3. ASSUME NEW j \in Inode, NEW s, s = last'[j], s # None
        PROVE  Puts(s)' /\ job'[s].inode = j
    <3>1. CASE j = i  BY <1>6, <1>7, <1>11, <1>12, <2>3, <3>1
    <3>2. CASE j # i
      <4>1. s = last[j] /\ s # t /\ s \in Transfer
        BY <1>3, <1>11, <2>3, <3>2 DEF TypeOK
      <4>2. Puts(s) /\ job[s].inode = j  BY <2>3, <4>1 DEF NamesOK
      <4>3. QED  BY <1>7, <1>12, <4>1, <4>2
    <3>3. QED  BY <3>1, <3>2
  <2>4. \A q \in Path : Exists(q)' => CreatedAs(dir[q], q)'
    BY <2>1 DEF Exists
  <2>5. QED  BY <2>2, <2>3, <2>4 DEF NamesOK
<1>20. ASSUME NEW s \in Transfer, Puts(s) \/ Gets(s), pc[s] \in Active,
              job[s].inode = i
       PROVE  /\ s \in Holding(i, {"get", "put"})
              /\ Puts(s) => s \in Holding(i, {"put"})
  BY <1>20 DEF Holding, WorkersOK, Puts, Gets
<1>21. OverlapsOK'
  <2>1. ASSUME NEW s \in Transfer, NEW u \in Transfer,
               s # u, Puts(s)', job'[u] # None, job'[s].inode = job'[u].inode,
               pc'[s] \in Active
        PROVE  /\ Puts(u)' /\ last'[job'[u].inode] = u => u \in overlapped'
               /\ Gets(u)' /\ pc'[u] \in Active => u \in overlapped'
    <3>1. CASE s = t
      <4>1. u # t /\ job'[u].inode = i  BY <1>6, <1>7, <2>1, <3>1
      <4>2. Gets(u)' /\ pc'[u] \in Active => u \in overlapped'
        BY <1>7, <1>8, <1>12, <1>13, <1>20, <4>1
      <4>3. QED  BY <1>11, <4>1, <4>2
    <3>2. CASE u = t
      <4>1. s # t /\ job'[s].inode = i  BY <1>6, <1>7, <2>1, <3>2
      <4>2. s \in Holding(i, {"put"})
        BY <1>7, <1>8, <1>12, <1>20, <2>1, <4>1
      <4>3. QED  BY <1>13, <3>2, <4>2
    <3>3. CASE s # t /\ u # t
      <4>1. /\ Puts(s) /\ pc[s] \in Active /\ job[u] # None
            /\ job'[u] = job[u] /\ job[s].inode = job[u].inode
            /\ job[u].inode \in Inode /\ pc'[u] = pc[u]
        <5>1. Puts(s) /\ pc[s] \in Active /\ job'[u] = job[u]
              /\ job'[s] = job[s] /\ pc'[u] = pc[u]
          BY <1>7, <1>8, <1>12, <2>1, <3>3
        <5>2. job[u] # None /\ job[s].inode = job[u].inode  BY <2>1, <5>1
        <5>3. job[u].inode \in Inode  BY <5>2, JobType
        <5>4. QED  BY <5>1, <5>2, <5>3
      <4>2. last'[job[u].inode] = u => last[job[u].inode] = u
        BY <1>11, <3>3, <4>1
      <4>3. QED
        BY <1>12, <1>13, <2>1, <3>3, <4>1, <4>2 DEF OverlapsOK
    <3>4. QED  BY <3>1, <3>2, <3>3
  <2>2. QED  BY <2>1 DEF OverlapsOK
<1>22. UploadsOK'
  <2>1. UploadOK(t)'
    <3>1. << >> = [k \in 1..0 |-> <<t, k>>]  OBVIOUS
    <3>2. sent[t] \in Nat  BY DEF TypeOK
    <3>3. QED
      BY <1>2, <1>3, <1>6, <1>7, <1>8, <1>10, <3>1, <3>2 DEF UploadOK
  <2>2. ASSUME NEW s \in Transfer, Puts(s)', s # t  PROVE UploadOK(s)'
    <3>1. /\ Puts(s) /\ UploadOK(s) /\ job[s] # None
          /\ pc'[s] = pc[s] /\ job'[s] = job[s]
      BY <1>7, <1>8, <1>12, <2>2 DEF UploadsOK, Puts
    <3>2. job[s].inode \in Inode /\ job[s].path \in Path /\ job[s].inode # t
      BY <1>3, <3>1, JobType
    <3>3. dir[job[s].path] # job[s].inode => dir'[job[s].path] # job[s].inode
      BY <1>9, <3>2
    <3>4. last'[job[s].inode] = s =>
            /\ last[job[s].inode] = s
            /\ content'[job[s].inode] = content[job[s].inode]
      BY <1>10, <1>11, <2>2, <3>2
    <3>5. QED  BY <1>2, <1>13, <3>1, <3>3, <3>4 DEF UploadOK
  <2>3. QED  BY <2>1, <2>2 DEF UploadsOK
<1>23. DownloadsOK'
  <2>1. ASSUME NEW s \in Transfer, Gets(s)'  PROVE DownloadOK(s)'
    <3>1. s # t /\ Gets(s) /\ job[s] # None  BY <1>12, <2>1 DEF Gets
    <3>2. /\ DownloadOK(s) /\ pc'[s] = pc[s] /\ job'[s] = job[s]
          /\ job[s].inode \in Inode
      BY <1>7, <1>8, <3>1, JobType DEF DownloadsOK
    <3>3. pc[s] \in Active /\ s \notin overlapped' =>
            content'[job[s].inode] = content[job[s].inode]
      BY <1>10, <1>13, <1>20, <3>1, <3>2
    <3>4. QED  BY <1>2, <1>13, <3>2, <3>3 DEF DownloadOK, Active
  <2>2. QED  BY <2>1 DEF DownloadsOK
<1>24. QED  BY <1>14, <1>15, <1>16, <1>19, <1>21, <1>22, <1>23

-------------------------------------------------------------------------------
(* The theorems *)

LEMMA Step == IInv /\ [Next]_vars => IInv'
<1>. SUFFICES ASSUME IInv, [Next]_vars  PROVE IInv'
  OBVIOUS
<1>1. ASSUME NEW t \in Transfer, NEW p \in Path, Start(t, p) \/ StartFails(t, p)
      PROVE  IInv'
  <2>1. PICK w : Opened(t, w)  BY <1>1, OpensDescriptors
  <2>2. OpenForGet(t, p) \/ \E n \in 1..MaxSize : OpenForPut(t, p, n)
    BY <1>1, OpensDescriptors
  <2>3. CASE OpenForGet(t, p)  BY <2>1, <2>3, GetOpened
  <2>4. CASE \E n \in 1..MaxSize : OpenForPut(t, p, n)
    BY <2>1, <2>4, PutOpened
  <2>5. QED  BY <2>2, <2>3, <2>4
<1>2. ASSUME NEW p \in Path, Rm(p)  PROVE IInv'
  BY <1>2, RmStep
<1>3. ASSUME NEW t \in Transfer, transferWorker(t)  PROVE IInv'
  <2>1. CASE Accept(t)  BY <2>1, AcceptStep
  <2>2. CASE AcceptFails(t) \/ EndSend(t) \/ EndReceive(t)  BY <2>2, PlaceStep
  <2>3. CASE SendBlock(t)  BY <2>3, SendStep
  <2>4. CASE Receive(t)  BY <2>4, ReceiveStep
  <2>5. CASE CloseFile(t) \/ Finish(t)  BY <2>5, CloseStep
  <2>6. CASE Remove(t)  BY <2>6, RemoveStep
  <2>7. QED  BY <1>3, <2>1, <2>2, <2>3, <2>4, <2>5, <2>6 DEF transferWorker
<1>4. ASSUME NEW t \in Transfer, Client(t)  PROVE IInv'
  BY <1>4, ClientStep
<1>5. CASE UNCHANGED vars
  BY <1>5 DEF vars, IInv, TypeOK, WorkersOK, SizesOK, NamesOK, CreatedAs, Exists,
    OverlapsOK, UploadsOK, UploadOK, DownloadsOK, DownloadOK, Puts, Gets
<1>6. QED  BY <1>1, <1>2, <1>3, <1>4, <1>5 DEF Next

LEMMA Invariance == Spec => []IInv
  BY Initially, Step, PTL DEF Spec

-------------------------------------------------------------------------------
(* Why a worker fails *)

(* With its data connection a worker fails only for what the client of a    *)
(* put sends, and what it has sent by then stays wrong.                     *)
FailuresOK ==
  \A t \in Transfer :
    /\ pc[t] \in {"none", "accepting"} => <<"data", t>> \notin open
    /\ pc[t] \in {"failing", "removing"} /\ <<"data", t>> \in open =>
         /\ Puts(t)
         /\ \/ sent[t] > job[t].size
            \/ client[t] = "closed" /\ sent[t] < job[t].size

(* A transfer whose place, job and data connection stay has the same cause  *)
(* to fail, if its client only sends more while it is connected.            *)
LEMMA FailureKept ==
  ASSUME IInv, FailuresOK,
         NEW t \in Transfer, pc'[t] = pc[t], job'[t] = job[t],
         <<"data", t>> \in open' => <<"data", t>> \in open,
         sent'[t] \in {sent[t], sent[t] + 1},
         client[t] = "closed" => client'[t] = "closed" /\ sent'[t] = sent[t]
  PROVE  /\ pc'[t] \in {"none", "accepting"} => <<"data", t>> \notin open'
         /\ pc'[t] \in {"failing", "removing"} /\ <<"data", t>> \in open' =>
              /\ job'[t] # None /\ job'[t].kind = "put"
              /\ \/ sent'[t] > job'[t].size
                 \/ client'[t] = "closed" /\ sent'[t] < job'[t].size
<1>1. pc'[t] \in {"none", "accepting"} => <<"data", t>> \notin open'
  BY DEF FailuresOK
<1>2. ASSUME pc'[t] \in {"failing", "removing"}, <<"data", t>> \in open'
      PROVE  /\ job'[t] # None /\ job'[t].kind = "put"
             /\ \/ sent'[t] > job'[t].size
                \/ client'[t] = "closed" /\ sent'[t] < job'[t].size
  <2>1. /\ Puts(t) /\ job'[t] = job[t]
        /\ \/ sent[t] > job[t].size
           \/ client[t] = "closed" /\ sent[t] < job[t].size
    BY <1>2 DEF FailuresOK
  <2>2. sent[t] \in Nat /\ job[t].size \in Nat
    <3>1. job[t].size \in 0..(MaxSize + 1)
      BY <2>1, JobType DEF IInv, Puts
    <3>2. QED  BY <3>1 DEF IInv, TypeOK
  <2>3. CASE sent[t] > job[t].size
    BY <2>1, <2>2, <2>3 DEF Puts
  <2>4. CASE client[t] = "closed" /\ sent[t] < job[t].size
    BY <2>1, <2>4 DEF Puts
  <2>5. QED  BY <2>1, <2>3, <2>4
<1>3. QED  BY <1>1, <1>2

(* The steps in which t fails, or gets its data connection. *)
LEMMA FailureStep ==
  ASSUME IInv, FailuresOK, NEW t \in Transfer, transferWorker(t)
  PROVE  FailuresOK'
<1>1. UNCHANGED <<job, client, sent>>
  BY DEF transferWorker, Accept, AcceptFails, SendBlock, EndSend, Receive,
    EndReceive, CloseFile, Remove, Finish, clientVars
<1>2. /\ pc[t] \notin {"none", "refused"}
      /\ \A s \in Transfer : s # t => pc'[s] = pc[s]
      /\ \A s \in Transfer : s # t /\ <<"data", s>> \in open' => <<"data", s>> \in open
  BY DEF IInv, TypeOK, transferWorker, Accept, AcceptFails, SendBlock, EndSend,
    Receive, EndReceive, CloseFile, Remove, Finish, Goto
<1>3. ASSUME NEW s \in Transfer, s # t
      PROVE  /\ pc'[s] \in {"none", "accepting"} => <<"data", s>> \notin open'
             /\ pc'[s] \in {"failing", "removing"} /\ <<"data", s>> \in open' =>
                  /\ Puts(s)'
                  /\ \/ sent'[s] > job'[s].size
                     \/ client'[s] = "closed" /\ sent'[s] < job'[s].size
  <2>1. pc'[s] = pc[s] /\ (<<"data", s>> \in open' => <<"data", s>> \in open)
    BY <1>2, <1>3
  <2>2. job'[s] = job[s] /\ sent'[s] = sent[s] /\ client'[s] = client[s]
    BY <1>1
  <2>3. QED  BY <2>1, <2>2 DEF FailuresOK, Puts
<1>4. pc'[t] \notin {"none", "accepting"}
  BY DEF IInv, TypeOK, transferWorker, Accept, AcceptFails, SendBlock, EndSend,
    Receive, EndReceive, CloseFile, Remove, Finish, Goto
<1>5. ASSUME pc'[t] \in {"failing", "removing"}, <<"data", t>> \in open'
      PROVE  /\ Puts(t)
             /\ \/ sent[t] > job[t].size
                \/ client[t] = "closed" /\ sent[t] < job[t].size
  <2>1. CASE Receive(t)
    <3>1. /\ pc[t] = "receiving" /\ moved'[t] > job[t].size
          /\ \E n \in 1..(sent[t] - moved[t]) : moved' = [moved EXCEPT ![t] = @ + n]
      BY <1>5, <2>1 DEF Receive, Goto
    <3>2. /\ Puts(t) /\ moved[t] \in Nat /\ sent[t] \in Nat /\ job[t].size \in Nat
      <4>1. Puts(t)  BY <3>1 DEF IInv, WorkersOK
      <4>2. QED  BY <3>1, <4>1, Worker
    <3>3. moved'[t] \in Nat /\ moved'[t] <= sent[t]
      BY <3>1, <3>2 DEF IInv, TypeOK
    <3>4. QED  BY <3>1, <3>2, <3>3
  <2>2. CASE EndReceive(t)
    <3>1. /\ pc[t] = "receiving" /\ client[t] = "closed" /\ moved[t] = sent[t]
          /\ moved[t] < job[t].size
      BY <1>5, <2>2 DEF EndReceive, Goto, IInv, TypeOK
    <3>2. QED  BY <3>1 DEF IInv, WorkersOK
  <2>3. CASE AcceptFails(t)
    BY <1>5, <2>3 DEF AcceptFails, FailuresOK
  <2>4. CASE CloseFile(t)
    <3>1. pc[t] = "failing" /\ <<"data", t>> \in open
      BY <1>5, <2>4 DEF CloseFile, Goto, IInv, TypeOK
    <3>2. QED  BY <3>1 DEF FailuresOK
  <2>5. CASE Accept(t) \/ SendBlock(t) \/ EndSend(t) \/ Remove(t) \/ Finish(t)
    BY <1>5, <2>5 DEF Accept, SendBlock, EndSend, Remove, Finish, Goto, IInv, TypeOK
  <2>6. QED  BY <2>1, <2>2, <2>3, <2>4, <2>5 DEF transferWorker
<1>6. Puts(t)' <=> Puts(t)
  BY <1>1 DEF Puts
<1>7. QED  BY <1>1, <1>3, <1>4, <1>5, <1>6, Zenon DEF FailuresOK

LEMMA FailuresNext == IInv /\ FailuresOK /\ [Next]_vars => FailuresOK'
<1>. SUFFICES ASSUME IInv, FailuresOK, [Next]_vars  PROVE FailuresOK'
  OBVIOUS
<1>1. ASSUME NEW t \in Transfer, NEW p \in Path, Start(t, p) \/ StartFails(t, p)
      PROVE  FailuresOK'
  <2>1. PICK w \in {"accepting", "refused"} :
          /\ pc[t] = "none" /\ pc' = [pc EXCEPT ![t] = w]
          /\ open' \subseteq open \cup {<<"file", t>>, <<"listen", t>>}
          /\ UNCHANGED <<client, sent>>
    <3>1. CASE Start(t, p)  BY <3>1 DEF Start, Goto, clientVars
    <3>2. CASE StartFails(t, p)
      <4>1. open' = open \/ open' = open \cup {<<"listen", t>>}
        <5>1. open' \in {open} \cup
                (IF Free >= 2 THEN {open \cup {<<"listen", t>>}} ELSE {})
          BY <3>2 DEF StartFails
        <5>2. CASE Free >= 2  BY <5>1, <5>2, Zenon
        <5>3. CASE ~(Free >= 2)  BY <5>1, <5>3, Zenon
        <5>4. QED  BY <5>2, <5>3
      <4>2. QED  BY <3>2, <4>1 DEF StartFails, Goto, clientVars
    <3>3. QED  BY <1>1, <3>1, <3>2
  <2>2. \A s \in Transfer : s # t => job'[s] = job[s]
    BY <1>1 DEF Start, StartFails, OpenFile, OpenForGet, OpenForPut, IInv, TypeOK
  <2>3. <<"data", t>> \notin open  BY <2>1 DEF FailuresOK
  <2>4. \A s \in Transfer : <<"data", s>> \in open' => <<"data", s>> \in open
    BY <2>1
  <2>5. pc'[t] = w /\ \A s \in Transfer : s # t => pc'[s] = pc[s]
    BY <2>1 DEF IInv, TypeOK
  <2>6. QED  BY <2>1, <2>2, <2>3, <2>4, <2>5 DEF FailuresOK, Puts
<1>2. ASSUME NEW p \in Path, Rm(p)  PROVE FailuresOK'
  BY <1>2 DEF Rm, clientVars, FailuresOK, Puts
<1>3. ASSUME NEW t \in Transfer, transferWorker(t)  PROVE FailuresOK'
  BY <1>3, FailureStep
<1>4. ASSUME NEW t \in Transfer, Client(t)  PROVE FailuresOK'
  <2>1. UNCHANGED <<job, pc, open>>
    BY <1>4 DEF Client, ClientConnect, ClientSend, ClientClose
  <2>2. \A s \in Transfer :
          /\ sent'[s] \in {sent[s], sent[s] + 1}
          /\ client[s] = "closed" => client'[s] = "closed" /\ sent'[s] = sent[s]
    BY <1>4 DEF Client, ClientConnect, ClientSend, ClientClose, IInv, TypeOK
  <2>3. ASSUME NEW s \in Transfer
        PROVE  /\ pc'[s] \in {"none", "accepting"} => <<"data", s>> \notin open'
               /\ pc'[s] \in {"failing", "removing"} /\ <<"data", s>> \in open' =>
                    /\ job'[s] # None /\ job'[s].kind = "put"
                    /\ \/ sent'[s] > job'[s].size
                       \/ client'[s] = "closed" /\ sent'[s] < job'[s].size
    <3>1. /\ pc'[s] = pc[s] /\ job'[s] = job[s]
          /\ <<"data", s>> \in open' => <<"data", s>> \in open
      BY <2>1
    <3>2. QED  BY <2>2, <3>1, FailureKept
  <2>4. QED  BY <2>3, Zenon DEF FailuresOK, Puts
<1>5. CASE UNCHANGED vars
  BY <1>5 DEF vars, FailuresOK, Puts
<1>6. QED  BY <1>1, <1>2, <1>3, <1>4, <1>5 DEF Next

LEMMA FailuresHaveCauses == Spec => []FailuresOK
<1>1. Init => FailuresOK  BY DEF Init, FailuresOK
<1>2. QED  BY <1>1, FailuresNext, Invariance, PTL DEF Spec

(* Whatever the sessions, the workers and the clients do, the transfers are *)
(* in the states the code provides for and hold no more descriptors than    *)
(* the process has: the place of every worker, the files, their sizes and   *)
(* names, the bytes counted (FileTransfer, src/filetransfer.cpp).           *)
THEOREM TransfersTypeCorrect == Spec => []TypeOK
<1>1. IInv => TypeOK  BY DEF IInv
<1>2. QED  BY <1>1, Invariance, PTL

(* What a put leaves under a name is the whole upload, of the size it       *)
(* announced, unless another transfer wrote to the same inode: an upload    *)
(* that was cut short, ran over or got no connection has lost its name when *)
(* its worker is past the catch block (the loop and the catch block of      *)
(* transferWorker, the constructor for put, and executeRm).                 *)
THEOREM UploadsAreWhole == Spec => []VisibleUploadIsWhole
<1>1. ASSUME IInv  PROVE VisibleUploadIsWhole
  <2>1. ASSUME NEW p \in Path, NEW t \in Transfer, Exists(p), last[dir[p]] = t,
               pc[t] \in {"finishing", "done"}, t \notin overlapped
        PROVE  content[dir[p]] = Upload(t)
    <3>1. dir[p] \in Inode /\ t # None
      BY <1>1, <2>1, NoneAssumption DEF IInv, TypeOK, Exists, Inode
    <3>2. Puts(t) /\ job[t].inode = dir[p]
      BY <1>1, <2>1, <3>1 DEF IInv, NamesOK
    <3>3. job[t].path = p
      <4>1. CreatedAs(dir[p], p) /\ CreatedAs(dir[p], job[t].path)
        BY <1>1, <2>1, <3>2 DEF IInv, NamesOK, Puts
      <4>2. QED  BY <3>1, <4>1 DEF CreatedAs, Inode
    <3>4. UploadOK(t)  BY <1>1, <3>2 DEF IInv, UploadsOK
    <3>5. moved[t] = job[t].size  BY <2>1, <3>2, <3>3, <3>4 DEF UploadOK
    <3>6. QED  BY <2>1, <3>2, <3>4, <3>5 DEF UploadOK, Upload
  <2>2. QED  BY <2>1 DEF VisibleUploadIsWhole
<1>2. QED  BY <1>1, Invariance, PTL

(* A client that keeps the connection of a get open is sent the file as it  *)
(* is and all of it, as many bytes as the reply announced, unless a put     *)
(* wrote to the file meanwhile; that rm takes its name away does not matter *)
(* (the constructor for get and the sendfile of transferWorker).            *)
THEOREM DownloadsAreWhole == Spec => []DownloadIsWhole
<1>1. ASSUME IInv  PROVE DownloadIsWhole
  <2>1. ASSUME NEW t \in Transfer, pc[t] = "closing", job[t].kind = "get",
               client[t] = "connected", t \notin overlapped
        PROVE  got[t] = content[job[t].inode] /\ Len(got[t]) = job[t].size
    <3>1. Gets(t) /\ content[job[t].inode] \in Seq(Block)
      BY <1>1, <2>1, Worker DEF Gets
    <3>2. DownloadOK(t)  BY <1>1, <3>1 DEF IInv, DownloadsOK
    <3>3. /\ Len(content[job[t].inode]) = job[t].size
          /\ moved[t] = job[t].size
          /\ got[t] = [k \in 1..moved[t] |-> content[job[t].inode][k]]
      BY <2>1, <3>2 DEF DownloadOK, Active
    <3>4. got[t] = content[job[t].inode]  BY <3>1, <3>3
    <3>5. QED  BY <3>3, <3>4
  <2>2. QED  BY <2>1 DEF DownloadIsWhole
<1>2. QED  BY <1>1, Invariance, PTL

(* A worker that has its data connection takes the catch block, which       *)
(* removes the file, only for a put whose client has sent another number of *)
(* bytes than it announced: an upload of exactly that size is kept, in      *)
(* whatever pieces it arrives, and no get removes its file (the two checks  *)
(* of total_bytes in transferWorker).                                       *)
THEOREM WholeUploadsAreKept == Spec => []WholeUploadIsKept
<1>1. ASSUME IInv, FailuresOK  PROVE WholeUploadIsKept
  <2>1. ASSUME NEW t \in Transfer, pc[t] \in {"failing", "removing"},
               <<"data", t>> \in open
        PROVE  job[t].kind = "put" /\ sent[t] # job[t].size
    <3>1. /\ Puts(t)
          /\ sent[t] > job[t].size \/ sent[t] < job[t].size
      BY <1>1, <2>1 DEF FailuresOK
    <3>2. sent[t] \in Nat /\ job[t].size \in Nat
      <4>1. job[t].size \in 0..(MaxSize + 1)
        BY <1>1, <3>1, JobType DEF IInv, Puts
      <4>2. QED  BY <1>1, <4>1 DEF IInv, TypeOK
    <3>3. QED  BY <3>1, <3>2 DEF Puts
  <2>2. QED  BY <2>1 DEF WholeUploadIsKept
<1>2. QED  BY <1>1, Invariance, FailuresHaveCauses, PTL
===============================================================================
