----------------------------- MODULE ClientProofs -----------------------------
(* Theorems about Client, for any users, passwords, names and input.       *)
EXTENDS Client, CommandsProofs, FiniteSetTheorems, TLAPS

-------------------------------------------------------------------------------
(* The inductive invariant *)

(* Requests are made of input that was handled, replies of requests, and   *)
(* what the service can say to a get or a put.                             *)
RequestsOK ==
  /\ Len(requests) <= handled /\ Len(typed) <= MaxLines
  /\ Len(replies) <= Len(requests)
  /\ indented \subseteq 1..Len(requests)
  /\ \A n \in 1..Len(replies) :
       requests[n].cmd \in Transfers =>
         replies[n].reply.text \in
           {"output", "failed", "Access denied", "Login interrupted"}

(* The client's end of the connection closes with the server's. *)
SocketOK == socket # "open" <=> phase[me] = "closed"

(* The input ends once, and a client that does not wait for it is through. *)
LoopOK ==
  /\ ~interactive => eof
  /\ input_closed => eof /\ handled = Len(typed)
  /\ pc = "output" /\ ~interactive => input_closed

TransfersOK == transfers \in Seq([reply : Nat, file : Path])

IInv ==
  /\ TypeOK /\ RequestsOK /\ SocketOK /\ LoopOK /\ TransfersOK
  /\ QueuesMatchRequests /\ LeavesNothingBehind

-------------------------------------------------------------------------------
(* The service, as the client sees it *)

Entry == [line : Line, reply : Reply]

DialogueTypes ==
  /\ sent \in [{me} -> Seq(Line)]
  /\ phase \in [{me} -> {"absent", "open", "closed"}]
  /\ session \in [{me} -> State]
  /\ log \in [{me} -> Seq(Entry)]

LEMMA ServiceTypes ==
  (Service!TypeOK <=> DialogueTypes) /\ (Service!TypeOK' <=> DialogueTypes')
  BY DEF DialogueTypes, Service!TypeOK, Service!Line, Service!State, Service!Entry, Entry,
    Service!Reply, Service!Users, Service!Message, Service!Word,
    Service!PRIVILEGED_COMMANDS, Line, State, Reply, Users, Message, Word,
    PRIVILEGED_COMMANDS

LEMMA ServiceExecute ==
  ASSUME NEW s, NEW line, NEW online
  PROVE  Service!execute(s, line, online) = execute(s, line, online)
  BY DEF execute, executeDuringLogin, executeCommand, executePrivileged,
         executePass, executePing, executeFiles, executeTransfer, checkLogin,
         Outcome, Says, Names, Nobody, PRIVILEGED_COMMANDS,
         Service!execute, Service!executeDuringLogin, Service!executeCommand,
         Service!executePrivileged, Service!executePass, Service!executePing,
         Service!executeFiles, Service!executeTransfer, Service!checkLogin,
         Service!Outcome, Service!Says, Service!Names, Service!Nobody,
         Service!PRIVILEGED_COMMANDS

LEMMA OnlineType == Service!Online \in Users
<1>1. ASSUME NEW u \in Text
      PROVE  Service!Cardinality({c \in {me} :
                phase[c] = "open" /\ session[c].username = u}) \in Nat
  <2>. DEFINE S == {c \in {me} : phase[c] = "open" /\ session[c].username = u}
  <2>1. S \subseteq {me} /\ IsFiniteSet({me})  BY FS_Singleton
  <2>2. Cardinality(S) \in Nat  BY <2>1, FS_Subset, FS_CardinalityType
  <2>3. QED  BY <2>2 DEF Service!Cardinality, Cardinality
<1>2. QED  BY <1>1 DEF Service!Online, Users

LEMMA OutcomeText ==
  ASSUME NEW s, NEW text
  PROVE  Outcome(s, Says(text)).reply.text = text
  BY DEF Outcome, Says

(* A get or a put is answered with a port or an error, unless it came in   *)
(* the middle of a login.                                                  *)
LEMMA TransferReplies ==
  ASSUME NEW s, NEW line, NEW online, line.cmd \in Transfers,
         NEW o \in execute(s, line, online)
  PROVE  o.reply.text \in {"output", "failed", "Access denied", "Login interrupted"}
<1>1. line.cmd \in {"get", "put"}  BY DEF Transfers
<1>2. CASE s.login_attempt # None
  <2>1. PICK t : o = Outcome(t, Says("Login interrupted"))
    BY <1>1, <1>2 DEF execute, executeDuringLogin
  <2>2. o.reply.text = "Login interrupted"  BY <2>1, OutcomeText
  <2>3. QED  BY <2>2
<1>3. CASE s.login_attempt = None
  <2>1. o \in executeCommand(s, line, online)  BY <1>1, <1>3 DEF execute
  <2>2. \E text \in {"output", "failed", "Access denied"} :
          o = Outcome(s, Says(text))
    BY <1>1, <2>1
    DEF executeCommand, executePrivileged, executeTransfer, PRIVILEGED_COMMANDS
  <2>3. QED  BY <2>2, OutcomeText
<1>4. QED  BY <1>2, <1>3

LEMMA Served ==
  ASSUME Service!TypeOK, Service!Serve(me)
  PROVE  /\ phase[me] = "open" /\ Len(replies) < Len(requests)
         /\ UNCHANGED <<sent, phase>>
         /\ session' \in [{me} -> State]
         /\ \E e \in Entry :
              /\ log' = [log EXCEPT ![me] = Append(@, e)]
              /\ requests[Len(replies) + 1].cmd \in Transfers =>
                   e.reply.text \in
                     {"output", "failed", "Access denied", "Login interrupted"}
<1>. DEFINE line == requests[Len(replies) + 1]
<1>1. /\ phase[me] = "open" /\ Len(replies) < Len(requests)
      /\ UNCHANGED <<sent, phase>>
      /\ line.cmd # "exit"
  BY DEF Service!Serve, requests, replies
<1>2. PICK o \in Service!execute(session[me], line, Service!Online) :
        /\ session' = [session EXCEPT ![me] = o.state]
        /\ log' = [log EXCEPT ![me] = Append(@, [line |-> line, reply |-> o.reply])]
  BY DEF Service!Serve, requests, replies
<1>3. /\ sent \in [{me} -> Seq(Line)] /\ session \in [{me} -> State]
      /\ log \in [{me} -> Seq(Entry)]
  BY ServiceTypes DEF DialogueTypes
<1>4. line \in Line /\ session[me] \in State
  <2>1. requests \in Seq(Line) /\ replies \in Seq(Entry)
    BY <1>3 DEF requests, replies
  <2>2. Len(replies) + 1 \in 1..Len(requests)  BY <1>1, <2>1
  <2>3. QED  BY <1>3, <2>1, <2>2
<1>5. o \in execute(session[me], line, Service!Online)
  BY <1>2, ServiceExecute
<1>. HIDE DEF line
<1>6. o \in [state : State, reply : Reply]
  BY <1>1, <1>4, <1>5, OnlineType, ExecuteKinds
<1>7. session' \in [{me} -> State]  BY <1>2, <1>3, <1>6
<1>. DEFINE e == [line |-> line, reply |-> o.reply]
<1>8. e \in Entry /\ e.reply = o.reply  BY <1>4, <1>6 DEF Entry
<1>9. line.cmd \in Transfers =>
        e.reply.text \in {"output", "failed", "Access denied", "Login interrupted"}
  BY <1>5, <1>8, TransferReplies
<1>10. log' = [log EXCEPT ![me] = Append(@, e)]  BY <1>2
<1>. HIDE DEF e
<1>11. QED  BY <1>1, <1>7, <1>8, <1>9, <1>10 DEF line

-------------------------------------------------------------------------------
(* The queues *)

(* Matches, for any set of numbers and any requests. *)
Lists(queue, S, r) ==
  \E number \in [DOMAIN queue -> S] :
    /\ \A j, k \in DOMAIN queue : j < k => number[j] < number[k]
    /\ \A n \in S : \E k \in DOMAIN queue : number[k] = n
    /\ \A k \in DOMAIN queue : queue[k] = FileOf(r[number[k]])

LEMMA ListsBy ==
  ASSUME NEW D, NEW queue, DOMAIN queue = D, NEW S, NEW r, NEW f \in [D -> S],
         \A j, k \in D : j < k => f[j] < f[k],
         \A n \in S : \E k \in D : f[k] = n,
         \A k \in D : queue[k] = FileOf(r[f[k]])
  PROVE  Lists(queue, S, r)
<1>. SUFFICES \E g \in [D -> S] :
                /\ \A j, k \in D : j < k => g[j] < g[k]
                /\ \A n \in S : \E k \in D : g[k] = n
                /\ \A k \in D : queue[k] = FileOf(r[g[k]])
  BY DEF Lists
<1>. WITNESS f \in [D -> S]
<1>. QED  OBVIOUS

LEMMA ListsKept ==
  ASSUME NEW queue, NEW S, NEW r, NEW q, Lists(queue, S, r),
         \A n \in S : q[n] = r[n]
  PROVE  Lists(queue, S, q)
<1>1. PICK number \in [DOMAIN queue -> S] :
        /\ \A j, k \in DOMAIN queue : j < k => number[j] < number[k]
        /\ \A n \in S : \E k \in DOMAIN queue : number[k] = n
        /\ \A k \in DOMAIN queue : queue[k] = FileOf(r[number[k]])
  BY DEF Lists
<1>2. \A k \in DOMAIN queue : queue[k] = FileOf(q[number[k]])
  BY <1>1
<1>3. QED  BY <1>1, <1>2 DEF Lists

(* A file is queued for a request that comes after all others. *)
LEMMA ListsAppended ==
  ASSUME NEW queue \in Seq(Path), NEW n \in Nat, NEW S \in SUBSET (1..n),
         NEW r, NEW q, Lists(queue, S, r),
         \A m \in 1..n : q[m] = r[m],
         NEW file, file = FileOf(q[n + 1])
  PROVE  Lists(Append(queue, file), S \cup {n + 1}, q)
<1>1. PICK number \in [DOMAIN queue -> S] :
        /\ \A j, k \in DOMAIN queue : j < k => number[j] < number[k]
        /\ \A m \in S : \E k \in DOMAIN queue : number[k] = m
        /\ \A k \in DOMAIN queue : queue[k] = FileOf(r[number[k]])
  BY DEF Lists
<1>. DEFINE l == Len(queue)
<1>. DEFINE new == Append(queue, file)
<1>2. /\ l \in Nat /\ DOMAIN queue = 1..l /\ DOMAIN new = 1..(l + 1)
      /\ \A k \in 1..l : new[k] = queue[k]
      /\ new[l + 1] = file
  OBVIOUS
<1>. DEFINE f == [k \in 1..(l + 1) |-> IF k = l + 1 THEN n + 1 ELSE number[k]]
<1>. HIDE DEF l, new
<1>3. /\ l + 1 \in 1..(l + 1)
      /\ \A k \in 1..l : k \in 1..(l + 1) /\ k # l + 1 /\ k < l + 1 /\ ~(l + 1 < k)
      /\ \A k \in 1..(l + 1) : k # l + 1 => k \in 1..l
  BY <1>2
<1>4. \A k \in 1..l : number[k] \in S /\ number[k] \in 1..n /\ number[k] < n + 1
  <2>1. \A k \in 1..l : number[k] \in S  BY <1>1, <1>2
  <2>2. \A m \in S : m \in 1..n /\ m < n + 1  OBVIOUS
  <2>3. QED  BY <2>1, <2>2
<1>5. /\ f \in [1..(l + 1) -> S \cup {n + 1}] /\ f[l + 1] = n + 1
      /\ \A k \in 1..l : f[k] = number[k]
  BY <1>3, <1>4
<1>. HIDE DEF f
<1>6. ASSUME NEW j \in 1..(l + 1), NEW k \in 1..(l + 1), j < k
      PROVE  f[j] < f[k]
  <2>1. j \in 1..l  BY <1>2, <1>6
  <2>2. CASE k = l + 1  BY <1>4, <1>5, <2>1, <2>2
  <2>3. CASE k \in 1..l  BY <1>1, <1>2, <1>5, <1>6, <2>1, <2>3
  <2>4. QED  BY <1>3, <2>2, <2>3
<1>7. ASSUME NEW m \in S \cup {n + 1}  PROVE \E k \in 1..(l + 1) : f[k] = m
  <2>1. CASE m = n + 1  BY <1>3, <1>5, <2>1
  <2>2. CASE m \in S
    <3>1. PICK k \in 1..l : number[k] = m  BY <1>1, <1>2, <2>2
    <3>2. QED  BY <1>3, <1>5, <3>1
  <2>3. QED  BY <2>1, <2>2
<1>8. ASSUME NEW k \in 1..(l + 1)  PROVE new[k] = FileOf(q[f[k]])
  <2>1. CASE k = l + 1
    <3>1. new[k] = file /\ f[k] = n + 1  BY <1>2, <1>5, <2>1
    <3>2. QED  BY <3>1
  <2>2. CASE k \in 1..l
    <3>1. new[k] = queue[k] /\ f[k] = number[k]  BY <1>2, <1>5, <2>2
    <3>2. q[number[k]] = r[number[k]]  BY <1>4, <2>2
    <3>3. queue[k] = FileOf(r[number[k]])  BY <1>1, <1>2, <2>2
    <3>4. QED  BY <3>1, <3>2, <3>3
  <2>3. QED  BY <1>3, <2>1, <2>2
<1>9. Lists(new, S \cup {n + 1}, q)
  BY <1>2, <1>5, <1>6, <1>7, <1>8, ListsBy
<1>10. QED  BY <1>9 DEF new

(* The first request of a queue is answered. *)
LEMMA ListsPopped ==
  ASSUME NEW queue \in Seq(Path), NEW S \in SUBSET Nat, NEW r, Lists(queue, S, r),
         NEW m \in S, \A n \in S : m <= n
  PROVE  /\ queue # << >>
         /\ Head(queue) = FileOf(r[m])
         /\ Lists(Tail(queue), S \ {m}, r)
<1>1. PICK number \in [DOMAIN queue -> S] :
        /\ \A j, k \in DOMAIN queue : j < k => number[j] < number[k]
        /\ \A n \in S : \E k \in DOMAIN queue : number[k] = n
        /\ \A k \in DOMAIN queue : queue[k] = FileOf(r[number[k]])
  BY DEF Lists
<1>2. PICK first \in DOMAIN queue : number[first] = m  BY <1>1
<1>. DEFINE l == Len(queue)
<1>3. l \in Nat /\ DOMAIN queue = 1..l /\ 1 \in 1..l /\ queue # << >>
  BY <1>2
<1>4. number[1] = m
  <2>1. number[1] \in S /\ number[1] \in Nat /\ m \in Nat /\ m <= number[1]
    BY <1>1, <1>3
  <2>2. CASE first = 1  BY <1>2, <2>2
  <2>3. CASE first # 1
    <3>1. 1 < first  BY <1>2, <1>3, <2>3
    <3>2. number[1] < m  BY <1>1, <1>2, <1>3, <3>1
    <3>3. QED  BY <2>1, <3>2
  <2>4. QED  BY <2>2, <2>3
<1>. DEFINE t == Tail(queue)
<1>5. /\ Head(queue) = queue[1] /\ DOMAIN t = 1..(l - 1)
      /\ \A k \in 1..(l - 1) : t[k] = queue[k + 1]
  BY <1>3
<1>. HIDE DEF t, l
<1>6. /\ \A k \in 1..(l - 1) : k + 1 \in 1..l /\ 1 < k + 1 /\ k \in Nat
      /\ \A k \in 1..l : k # 1 => k - 1 \in 1..(l - 1) /\ (k - 1) + 1 = k
  BY <1>3
<1>. DEFINE f == [k \in 1..(l - 1) |-> number[k + 1]]
<1>7. ASSUME NEW k \in 1..(l - 1)
      PROVE  f[k] = number[k + 1] /\ number[k + 1] \in S \ {m}
  <2>1. number[k + 1] \in S /\ number[1] < number[k + 1]
    BY <1>1, <1>3, <1>6
  <2>2. m \in Nat  OBVIOUS
  <2>3. number[k + 1] # m  BY <1>4, <2>1, <2>2
  <2>4. QED  BY <2>1, <2>3
<1>. HIDE DEF f
<1>8. f \in [1..(l - 1) -> S \ {m}]  BY <1>7 DEF f
<1>9. ASSUME NEW j \in 1..(l - 1), NEW k \in 1..(l - 1), j < k
      PROVE  f[j] < f[k]
  <2>1. j + 1 < k + 1  BY <1>6, <1>9
  <2>2. j + 1 \in DOMAIN queue /\ k + 1 \in DOMAIN queue  BY <1>3, <1>6
  <2>3. number[j + 1] < number[k + 1]  BY <1>1, <2>1, <2>2
  <2>4. QED  BY <1>7, <2>3
<1>10. ASSUME NEW n \in S \ {m}  PROVE \E k \in 1..(l - 1) : f[k] = n
  <2>1. PICK k \in 1..l : number[k] = n  BY <1>1, <1>3
  <2>2. k # 1  BY <1>4, <2>1
  <2>3. f[k - 1] = n  BY <1>6, <1>7, <2>1, <2>2
  <2>4. QED  BY <1>6, <2>2, <2>3
<1>11. ASSUME NEW k \in 1..(l - 1)  PROVE t[k] = FileOf(r[f[k]])
  BY <1>1, <1>3, <1>5, <1>6, <1>7
<1>12. Lists(t, S \ {m}, r)
  BY <1>5, <1>8, <1>9, <1>10, <1>11, ListsBy
<1>13. QED  BY <1>1, <1>3, <1>4, <1>5, <1>12 DEF t

-------------------------------------------------------------------------------
(* The steps that leave requests, replies and queues alone *)

LEMMA Basics ==
  ASSUME IInv
  PROVE  /\ sent \in [{me} -> Seq(Line)] /\ requests \in Seq(Line)
         /\ log \in [{me} -> Seq(Entry)] /\ replies \in Seq(Entry)
         /\ phase \in [{me} -> {"absent", "open", "closed"}]
         /\ session \in [{me} -> State]
         /\ Len(requests) \in Nat /\ Len(replies) \in Nat
         /\ typed \in Seq(Input) /\ Len(typed) \in Nat
         /\ handled \in Nat /\ handled <= Len(typed)
         /\ shown \in Nat /\ shown <= Len(replies)
         /\ MaxLines \in Nat /\ MaxTyped \in Nat /\ MaxTyped <= MaxLines
         /\ Len(requests) <= handled /\ Len(typed) <= MaxLines
         /\ Len(replies) <= Len(requests)
         /\ indented \subseteq 1..Len(requests)
<1>1. /\ sent \in [{me} -> Seq(Line)] /\ log \in [{me} -> Seq(Entry)]
      /\ phase \in [{me} -> {"absent", "open", "closed"}]
      /\ session \in [{me} -> State]
  BY ServiceTypes DEF DialogueTypes, IInv, TypeOK
<1>2. requests \in Seq(Line) /\ replies \in Seq(Entry)
  BY <1>1 DEF requests, replies
<1>3. typed \in Seq(Input) /\ handled \in 0..Len(typed) /\ shown \in 0..Len(replies)
  BY DEF IInv, TypeOK
<1>4. Len(requests) \in Nat /\ Len(replies) \in Nat /\ Len(typed) \in Nat
  BY <1>2, <1>3
<1>5. /\ Len(requests) <= handled /\ Len(typed) <= MaxLines
      /\ Len(replies) <= Len(requests)
      /\ indented \subseteq 1..Len(requests)
  BY DEF IInv, RequestsOK
<1>6. QED  BY <1>1, <1>2, <1>3, <1>4, <1>5, BoundAssumption

(* What a step leaves right that touches neither queues nor requests. *)
LEMMA QueuesKept ==
  ASSUME IInv, UNCHANGED <<sent, log, indented, shown, files_to_receive,
                           files_to_send, transfers>>,
         pc' = "undefined" => pc = "undefined",
         pc = "killed" => pc' = "killed"
  PROVE  QueuesMatchRequests' /\ TransfersOK'
<1>1. requests' = requests /\ replies' = replies  BY DEF requests, replies
<1>2. Orderly' <=> Orderly  BY <1>1 DEF Orderly
<1>3. \A cmd : Outstanding(cmd)' = Outstanding(cmd)  BY <1>1 DEF Outstanding
<1>4. /\ Matches(files_to_receive, "get")' <=> Matches(files_to_receive, "get")
      /\ Matches(files_to_send, "put")' <=> Matches(files_to_send, "put")
  BY <1>1, <1>3 DEF Matches
<1>5. RightFile' <=> RightFile  BY <1>1 DEF RightFile
<1>6. TransfersOK'  BY DEF IInv, TransfersOK
<1>7. QED  BY <1>2, <1>4, <1>5, <1>6 DEF IInv, QueuesMatchRequests

LEMMA Initially == Init => IInv
<1>. SUFFICES ASSUME Init  PROVE IInv
  OBVIOUS
<1>1. /\ sent = [c \in {me} |-> << >>] /\ phase = [c \in {me} |-> "absent"]
      /\ session = [c \in {me} |-> NewState] /\ log = [c \in {me} |-> << >>]
      /\ requests = << >> /\ replies = << >>
  BY DEF Init, Service!Init, requests, replies, Service!NewState, NewState
<1>2. MaxLines \in Nat  BY BoundAssumption
<1>3. typed \in Seq(Input) /\ Len(typed) <= MaxLines
  <2>1. CASE typed = << >>  BY <1>2, <2>1
  <2>2. CASE typed \in UNION {[1..n -> Input] : n \in 0..MaxLines}
    <3>1. PICK n \in 0..MaxLines : typed \in [1..n -> Input]  BY <2>2
    <3>2. QED  BY <1>2, <3>1
  <2>3. QED  BY <2>1, <2>2 DEF Init
<1>4. Service!TypeOK
  <2>1. NewState \in State  BY DEF NewState, State
  <2>2. << >> \in Seq(Line) /\ << >> \in Seq(Entry)  OBVIOUS
  <2>3. /\ sent \in [{me} -> Seq(Line)] /\ log \in [{me} -> Seq(Entry)]
        /\ phase \in [{me} -> {"absent", "open", "closed"}]
        /\ session \in [{me} -> State]
    BY <1>1, <2>1, <2>2, Zenon
  <2>4. QED  BY <2>3, ServiceTypes DEF DialogueTypes
<1>5. Len(typed) \in Nat /\ Len(<< >>) = 0 /\ DOMAIN << >> = {}  BY <1>3
<1>6. TypeOK
  <2>1. interactive \in BOOLEAN /\ eof \in BOOLEAN /\ input_closed \in BOOLEAN
    BY DEF Init
  <2>2. /\ indented \subseteq 1..MaxLines /\ handled \in 0..Len(typed)
        /\ shown \in 0..Len(replies)
        /\ files_to_receive \in Seq(FileName) /\ files_to_send \in Seq(Path)
        /\ \A t \in DOMAIN transfers : transfers[t].reply \in 1..shown
    BY <1>1, <1>5 DEF Init
  <2>3. socket = "open" /\ pc = "select"  BY DEF Init
  <2>4. QED  BY <1>3, <1>4, <2>1, <2>2, <2>3 DEF TypeOK
<1>7. RequestsOK /\ SocketOK /\ LoopOK /\ TransfersOK
  BY <1>1, <1>3, <1>5 DEF Init, RequestsOK, SocketOK, LoopOK, TransfersOK
<1>8. QueuesMatchRequests
  <2>1. \A cmd : Outstanding(cmd) = {}  BY <1>1, <1>5 DEF Init, Outstanding
  <2>2. \A cmd : Lists(<< >>, {}, requests)
    <3>. DEFINE f == [k \in {} |-> k]
    <3>1. f \in [{} -> {}]  OBVIOUS
    <3>. HIDE DEF f
    <3>2. QED  BY <1>5, <3>1, ListsBy
  <2>3. \A cmd : Matches(<< >>, cmd)  BY <2>1, <2>2 DEF Matches, Lists
  <2>4. RightFile  BY <1>5 DEF Init, RightFile
  <2>5. QED  BY <2>3, <2>4 DEF Init, QueuesMatchRequests
<1>9. LeavesNothingBehind  BY DEF Init, LeavesNothingBehind
<1>10. QED  BY <1>6, <1>7, <1>8, <1>9 DEF IInv

(* The user *)
LEMMA UserStep ==
  ASSUME IInv, (\E i \in Input : Type(i)) \/ EndInput
  PROVE  IInv'
<1>0. /\ typed \in Seq(Input) /\ Len(typed) \in Nat
      /\ handled \in Nat /\ handled <= Len(typed)
      /\ MaxLines \in Nat /\ MaxTyped \in Nat /\ MaxTyped <= MaxLines
      /\ Len(typed) <= MaxLines
  BY Basics
<1>1. /\ UNCHANGED <<sent, phase, session, log, indented, socket, interactive,
                     pc, handled, shown, transfers, input_closed,
                     files_to_receive, files_to_send>>
      /\ ~eof
      /\ \/ eof' = eof /\ Len(typed) < MaxTyped
            /\ \E i \in Input : typed' = Append(typed, i)
         \/ eof' = TRUE /\ typed' = typed
  BY DEF Type, EndInput, serviceVars, outputVars, queueVars
<1>2. requests' = requests /\ replies' = replies
  BY <1>1 DEF requests, replies
<1>3. /\ typed' \in Seq(Input) /\ Len(typed') \in Nat
      /\ Len(typed) <= Len(typed') /\ Len(typed') <= MaxLines
  <2>1. CASE typed' = typed  BY <1>0, <2>1
  <2>2. CASE Len(typed) < MaxTyped /\ \E i \in Input : typed' = Append(typed, i)
    BY <1>0, <2>2
  <2>3. QED  BY <1>0, <1>1, <2>1, <2>2
<1>4. Service!TypeOK'
  BY <1>1 DEF IInv, TypeOK, Service!TypeOK
<1>5. TypeOK'
  <2>1. /\ interactive' \in BOOLEAN /\ eof' \in BOOLEAN
        /\ input_closed' \in BOOLEAN
    BY <1>1, Zenon DEF IInv, TypeOK
  <2>2. handled' \in 0..Len(typed')  BY <1>0, <1>1, <1>3
  <2>3. QED  BY <1>1, <1>2, <1>3, <1>4, <2>1, <2>2 DEF IInv, TypeOK
<1>6. RequestsOK'
  BY <1>1, <1>2, <1>3 DEF IInv, RequestsOK
<1>7. SocketOK' /\ LoopOK'
  BY <1>1 DEF IInv, SocketOK, LoopOK
<1>9. QueuesMatchRequests' /\ TransfersOK'  BY <1>1, QueuesKept
<1>10. LeavesNothingBehind'
  BY <1>1, <1>2 DEF IInv, LeavesNothingBehind, LoopOK
<1>11. QED  BY <1>5, <1>6, <1>7, <1>9, <1>10 DEF IInv

(* The service *)
LEMMA ServeStep ==
  ASSUME IInv, Service!Serve(me),
         UNCHANGED <<indented, socket, interactive, typed, eof, pc, handled, shown,
                     transfers, input_closed, files_to_receive, files_to_send>>
  PROVE  IInv'
<1>1. /\ sent \in [{me} -> Seq(Line)] /\ requests \in Seq(Line)
      /\ log \in [{me} -> Seq(Entry)] /\ replies \in Seq(Entry)
      /\ phase \in [{me} -> {"absent", "open", "closed"}]
      /\ Len(requests) \in Nat /\ Len(replies) \in Nat
      /\ shown \in Nat /\ shown <= Len(replies)
      /\ indented \subseteq 1..Len(requests)
  BY Basics
<1>2. Service!TypeOK  BY DEF IInv, TypeOK
<1>3. /\ phase[me] = "open" /\ Len(replies) < Len(requests)
      /\ UNCHANGED <<sent, phase>> /\ session' \in [{me} -> State]
  BY <1>2, Served
<1>4. PICK e \in Entry :
        /\ log' = [log EXCEPT ![me] = Append(@, e)]
        /\ requests[Len(replies) + 1].cmd \in Transfers =>
             e.reply.text \in
               {"output", "failed", "Access denied", "Login interrupted"}
  BY <1>2, Served
<1>5. /\ replies' = Append(replies, e) /\ log' \in [{me} -> Seq(Entry)]
  <2>1. log[me] \in Seq(Entry)  BY <1>1
  <2>2. Append(log[me], e) \in Seq(Entry)  BY <2>1
  <2>3. log' \in [{me} -> Seq(Entry)] /\ log'[me] = Append(log[me], e)
    BY <1>1, <1>4, <2>2
  <2>4. QED  BY <2>3 DEF replies
<1>6. /\ Len(replies') = Len(replies) + 1
      /\ \A n \in 1..Len(replies) : replies'[n] = replies[n]
      /\ replies'[Len(replies) + 1] = e
      /\ DOMAIN replies = 1..Len(replies) /\ DOMAIN replies' = 1..(Len(replies) + 1)
  BY <1>1, <1>5
<1>7. requests' = requests  BY <1>3 DEF requests
<1>8. Service!TypeOK'
  <2>1. /\ sent' \in [{me} -> Seq(Line)] /\ session' \in [{me} -> State]
        /\ phase' \in [{me} -> {"absent", "open", "closed"}]
        /\ log' \in [{me} -> Seq(Entry)]
    BY <1>1, <1>3, <1>5
  <2>2. QED  BY <2>1, ServiceTypes DEF DialogueTypes
<1>9. TypeOK'
  <2>1. /\ interactive' \in BOOLEAN /\ eof' \in BOOLEAN
        /\ input_closed' \in BOOLEAN
    BY Zenon DEF IInv, TypeOK
  <2>2. shown' \in 0..Len(replies')  BY <1>1, <1>6
  <2>3. QED  BY <1>8, <2>1, <2>2 DEF IInv, TypeOK
<1>10. RequestsOK'
  <2>1. ASSUME NEW n \in 1..Len(replies'), requests'[n].cmd \in Transfers
        PROVE  replies'[n].reply.text \in
                 {"output", "failed", "Access denied", "Login interrupted"}
    <3>1. CASE n = Len(replies) + 1
      <4>1. replies'[n] = e /\ requests[Len(replies) + 1].cmd \in Transfers
        BY <1>6, <1>7, <2>1, <3>1
      <4>2. QED  BY <1>4, <4>1
    <3>2. CASE n \in 1..Len(replies)
      <4>1. requests[n].cmd \in Transfers =>
              replies[n].reply.text \in
                {"output", "failed", "Access denied", "Login interrupted"}
        BY <3>2 DEF IInv, RequestsOK
      <4>2. QED  BY <1>6, <1>7, <2>1, <3>2, <4>1
    <3>3. n = Len(replies) + 1 \/ n \in 1..Len(replies)
      <4>1. n \in 1..(Len(replies) + 1)  BY <1>6, <2>1
      <4>2. QED  BY <1>1, <4>1
    <3>4. QED  BY <3>1, <3>2, <3>3
  <2>2. Len(requests) <= handled /\ Len(typed) <= MaxLines  BY Basics
  <2>3. Len(replies') <= Len(requests)  BY <1>1, <1>3, <1>6
  <2>4. QED  BY <1>1, <1>7, <2>1, <2>2, <2>3 DEF RequestsOK
<1>11. SocketOK' /\ LoopOK' /\ TransfersOK'
  BY <1>3 DEF IInv, SocketOK, LoopOK, TransfersOK
<1>12. QueuesMatchRequests'
  <2>1. \A n \in 1..Len(replies) : n \in 1..Len(replies')  BY <1>1, <1>6
  <2>2. Orderly' => Orderly
    BY <1>6, <1>7, <2>1 DEF Orderly
  <2>3. \A cmd : Outstanding(cmd)' = Outstanding(cmd)
    BY <1>7 DEF Outstanding
  <2>4. /\ Matches(files_to_receive, "get")' <=> Matches(files_to_receive, "get")
        /\ Matches(files_to_send, "put")' <=> Matches(files_to_send, "put")
    BY <1>7, <2>3 DEF Matches
  <2>5. RightFile' <=> RightFile  BY <1>7 DEF RightFile
  <2>6. QED  BY <2>2, <2>4, <2>5 DEF IInv, QueuesMatchRequests
<1>13. LeavesNothingBehind'
  BY <1>3 DEF IInv, SocketOK, LeavesNothingBehind
<1>14. QED  BY <1>9, <1>10, <1>11, <1>12, <1>13 DEF IInv

LEMMA PhaseStep ==
  ASSUME IInv, Service!Open(me) \/ Service!Close(me),
         UNCHANGED <<indented, interactive, typed, eof, pc, handled, shown,
                     transfers, input_closed, files_to_receive, files_to_send>>,
         Service!Open(me) => socket' = socket,
         Service!Close(me) => socket' \in {"closed", "reset"}
  PROVE  IInv'
<1>1. /\ phase \in [{me} -> {"absent", "open", "closed"}]
      /\ session \in [{me} -> State]
  BY Basics
<1>2. /\ UNCHANGED <<sent, log>>
      /\ \/ /\ phase[me] = "absent" /\ phase' = [phase EXCEPT ![me] = "open"]
            /\ socket' = socket /\ session' = session
         \/ /\ phase[me] = "open" /\ phase' = [phase EXCEPT ![me] = "closed"]
            /\ socket' \in {"closed", "reset"}
            /\ session' = [session EXCEPT ![me] = NewState]
  BY DEF Service!Open, Service!Close, Service!NewState, NewState
<1>3. requests' = requests /\ replies' = replies
  BY <1>2 DEF requests, replies
<1>4. /\ phase' \in [{me} -> {"absent", "open", "closed"}]
      /\ session' \in [{me} -> State]
      /\ socket' \in {"open", "closed", "reset"}
  <2>1. NewState \in State  BY DEF NewState, State
  <2>2. socket \in {"open", "closed", "reset"}  BY DEF IInv, TypeOK
  <2>3. QED  BY <1>1, <1>2, <2>1, <2>2
<1>5. Service!TypeOK'
  <2>1. sent \in [{me} -> Seq(Line)] /\ log \in [{me} -> Seq(Entry)]  BY Basics
  <2>2. sent' \in [{me} -> Seq(Line)] /\ log' \in [{me} -> Seq(Entry)]
    BY <1>2, <2>1
  <2>3. QED  BY <1>4, <2>2, ServiceTypes DEF DialogueTypes
<1>6. TypeOK'
  <2>1. /\ interactive' \in BOOLEAN /\ eof' \in BOOLEAN
        /\ input_closed' \in BOOLEAN
    BY Zenon DEF IInv, TypeOK
  <2>2. QED  BY <1>3, <1>4, <1>5, <2>1 DEF IInv, TypeOK
<1>7. RequestsOK'  BY <1>3 DEF IInv, RequestsOK
<1>8. SocketOK'
  BY <1>1, <1>2 DEF IInv, SocketOK
<1>9. LoopOK'  BY DEF IInv, LoopOK
<1>10. QueuesMatchRequests' /\ TransfersOK'  BY <1>2, QueuesKept
<1>11. LeavesNothingBehind'
  BY <1>2, <1>3 DEF IInv, LeavesNothingBehind
<1>12. QED  BY <1>6, <1>7, <1>8, <1>9, <1>10, <1>11 DEF IInv

(* The places of the loop. *)
LEMMA LoopStep ==
  ASSUME IInv,
         SelectInput \/ SelectOutput \/ HandleInputReturns \/ HandleOutputReturns
  PROVE  IInv'
<1>1. /\ UNCHANGED <<sent, phase, session, log, indented, socket, interactive,
                     typed, eof, handled, shown, transfers, files_to_receive,
                     files_to_send>>
      /\ pc \in {"select", "input", "output"}
  BY DEF SelectInput, SelectOutput, HandleInputReturns, HandleOutputReturns,
    serviceVars, userVars, outputVars, queueVars
<1>2. requests' = requests /\ replies' = replies
  BY <1>1 DEF requests, replies
<1>3. /\ shown \in Nat /\ shown <= Len(replies) /\ Len(replies) \in Nat
      /\ handled \in Nat /\ handled <= Len(typed) /\ Len(typed) \in Nat
  BY Basics
<1>4. /\ interactive \in BOOLEAN /\ eof \in BOOLEAN /\ input_closed \in BOOLEAN
      /\ ~interactive => eof
      /\ input_closed => eof /\ handled = Len(typed)
      /\ pc = "output" /\ ~interactive => input_closed
  BY Zenon DEF IInv, TypeOK, LoopOK
<1>5. /\ pc' \in {"select", "input", "output", "left", "crashed"}
      /\ input_closed' \in BOOLEAN
      /\ input_closed' => eof /\ handled = Len(typed)
      /\ pc' = "output" /\ ~interactive => input_closed'
      /\ pc' = "left" /\ ~(interactive /\ input_closed') =>
           /\ socket # "open" /\ shown = Len(replies)
           /\ ~interactive => handled = Len(typed)
  <2>1. CASE SelectInput
    <3>1. /\ ~input_closed /\ (handled < Len(typed) \/ eof)
          /\ input_closed' = (handled = Len(typed))
          /\ IF handled = Len(typed)
               THEN pc' = IF interactive THEN "left" ELSE "select"
               ELSE pc' = "input"
      BY <2>1 DEF SelectInput, InputReady, Proceed
    <3>2. CASE handled = Len(typed)
      BY <1>3, <1>4, <3>1, <3>2
    <3>3. CASE handled # Len(typed)
      BY <1>4, <3>1, <3>3
    <3>4. QED  BY <3>2, <3>3
  <2>2. CASE HandleInputReturns
    <3>1. /\ handled = Len(typed) /\ input_closed' = eof
          /\ pc' = IF interactive /\ eof THEN "left" ELSE "select"
      BY <2>2 DEF HandleInputReturns, Proceed
    <3>2. QED  BY <1>4, <3>1
  <2>3. CASE SelectOutput
    <3>1. /\ input_closed \/ (~(handled < Len(typed)) /\ ~eof)
          /\ shown < Len(replies) \/ socket # "open"
          /\ input_closed' = input_closed
          /\ IF shown = Len(replies) THEN pc' = "left" ELSE pc' = "output"
      BY <2>3 DEF SelectOutput, InputReady, OutputReady, Proceed
    <3>2. CASE shown = Len(replies)  BY <1>3, <1>4, <3>1, <3>2
    <3>3. CASE shown # Len(replies)  BY <1>4, <3>1, <3>3
    <3>4. QED  BY <3>2, <3>3
  <2>4. CASE HandleOutputReturns
    <3>1. /\ pc = "output" /\ shown = Len(replies) /\ input_closed' = input_closed
          /\ IF socket = "reset" THEN pc' = "crashed"
               ELSE pc' = IF socket = "closed" \/ (interactive /\ input_closed)
                            THEN "left" ELSE "select"
      BY <2>4 DEF HandleOutputReturns, Proceed
    <3>2. QED  BY <1>4, <3>1
  <2>5. QED  BY <2>1, <2>2, <2>3, <2>4
<1>6. Service!TypeOK'
  BY <1>1 DEF IInv, TypeOK, Service!TypeOK
<1>7. TypeOK'
  <2>1. interactive' \in BOOLEAN /\ eof' \in BOOLEAN
    BY <1>1, <1>4, Zenon
  <2>2. pc' \in {"select", "input", "output"} \cup Ended  BY <1>5 DEF Ended
  <2>3. QED  BY <1>1, <1>2, <1>5, <1>6, <2>1, <2>2 DEF IInv, TypeOK
<1>8. RequestsOK' /\ SocketOK'
  BY <1>1, <1>2 DEF IInv, RequestsOK, SocketOK
<1>9. LoopOK'  BY <1>1, <1>4, <1>5, Zenon DEF LoopOK
<1>10. QueuesMatchRequests' /\ TransfersOK'  BY <1>1, <1>5, QueuesKept
<1>11. LeavesNothingBehind'
  BY <1>1, <1>2, <1>5, Zenon DEF LeavesNothingBehind
<1>12. QED  BY <1>7, <1>8, <1>9, <1>10, <1>11 DEF IInv

-------------------------------------------------------------------------------
(* The steps that make requests *)

(* A line is written to an open socket, or to one that the server closed.  *)
LEMMA RequestMade ==
  ASSUME IInv, NEW line \in Line,
         sent' = [sent EXCEPT ![me] = Append(@, line)], shown' = shown
  PROVE  /\ sent' \in [{me} -> Seq(Line)]
         /\ Len(requests') = Len(requests) + 1
         /\ \A n \in 1..Len(requests) : requests'[n] = requests[n]
         /\ requests'[Len(requests) + 1] = line
         /\ \A cmd : /\ Outstanding(cmd) \in SUBSET (1..Len(requests))
                     /\ line.cmd = cmd => Outstanding(cmd)' =
                          Outstanding(cmd) \cup {Len(requests) + 1}
                     /\ line.cmd # cmd => Outstanding(cmd)' = Outstanding(cmd)
<1>1. /\ sent \in [{me} -> Seq(Line)] /\ requests \in Seq(Line)
      /\ Len(requests) \in Nat /\ shown \in Nat
      /\ shown <= Len(replies) /\ Len(replies) <= Len(requests)
      /\ Len(replies) \in Nat
  BY Basics
<1>2. sent' \in [{me} -> Seq(Line)] /\ requests' = Append(requests, line)
  <2>1. Append(sent[me], line) \in Seq(Line)  BY <1>1
  <2>2. sent' \in [{me} -> Seq(Line)] /\ sent'[me] = Append(sent[me], line)
    BY <1>1, <2>1
  <2>3. QED  BY <2>2 DEF requests
<1>3. /\ Len(requests') = Len(requests) + 1
      /\ \A n \in 1..Len(requests) : requests'[n] = requests[n]
      /\ requests'[Len(requests) + 1] = line
  BY <1>1, <1>2
<1>4. ASSUME NEW cmd
      PROVE  /\ Outstanding(cmd) \in SUBSET (1..Len(requests))
             /\ line.cmd = cmd => Outstanding(cmd)' =
                  Outstanding(cmd) \cup {Len(requests) + 1}
             /\ line.cmd # cmd => Outstanding(cmd)' = Outstanding(cmd)
  <2>. DEFINE l == Len(requests)
  <2>1. \A n \in (shown + 1)..l : n \in 1..l  BY <1>1
  <2>2. (shown + 1)..(l + 1) = ((shown + 1)..l) \cup {l + 1}  BY <1>1
  <2>3. Outstanding(cmd)' = {n \in (shown + 1)..(l + 1) : requests'[n].cmd = cmd}
    BY <1>3 DEF Outstanding
  <2>4. Outstanding(cmd) = {n \in (shown + 1)..l : requests[n].cmd = cmd}
    BY DEF Outstanding
  <2>5. \A n \in (shown + 1)..l : requests'[n] = requests[n]  BY <1>3, <2>1
  <2>6. l + 1 \notin (shown + 1)..l  BY <1>1
  <2>. HIDE DEF l
  <2>7. requests'[l + 1] = line  BY <1>3 DEF l
  <2>8. Outstanding(cmd) \in SUBSET (1..l)  BY <2>1, <2>4
  <2>9. CASE line.cmd = cmd
    <3>1. Outstanding(cmd)' = Outstanding(cmd) \cup {l + 1}
      BY <2>2, <2>3, <2>4, <2>5, <2>7, <2>9
    <3>2. QED  BY <2>8, <2>9, <3>1 DEF l
  <2>10. CASE line.cmd # cmd
    <3>1. Outstanding(cmd)' = Outstanding(cmd)
      BY <2>2, <2>3, <2>4, <2>5, <2>7, <2>10
    <3>2. QED  BY <2>8, <2>10, <3>1 DEF l
  <2>11. QED  BY <2>9, <2>10
<1>5. QED  BY <1>2, <1>3, <1>4

LEMMA MatchesLists ==
  /\ Matches(files_to_receive, "get") <=>
       Lists(files_to_receive, Outstanding("get"), requests)
  /\ Matches(files_to_send, "put") <=>
       Lists(files_to_send, Outstanding("put"), requests)
  /\ Matches(files_to_receive, "get")' <=>
       Lists(files_to_receive', Outstanding("get")', requests')
  /\ Matches(files_to_send, "put")' <=>
       Lists(files_to_send', Outstanding("put")', requests')
  BY DEF Matches, Lists

(* What is left to show of the step for one line of input. *)
LEMMA LineHandled ==
  ASSUME IInv, pc = "input", handled < Len(typed), handled' = handled + 1,
         UNCHANGED <<phase, log, interactive, typed, eof, shown, transfers,
                     input_closed>>,
         Service!TypeOK',
         Len(requests') \in Nat, Len(requests') <= handled',
         Len(requests) <= Len(requests'),
         \A n \in 1..Len(requests) : requests'[n] = requests[n],
         indented' \subseteq 1..Len(requests'),
         socket' \in {"open", "closed", "reset"},
         socket' = "open" <=> socket = "open",
         pc' \in {"input", "killed"},
         files_to_receive' \in Seq(FileName), files_to_send' \in Seq(Path),
         QueuesMatchRequests'
  PROVE  IInv'
<1>1. /\ handled \in Nat /\ Len(typed) \in Nat /\ Len(replies) \in Nat
      /\ Len(typed) <= MaxLines /\ MaxLines \in Nat
      /\ Len(requests) \in Nat /\ Len(replies) <= Len(requests)
      /\ shown \in Nat /\ shown <= Len(replies)
  BY Basics
<1>2. replies' = replies  BY DEF replies
<1>3. TypeOK'
  <2>1. /\ interactive' \in BOOLEAN /\ eof' \in BOOLEAN
        /\ input_closed' \in BOOLEAN
    BY Zenon DEF IInv, TypeOK
  <2>2. handled' \in 0..Len(typed')  BY <1>1
  <2>3. indented' \subseteq 1..MaxLines
    <3>1. \A n \in 1..Len(requests') : n \in 1..MaxLines  BY <1>1, <2>2
    <3>2. QED  BY <3>1
  <2>4. pc' \in {"select", "input", "output"} \cup Ended  BY DEF Ended
  <2>5. /\ typed' \in Seq(Input) /\ shown' \in 0..Len(replies')
        /\ \A t \in DOMAIN transfers' : transfers'[t].reply \in 1..shown'
    BY <1>2 DEF IInv, TypeOK
  <2>6. QED  BY <2>1, <2>2, <2>3, <2>4, <2>5 DEF TypeOK
<1>4. RequestsOK'
  <2>1. ASSUME NEW n \in 1..Len(replies'), requests'[n].cmd \in Transfers
        PROVE  replies'[n].reply.text \in
                 {"output", "failed", "Access denied", "Login interrupted"}
    <3>1. n \in 1..Len(replies) /\ n \in 1..Len(requests)  BY <1>1, <1>2, <2>1
    <3>2. requests[n].cmd \in Transfers  BY <2>1, <3>1
    <3>3. replies[n].reply.text \in
            {"output", "failed", "Access denied", "Login interrupted"}
      BY <3>1, <3>2 DEF IInv, RequestsOK
    <3>4. QED  BY <1>2, <3>3
  <2>2. Len(replies') <= Len(requests')  BY <1>1, <1>2
  <2>3. QED  BY <1>1, <2>1, <2>2 DEF RequestsOK
<1>5. SocketOK' /\ TransfersOK'  BY DEF IInv, SocketOK, TransfersOK
<1>6. LoopOK'
  <2>1. ~input_closed
    <3>1. input_closed => handled = Len(typed)  BY DEF IInv, LoopOK
    <3>2. QED  BY <1>1, <3>1
  <2>2. QED  BY <2>1 DEF IInv, LoopOK
<1>7. LeavesNothingBehind'  BY DEF LeavesNothingBehind
<1>8. QED  BY <1>3, <1>4, <1>5, <1>6, <1>7 DEF IInv

LEMMA InputStep ==
  ASSUME IInv, HandleInput
  PROVE  IInv'
<1>1. /\ pc = "input" /\ handled < Len(typed) /\ handled' = handled + 1
      /\ UNCHANGED <<interactive, typed, eof, shown, transfers, input_closed>>
  BY DEF HandleInput, userVars, outputVars
<1>2. /\ handled \in Nat /\ Len(typed) \in Nat /\ typed \in Seq(Input)
      /\ Len(requests) \in Nat /\ Len(replies) \in Nat
      /\ Len(requests) <= handled /\ indented \subseteq 1..Len(requests)
      /\ Len(replies) <= Len(requests) /\ shown \in Nat /\ shown <= Len(replies)
      /\ log \in [{me} -> Seq(Entry)] /\ replies \in Seq(Entry)
      /\ phase \in [{me} -> {"absent", "open", "closed"}]
      /\ session \in [{me} -> State]
  BY Basics
<1>3. PICK i \in Input : i = typed[handled + 1]
  BY <1>1, <1>2
<1>4. /\ i.line \in Line
      /\ i.line.cmd \in Transfers => i.line.arg \in Path \cup {None}
  BY InputAssumption DEF InputLine
<1>5. \/ /\ i.line.cmd = "get" /\ ~i.indented
         /\ sendGetRequest(i) \/ refuseRequest(i)
      \/ /\ i.line.cmd = "put" /\ ~i.indented
         /\ sendPutRequest(i) \/ refuseRequest(i)
      \/ /\ i.line.cmd \notin Transfers \/ i.indented
         /\ Write(i)
         /\ UNCHANGED queueVars
  BY <1>3 DEF HandleInput
<1>6. files_to_receive \in Seq(FileName) /\ files_to_send \in Seq(Path)
      /\ socket \in {"open", "closed", "reset"}
  BY DEF IInv, TypeOK
<1>7. CASE UNCHANGED <<serviceVars, indented, socket, pc, queueVars>>
  <2>1. requests' = requests /\ replies' = replies
    BY <1>7 DEF requests, replies, serviceVars
  <2>2. Service!TypeOK'
    BY <1>7 DEF IInv, TypeOK, Service!TypeOK, serviceVars
  <2>3. QueuesMatchRequests'
    BY <1>1, <1>7, QueuesKept DEF serviceVars, queueVars
  <2>4. UNCHANGED <<phase, log, indented, socket, pc, files_to_receive, files_to_send>>
    BY <1>7 DEF serviceVars, queueVars
  <2>5. Len(requests') <= handled'  BY <1>1, <1>2, <2>1
  <2>6. QED  BY <1>1, <1>2, <1>6, <2>1, <2>2, <2>3, <2>4, <2>5, LineHandled
<1>8. ASSUME Write(i),
             files_to_receive' \in Seq(FileName), files_to_send' \in Seq(Path),
             /\ socket # "reset" /\ Orderly
             /\ i.indented => i.line.cmd \notin Transfers
             => Matches(files_to_receive, "get")' /\ Matches(files_to_send, "put")'
      PROVE  IInv'
  <2>1. CASE socket = "reset"
    <3>1. /\ pc' = "killed" /\ socket' = socket
          /\ UNCHANGED <<sent, phase, session, log, indented>>
      BY <1>8, <2>1 DEF Write, serviceVars
    <3>2. requests' = requests  BY <3>1 DEF requests
    <3>3. Service!TypeOK'
      BY <3>1 DEF IInv, TypeOK, Service!TypeOK
    <3>4. QueuesMatchRequests'  BY <3>1 DEF QueuesMatchRequests
    <3>5. Len(requests') <= handled'  BY <1>1, <1>2, <3>2
    <3>6. QED
      BY <1>1, <1>2, <1>6, <1>8, <3>1, <3>2, <3>3, <3>4, <3>5, LineHandled
  <2>2. CASE socket # "reset"
    <3>1. /\ sent' = [sent EXCEPT ![me] = Append(@, i.line)]
          /\ UNCHANGED <<phase, session, log, pc>>
          /\ indented' = IF i.indented THEN indented \cup {Len(requests) + 1}
                                       ELSE indented
          /\ socket' \in IF socket = "open" THEN {"open"} ELSE {"closed", "reset"}
      BY <1>8, <2>2 DEF Write
    <3>2. /\ sent' \in [{me} -> Seq(Line)]
          /\ Len(requests') = Len(requests) + 1
          /\ \A n \in 1..Len(requests) : requests'[n] = requests[n]
          /\ requests'[Len(requests) + 1] = i.line
      BY <1>1, <1>4, <3>1, RequestMade
    <3>3. replies' = replies  BY <3>1 DEF replies
    <3>4. Service!TypeOK'
      <4>1. /\ session' \in [{me} -> State] /\ log' \in [{me} -> Seq(Entry)]
            /\ phase' \in [{me} -> {"absent", "open", "closed"}]
        BY <1>2, <3>1
      <4>2. QED  BY <3>2, <4>1, ServiceTypes DEF DialogueTypes
    <3>5. /\ indented' \subseteq 1..Len(requests') /\ indented \subseteq indented'
          /\ i.indented => Len(requests) + 1 \in indented'
      <4>1. 1..Len(requests') = (1..Len(requests)) \cup {Len(requests) + 1}
        BY <1>2, <3>2
      <4>2. QED  BY <1>2, <3>1, <4>1
    <3>6. Orderly' => Orderly /\ (i.indented => i.line.cmd \notin Transfers)
      <4>1. SUFFICES ASSUME Orderly'
                     PROVE  Orderly /\ (i.indented => i.line.cmd \notin Transfers)
        OBVIOUS
      <4>2. /\ \A n \in indented' : requests'[n].cmd \notin Transfers
            /\ \A n \in DOMAIN replies' :
                 requests'[n].cmd \in Transfers =>
                   replies'[n].reply.text # "Login interrupted"
        BY <4>1 DEF Orderly
      <4>3. \A n \in indented : requests[n].cmd \notin Transfers
        BY <1>2, <3>2, <3>5, <4>2
      <4>4. \A n \in DOMAIN replies : n \in 1..Len(requests)
        BY <1>2
      <4>5. \A n \in DOMAIN replies :
              requests[n].cmd \in Transfers =>
                replies[n].reply.text # "Login interrupted"
        BY <3>2, <3>3, <4>2, <4>4
      <4>6. i.indented => i.line.cmd \notin Transfers
        BY <3>2, <3>5, <4>2
      <4>7. QED  BY <4>3, <4>5, <4>6 DEF Orderly
    <3>7. RightFile => RightFile'
      <4>1. \A t \in DOMAIN transfers : transfers[t].reply \in 1..Len(requests)
        <5>1. \A n \in 1..shown : n \in 1..Len(requests)  BY <1>2
        <5>2. QED  BY <5>1 DEF IInv, TypeOK
      <4>2. QED  BY <1>1, <3>2, <4>1 DEF RightFile
    <3>8. QueuesMatchRequests'
      BY <1>1, <1>8, <2>2, <3>1, <3>6, <3>7 DEF IInv, QueuesMatchRequests
    <3>9. /\ Len(requests') \in Nat /\ Len(requests') <= handled'
          /\ Len(requests) <= Len(requests')
      BY <1>1, <1>2, <3>2
    <3>10. /\ socket' \in {"open", "closed", "reset"}
           /\ socket' = "open" <=> socket = "open"
      BY <2>2, <1>6, <3>1
    <3>11. pc' = "input"  BY <1>1, <3>1
    <3>12. QED
      BY <1>1, <1>8, <3>1, <3>2, <3>4, <3>5, <3>8, <3>9, <3>10, <3>11, LineHandled
  <2>3. QED  BY <2>1, <2>2
<1>9. ASSUME Write(i), socket # "reset"
      PROVE  /\ \A n \in 1..Len(requests) : requests'[n] = requests[n]
             /\ requests'[Len(requests) + 1] = i.line
             /\ \A cmd : /\ Outstanding(cmd) \in SUBSET (1..Len(requests))
                         /\ i.line.cmd = cmd => Outstanding(cmd)' =
                              Outstanding(cmd) \cup {Len(requests) + 1}
                         /\ i.line.cmd # cmd => Outstanding(cmd)' = Outstanding(cmd)
  <2>1. sent' = [sent EXCEPT ![me] = Append(@, i.line)]  BY <1>9 DEF Write
  <2>2. QED  BY <1>1, <1>4, <2>1, RequestMade
<1>10. Orderly => /\ Lists(files_to_receive, Outstanding("get"), requests)
                  /\ Lists(files_to_send, Outstanding("put"), requests)
  BY <1>1, MatchesLists DEF IInv, QueuesMatchRequests
<1>11. CASE i.line.cmd = "get" /\ ~i.indented /\ sendGetRequest(i)
  <2>. PICK p \in Path : p = i.line.arg
    BY <1>4, <1>11 DEF sendGetRequest, Transfers
  <2>. DEFINE file == ExtractFilename(p)
  <2>1. file \in FileName
    BY NamesAssumption DEF ExtractFilename, FileName
  <2>2. /\ files_to_receive' = Append(files_to_receive, file)
        /\ files_to_send' = files_to_send /\ Write(i)
    BY <1>11 DEF sendGetRequest
  <2>3. file = FileOf(i.line)  BY <1>11 DEF FileOf
  <2>. HIDE DEF file
  <2>4. files_to_receive' \in Seq(FileName)  BY <1>6, <2>1, <2>2
  <2>5. ASSUME socket # "reset", Orderly
        PROVE  Matches(files_to_receive, "get")' /\ Matches(files_to_send, "put")'
    <3>1. /\ \A n \in 1..Len(requests) : requests'[n] = requests[n]
          /\ requests'[Len(requests) + 1] = i.line
          /\ Outstanding("get") \in SUBSET (1..Len(requests))
          /\ Outstanding("get")' = Outstanding("get") \cup {Len(requests) + 1}
          /\ Outstanding("put") \in SUBSET (1..Len(requests))
          /\ Outstanding("put")' = Outstanding("put")
      BY <1>9, <1>11, <2>2, <2>5
    <3>2. files_to_receive \in Seq(Path)  BY <1>6 DEF FileName
    <3>3. file = FileOf(requests'[Len(requests) + 1])  BY <2>3, <3>1
    <3>4. Lists(files_to_receive', Outstanding("get")', requests')
      <4>1. Lists(files_to_receive, Outstanding("get"), requests)  BY <1>10, <2>5
      <4>2. Lists(Append(files_to_receive, file),
                  Outstanding("get") \cup {Len(requests) + 1}, requests')
        BY <1>2, <3>1, <3>2, <3>3, <4>1, ListsAppended
      <4>3. QED  BY <2>2, <3>1, <4>2
    <3>5. Lists(files_to_send', Outstanding("put")', requests')
      BY <1>10, <2>2, <2>5, <3>1, ListsKept
    <3>6. QED  BY <3>4, <3>5, MatchesLists
  <2>6. QED  BY <1>6, <1>8, <2>2, <2>4, <2>5
<1>12. CASE i.line.cmd = "put" /\ ~i.indented /\ sendPutRequest(i)
  <2>. PICK p \in Path : p = i.line.arg
    BY <1>4, <1>12 DEF sendPutRequest, Transfers
  <2>1. /\ files_to_send' = Append(files_to_send, p)
        /\ files_to_receive' = files_to_receive /\ Write(i)
    BY <1>12 DEF sendPutRequest
  <2>2. p = FileOf(i.line)  BY <1>12 DEF FileOf
  <2>3. files_to_send' \in Seq(Path)  BY <1>6, <2>1
  <2>4. ASSUME socket # "reset", Orderly
        PROVE  Matches(files_to_receive, "get")' /\ Matches(files_to_send, "put")'
    <3>1. /\ \A n \in 1..Len(requests) : requests'[n] = requests[n]
          /\ requests'[Len(requests) + 1] = i.line
          /\ Outstanding("put") \in SUBSET (1..Len(requests))
          /\ Outstanding("put")' = Outstanding("put") \cup {Len(requests) + 1}
          /\ Outstanding("get") \in SUBSET (1..Len(requests))
          /\ Outstanding("get")' = Outstanding("get")
      BY <1>9, <1>12, <2>1, <2>4
    <3>2. p = FileOf(requests'[Len(requests) + 1])  BY <2>2, <3>1
    <3>3. Lists(files_to_send', Outstanding("put")', requests')
      <4>1. Lists(files_to_send, Outstanding("put"), requests)  BY <1>10, <2>4
      <4>2. Lists(Append(files_to_send, p),
                  Outstanding("put") \cup {Len(requests) + 1}, requests')
        BY <1>2, <1>6, <3>1, <3>2, <4>1, ListsAppended
      <4>3. QED  BY <2>1, <3>1, <4>2
    <3>4. Lists(files_to_receive', Outstanding("get")', requests')
      BY <1>10, <2>1, <2>4, <3>1, ListsKept
    <3>5. QED  BY <3>3, <3>4, MatchesLists
  <2>5. QED  BY <1>6, <1>8, <2>1, <2>3, <2>4
<1>13. CASE /\ i.line.cmd \notin Transfers \/ i.indented
            /\ Write(i) /\ UNCHANGED queueVars
  <2>1. files_to_receive' = files_to_receive /\ files_to_send' = files_to_send
    BY <1>13 DEF queueVars
  <2>2. ASSUME socket # "reset", Orderly, i.indented => i.line.cmd \notin Transfers
        PROVE  Matches(files_to_receive, "get")' /\ Matches(files_to_send, "put")'
    <3>1. i.line.cmd # "get" /\ i.line.cmd # "put"
      BY <1>13, <2>2 DEF Transfers
    <3>2. /\ \A n \in 1..Len(requests) : requests'[n] = requests[n]
          /\ \A cmd \in {"get", "put"} :
               /\ Outstanding(cmd) \in SUBSET (1..Len(requests))
               /\ Outstanding(cmd)' = Outstanding(cmd)
      BY <1>9, <1>13, <2>2, <3>1
    <3>3. Lists(files_to_receive', Outstanding("get")', requests')
      BY <1>10, <2>1, <2>2, <3>2, ListsKept
    <3>4. Lists(files_to_send', Outstanding("put")', requests')
      BY <1>10, <2>1, <2>2, <3>2, ListsKept
    <3>5. QED  BY <3>3, <3>4, MatchesLists
  <2>3. QED  BY <1>6, <1>8, <1>13, <2>1, <2>2
<1>14. ASSUME refuseRequest(i)  PROVE IInv'
  BY <1>7, <1>14 DEF refuseRequest
<1>15. QED  BY <1>5, <1>11, <1>12, <1>13, <1>14

-------------------------------------------------------------------------------
(* The steps that handle replies *)

(* The request that the next reply answers is the first outstanding one.   *)
LEMMA Answered ==
  ASSUME IInv, Orderly, pc = "output", shown < Len(replies), sent' = sent,
         NEW n, n = shown + 1, shown' = n
  PROVE  /\ requests[n].cmd = "get" =>
              /\ files_to_receive # << >>
              /\ Head(files_to_receive) = FileOf(requests[n])
              /\ Lists(Tail(files_to_receive), Outstanding("get")', requests)
              /\ Lists(files_to_send, Outstanding("put")', requests)
         /\ requests[n].cmd = "put" =>
              /\ files_to_send # << >>
              /\ Head(files_to_send) = FileOf(requests[n])
              /\ Lists(Tail(files_to_send), Outstanding("put")', requests)
              /\ Lists(files_to_receive, Outstanding("get")', requests)
         /\ requests[n].cmd \notin Transfers =>
              /\ Lists(files_to_receive, Outstanding("get")', requests)
              /\ Lists(files_to_send, Outstanding("put")', requests)
<1>1. /\ Len(requests) \in Nat /\ shown \in Nat /\ Len(replies) \in Nat
      /\ Len(replies) <= Len(requests)
  BY Basics
<1>2. /\ Lists(files_to_receive, Outstanding("get"), requests)
      /\ Lists(files_to_send, Outstanding("put"), requests)
  BY MatchesLists DEF IInv, QueuesMatchRequests
<1>3. files_to_receive \in Seq(Path) /\ files_to_send \in Seq(Path)
  BY DEF IInv, TypeOK, FileName
<1>4. requests' = requests  BY DEF requests
<1>5. /\ n \in n..Len(requests)
      /\ \A m \in n..Len(requests) : m \in Nat /\ n <= m
      /\ (n + 1)..Len(requests) = (n..Len(requests)) \ {n}
  BY <1>1
<1>6. ASSUME NEW cmd
      PROVE  /\ Outstanding(cmd) \in SUBSET Nat
             /\ \A m \in Outstanding(cmd) : n <= m
             /\ requests[n].cmd = cmd =>
                  /\ n \in Outstanding(cmd)
                  /\ Outstanding(cmd)' = Outstanding(cmd) \ {n}
             /\ requests[n].cmd # cmd => Outstanding(cmd)' = Outstanding(cmd)
  <2>1. Outstanding(cmd) = {m \in n..Len(requests) : requests[m].cmd = cmd}
    BY DEF Outstanding
  <2>2. Outstanding(cmd)' =
          {m \in (n + 1)..Len(requests) : requests[m].cmd = cmd}
    BY <1>4 DEF Outstanding
  <2>3. Outstanding(cmd)' =
          {m \in (n..Len(requests)) \ {n} : requests[m].cmd = cmd}
    BY <1>5, <2>2
  <2>4. QED  BY <1>5, <2>1, <2>3
<1>7. CASE requests[n].cmd = "get"
  <2>1. /\ n \in Outstanding("get") /\ Outstanding("get") \in SUBSET Nat
        /\ \A m \in Outstanding("get") : n <= m
        /\ Outstanding("get")' = Outstanding("get") \ {n}
        /\ Outstanding("put")' = Outstanding("put")
    BY <1>6, <1>7
  <2>2. /\ files_to_receive # << >>
        /\ Head(files_to_receive) = FileOf(requests[n])
        /\ Lists(Tail(files_to_receive), Outstanding("get") \ {n}, requests)
    BY <1>2, <1>3, <2>1, ListsPopped
  <2>3. QED  BY <1>2, <1>7, <2>1, <2>2 DEF Transfers
<1>8. CASE requests[n].cmd = "put"
  <2>1. /\ n \in Outstanding("put") /\ Outstanding("put") \in SUBSET Nat
        /\ \A m \in Outstanding("put") : n <= m
        /\ Outstanding("put")' = Outstanding("put") \ {n}
        /\ Outstanding("get")' = Outstanding("get")
    BY <1>6, <1>8
  <2>2. /\ files_to_send # << >>
        /\ Head(files_to_send) = FileOf(requests[n])
        /\ Lists(Tail(files_to_send), Outstanding("put") \ {n}, requests)
    <3>1. /\ files_to_send \in Seq(Path)
          /\ Lists(files_to_send, Outstanding("put"), requests)
      BY <1>2, <1>3
    <3>2. QED  BY <2>1, <3>1, ListsPopped
  <2>3. QED  BY <1>2, <1>8, <2>1, <2>2 DEF Transfers
<1>9. CASE requests[n].cmd \notin Transfers
  <2>1. /\ requests[n].cmd # "get" /\ requests[n].cmd # "put"
    BY <1>9 DEF Transfers
  <2>2. /\ Outstanding("get")' = Outstanding("get")
        /\ Outstanding("put")' = Outstanding("put")
    BY <1>6, <2>1
  <2>3. QED  BY <1>2, <2>1, <2>2
<1>10. QED  BY <1>7, <1>8, <1>9 DEF Transfers

LEMMA OutputStep ==
  ASSUME IInv, HandleOutput
  PROVE  IInv'
<1>. PICK n : n = shown + 1
  OBVIOUS
<1>1. /\ pc = "output" /\ shown < Len(replies) /\ shown' = n
      /\ UNCHANGED <<sent, phase, session, log, indented, socket, interactive,
                     typed, eof, handled, input_closed>>
  BY DEF HandleOutput, serviceVars, userVars
<1>2. \/ IsPort(n, "get") /\ receiveFile(n)
      \/ IsPort(n, "put") /\ sendFile(n)
      \/ IsError(n, "get") /\ dropFileToReceive /\ UNCHANGED transfers
      \/ IsError(n, "put") /\ dropFileToSend /\ UNCHANGED transfers
      \/ /\ \A cmd \in Transfers : ~IsPort(n, cmd) /\ ~IsError(n, cmd)
         /\ UNCHANGED <<pc, queueVars, transfers>>
  BY DEF HandleOutput
<1>3. /\ requests' = requests /\ replies' = replies
  BY <1>1 DEF requests, replies
<1>4. /\ shown \in Nat /\ Len(replies) \in Nat /\ Len(requests) \in Nat
      /\ Len(replies) <= Len(requests) /\ replies \in Seq(Entry)
  BY Basics
<1>5. n \in 1..Len(replies) /\ n \in DOMAIN replies /\ n \in 0..Len(replies)
  BY <1>1, <1>4
<1>6. /\ files_to_receive \in Seq(FileName) /\ files_to_send \in Seq(Path)
      /\ transfers \in Seq([reply : Nat, file : Path])
  BY DEF IInv, TypeOK, TransfersOK
<1>7. \A queue : queue # << >> /\ queue \in Seq(FileName) =>
                  Tail(queue) \in Seq(FileName) /\ Head(queue) \in FileName
  OBVIOUS
<1>8. \A queue : queue # << >> /\ queue \in Seq(Path) =>
                  Tail(queue) \in Seq(Path) /\ Head(queue) \in Path
  OBVIOUS
<1>9. /\ pc' \in {"output", "undefined"}
      /\ files_to_receive' \in Seq(FileName) /\ files_to_send' \in Seq(Path)
      /\ \/ transfers' = transfers
         \/ \E file \in Path :
              transfers' = Append(transfers, [reply |-> n, file |-> file])
  <2>1. CASE IsPort(n, "get") /\ receiveFile(n)
    <3>1. CASE files_to_receive = << >>
      BY <1>6, <2>1, <3>1 DEF receiveFile, queueVars
    <3>2. CASE files_to_receive # << >>
      <4>1. /\ Start(n, Head(files_to_receive)) /\ pc' = pc
            /\ files_to_receive' = Tail(files_to_receive)
            /\ files_to_send' = files_to_send
        BY <2>1, <3>2 DEF receiveFile
      <4>2. Head(files_to_receive) \in Path
        BY <1>6, <1>7, <3>2 DEF FileName
      <4>3. QED  BY <1>1, <1>6, <1>7, <3>2, <4>1, <4>2 DEF Start
    <3>3. QED  BY <3>1, <3>2
  <2>2. CASE IsPort(n, "put") /\ sendFile(n)
    <3>1. CASE files_to_send = << >>
      BY <1>6, <2>2, <3>1 DEF sendFile, queueVars
    <3>2. CASE files_to_send # << >>
      <4>1. /\ Start(n, Head(files_to_send)) /\ pc' = pc
            /\ files_to_send' = Tail(files_to_send)
            /\ files_to_receive' = files_to_receive
        BY <2>2, <3>2 DEF sendFile
      <4>2. QED  BY <1>1, <1>6, <1>8, <3>2, <4>1 DEF Start
    <3>3. QED  BY <3>1, <3>2
  <2>3. CASE dropFileToReceive /\ UNCHANGED transfers
    BY <1>1, <1>6, <1>7, <2>3 DEF dropFileToReceive, queueVars
  <2>4. CASE dropFileToSend /\ UNCHANGED transfers
    BY <1>1, <1>6, <1>8, <2>4 DEF dropFileToSend, queueVars
  <2>5. CASE UNCHANGED <<pc, queueVars, transfers>>
    BY <1>1, <1>6, <2>5 DEF queueVars
  <2>6. QED  BY <1>2, <2>1, <2>2, <2>3, <2>4, <2>5
<1>10. /\ transfers' \in Seq([reply : Nat, file : Path])
       /\ \A t \in DOMAIN transfers' : transfers'[t].reply \in 1..n
  <2>1. \A t \in DOMAIN transfers : transfers[t].reply \in 1..n
    <3>1. \A t \in DOMAIN transfers : transfers[t].reply \in 1..shown
      BY DEF IInv, TypeOK
    <3>2. \A k \in 1..shown : k \in 1..n  BY <1>4
    <3>3. QED  BY <3>1, <3>2
  <2>2. CASE transfers' = transfers  BY <1>6, <2>1, <2>2
  <2>3. ASSUME NEW file \in Path,
               transfers' = Append(transfers, [reply |-> n, file |-> file])
        PROVE  /\ transfers' \in Seq([reply : Nat, file : Path])
               /\ \A t \in DOMAIN transfers' : transfers'[t].reply \in 1..n
    <3>. DEFINE e == [reply |-> n, file |-> file]
    <3>1. e \in [reply : Nat, file : Path] /\ e.reply \in 1..n  BY <1>4
    <3>2. transfers' = Append(transfers, e)  BY <2>3
    <3>. HIDE DEF e
    <3>3. transfers' \in Seq([reply : Nat, file : Path])  BY <1>6, <3>1, <3>2
    <3>4. /\ DOMAIN transfers = 1..Len(transfers) /\ Len(transfers) \in Nat
          /\ DOMAIN transfers' = 1..(Len(transfers) + 1)
          /\ \A t \in 1..Len(transfers) : transfers'[t] = transfers[t]
          /\ transfers'[Len(transfers) + 1] = e
      BY <1>6, <3>1, <3>2
    <3>5. \A t \in 1..(Len(transfers) + 1) :
            t \in 1..Len(transfers) \/ t = Len(transfers) + 1
      BY <3>4
    <3>6. QED  BY <2>1, <3>1, <3>3, <3>4, <3>5
  <2>4. QED  BY <1>9, <2>2, <2>3
<1>11. Service!TypeOK'
  BY <1>1 DEF IInv, TypeOK, Service!TypeOK
<1>12. TypeOK'
  <2>1. /\ interactive' \in BOOLEAN /\ eof' \in BOOLEAN
        /\ input_closed' \in BOOLEAN
    BY <1>1, Zenon DEF IInv, TypeOK
  <2>2. pc' \in {"select", "input", "output"} \cup Ended  BY <1>9 DEF Ended
  <2>3. QED
    BY <1>1, <1>3, <1>5, <1>9, <1>10, <1>11, <2>1, <2>2 DEF IInv, TypeOK
<1>13. RequestsOK' /\ SocketOK' /\ TransfersOK'
  BY <1>1, <1>3, <1>10 DEF IInv, RequestsOK, SocketOK, TransfersOK
<1>14. LoopOK'  BY <1>1, <1>9 DEF IInv, LoopOK
<1>15. LeavesNothingBehind'  BY <1>9 DEF LeavesNothingBehind
<1>16. QueuesMatchRequests'
  <2>. SUFFICES ASSUME Orderly
                PROVE  /\ Matches(files_to_receive, "get")'
                       /\ Matches(files_to_send, "put")'
                       /\ RightFile' /\ pc' # "undefined"
    BY <1>1, <1>3 DEF Orderly, QueuesMatchRequests
  <2>1. /\ requests[n].cmd \in Transfers => n \notin indented
        /\ requests[n].cmd \in Transfers =>
             replies[n].reply.text \in {"output", "failed", "Access denied"}
    BY <1>5 DEF Orderly, IInv, RequestsOK
  <2>2. /\ \A cmd : IsPort(n, cmd) \/ IsError(n, cmd) => requests[n].cmd = cmd
        /\ requests[n].cmd \in Transfers =>
             \E cmd \in Transfers : IsPort(n, cmd) \/ IsError(n, cmd)
    BY <2>1 DEF IsPort, IsError
  <2>3. RightFile  BY <1>1 DEF IInv, QueuesMatchRequests
  <2>4. ASSUME NEW file, file = FileOf(requests[n]),
               \/ transfers' = transfers
               \/ transfers' = Append(transfers, [reply |-> n, file |-> file])
        PROVE  RightFile'
    <3>. DEFINE e == [reply |-> n, file |-> file]
    <3>1. CASE transfers' = transfers  BY <1>3, <2>3, <3>1 DEF RightFile
    <3>2. CASE transfers' = Append(transfers, e)
      <4>1. e.reply = n /\ e.file = file  OBVIOUS
      <4>. HIDE DEF e
      <4>2. /\ DOMAIN transfers = 1..Len(transfers) /\ Len(transfers) \in Nat
            /\ DOMAIN transfers' = 1..(Len(transfers) + 1)
            /\ \A t \in 1..Len(transfers) : transfers'[t] = transfers[t]
            /\ transfers'[Len(transfers) + 1] = e
        BY <1>6, <3>2
      <4>3. \A t \in 1..(Len(transfers) + 1) :
              t \in 1..Len(transfers) \/ t = Len(transfers) + 1
        BY <4>2
      <4>4. ASSUME NEW t \in DOMAIN transfers'
            PROVE  transfers'[t].file = FileOf(requests'[transfers'[t].reply])
        <5>1. CASE t \in 1..Len(transfers)
          BY <1>3, <2>3, <4>2, <5>1 DEF RightFile
        <5>2. CASE t = Len(transfers) + 1
          <6>1. transfers'[t].file = FileOf(requests[n]) /\ transfers'[t].reply = n
            BY <2>4, <4>1, <4>2, <5>2
          <6>2. QED  BY <1>3, <6>1
        <5>3. QED  BY <4>2, <4>3, <5>1, <5>2
      <4>5. QED  BY <4>4 DEF RightFile
    <3>3. QED  BY <2>4, <3>1, <3>2
  <2>5. /\ requests[n].cmd = "get" =>
             /\ files_to_receive # << >>
             /\ Head(files_to_receive) = FileOf(requests[n])
             /\ Lists(Tail(files_to_receive), Outstanding("get")', requests)
             /\ Lists(files_to_send, Outstanding("put")', requests)
        /\ requests[n].cmd = "put" =>
             /\ files_to_send # << >>
             /\ Head(files_to_send) = FileOf(requests[n])
             /\ Lists(Tail(files_to_send), Outstanding("put")', requests)
             /\ Lists(files_to_receive, Outstanding("get")', requests)
        /\ requests[n].cmd \notin Transfers =>
             /\ Lists(files_to_receive, Outstanding("get")', requests)
             /\ Lists(files_to_send, Outstanding("put")', requests)
    BY <1>1, Answered
  <2>6. CASE requests[n].cmd = "get"
    <3>1. (IsPort(n, "get") /\ receiveFile(n))
            \/ (dropFileToReceive /\ UNCHANGED transfers)
      BY <1>2, <2>2, <2>6 DEF Transfers
    <3>2. /\ files_to_receive' = Tail(files_to_receive)
          /\ files_to_send' = files_to_send /\ pc' = pc
          /\ \/ transfers' = transfers
             \/ transfers' = Append(transfers,
                               [reply |-> n, file |-> Head(files_to_receive)])
      BY <2>5, <2>6, <3>1 DEF receiveFile, dropFileToReceive, Start
    <3>3. RightFile'  BY <2>4, <2>5, <2>6, <3>2
    <3>4. /\ Matches(files_to_receive, "get")' /\ Matches(files_to_send, "put")'
      BY <1>3, <2>5, <2>6, <3>2, MatchesLists
    <3>5. QED  BY <1>1, <3>2, <3>3, <3>4
  <2>7. CASE requests[n].cmd = "put"
    <3>1. (IsPort(n, "put") /\ sendFile(n))
            \/ (dropFileToSend /\ UNCHANGED transfers)
      BY <1>2, <2>2, <2>7 DEF Transfers
    <3>2. /\ files_to_send' = Tail(files_to_send)
          /\ files_to_receive' = files_to_receive /\ pc' = pc
          /\ \/ transfers' = transfers
             \/ transfers' = Append(transfers,
                               [reply |-> n, file |-> Head(files_to_send)])
      BY <2>5, <2>7, <3>1 DEF sendFile, dropFileToSend, Start
    <3>3. RightFile'  BY <2>4, <2>5, <2>7, <3>2
    <3>4. /\ Matches(files_to_receive, "get")' /\ Matches(files_to_send, "put")'
      BY <1>3, <2>5, <2>7, <3>2, MatchesLists
    <3>5. QED  BY <1>1, <3>2, <3>3, <3>4
  <2>8. CASE requests[n].cmd \notin Transfers
    <3>1. UNCHANGED <<pc, files_to_receive, files_to_send, transfers>>
      BY <1>2, <2>2, <2>8 DEF Transfers, queueVars
    <3>2. RightFile'  BY <1>3, <2>3, <3>1 DEF RightFile
    <3>3. /\ Matches(files_to_receive, "get")' /\ Matches(files_to_send, "put")'
      BY <1>3, <2>5, <2>8, <3>1, MatchesLists
    <3>4. QED  BY <1>1, <3>1, <3>2, <3>3
  <2>9. QED  BY <2>6, <2>7, <2>8 DEF Transfers
<1>17. QED
  BY <1>12, <1>13, <1>14, <1>15, <1>16 DEF IInv

-------------------------------------------------------------------------------
(* The theorems *)

LEMMA Step == IInv /\ [Next]_vars => IInv'
<1>. SUFFICES ASSUME IInv, [Next]_vars  PROVE IInv'
  OBVIOUS
<1>1. CASE (\E i \in Input : Type(i)) \/ EndInput  BY <1>1, UserStep
<1>2. CASE ServiceRuns
  <2>1. UNCHANGED <<indented, socket, interactive, typed, eof, pc, handled, shown,
                    transfers, input_closed, files_to_receive, files_to_send>>
    BY <1>2 DEF ServiceRuns, userVars, outputVars, queueVars
  <2>2. CASE Service!Serve(me)  BY <2>1, <2>2, ServeStep
  <2>3. CASE Service!Open(me)
    <3>1. ~Service!Close(me)
      <4>1. phase[me] = "absent"  BY <2>3 DEF Service!Open
      <4>2. QED  BY <4>1 DEF Service!Close
    <3>2. QED  BY <2>1, <2>3, <3>1, PhaseStep
  <2>4. QED  BY <1>2, <2>2, <2>3 DEF ServiceRuns
<1>3. CASE ServiceCloses
  <2>1. /\ Service!Close(me) /\ socket' \in {"closed", "reset"}
        /\ UNCHANGED <<indented, interactive, typed, eof, pc, handled, shown,
                       transfers, input_closed, files_to_receive, files_to_send>>
    BY <1>3 DEF ServiceCloses, userVars, outputVars, queueVars
  <2>2. ~Service!Open(me)
    <3>1. phase[me] = "open"  BY <2>1 DEF Service!Close
    <3>2. QED  BY <3>1 DEF Service!Open
  <2>3. QED  BY <2>1, <2>2, PhaseStep
<1>4. CASE run
  BY <1>4, LoopStep, InputStep, OutputStep DEF run
<1>5. CASE UNCHANGED vars
  <2>1. /\ UNCHANGED <<sent, phase, session, log, indented, socket, interactive,
                       typed, eof, pc, handled, shown, transfers, input_closed,
                       files_to_receive, files_to_send>>
    BY <1>5 DEF vars, serviceVars, userVars, outputVars, queueVars
  <2>2. requests' = requests /\ replies' = replies
    BY <2>1 DEF requests, replies
  <2>3. Service!TypeOK'  BY <2>1 DEF IInv, TypeOK, Service!TypeOK
  <2>4. /\ interactive' \in BOOLEAN /\ eof' \in BOOLEAN
        /\ input_closed' \in BOOLEAN
    BY <2>1, Zenon DEF IInv, TypeOK
  <2>5. TypeOK'  BY <2>1, <2>2, <2>3, <2>4 DEF IInv, TypeOK
  <2>6. QueuesMatchRequests' /\ TransfersOK'  BY <2>1, QueuesKept
  <2>7. RequestsOK' /\ SocketOK' /\ LoopOK' /\ LeavesNothingBehind'
    BY <2>1, <2>2
    DEF IInv, RequestsOK, SocketOK, LoopOK, LeavesNothingBehind
  <2>8. QED  BY <2>5, <2>6, <2>7 DEF IInv
<1>6. QED  BY <1>1, <1>2, <1>3, <1>4, <1>5 DEF Next

LEMMA Invariance == Spec => []IInv
  BY Initially, Step, PTL DEF Spec

(* Whatever the user types and whenever the server closes the connection,  *)
(* the client and its dialogue with the service are well-formed: it has    *)
(* made no more requests than it was given lines, has handled no reply     *)
(* that was not made, and its queues hold file names and paths             *)
(* (ClientManager::run, handleInput, handleOutput).                        *)
THEOREM ClientTypeCorrect == Spec => []TypeOK
<1>1. IInv => TypeOK  BY DEF IInv
<1>2. QED  BY <1>1, Invariance, PTL

(* The two queues hold the files of exactly the gets and puts that have no  *)
(* reply yet, in the order of the requests, each transfer has used the file *)
(* of the request it answers, and front() of an empty queue is never used;  *)
(* unless a request was indented or interrupted a login (sendGetRequest,    *)
(* sendPutRequest, and the matching of replies in handleOutput).            *)
THEOREM QueuesFollowRequests == Spec => []QueuesMatchRequests
<1>1. IInv => QueuesMatchRequests  BY DEF IInv
<1>2. QED  BY <1>1, Invariance, PTL

(* A client that leaves has handled every reply there was, unless it is     *)
(* interactive and leaves at the end of its input; and it has handled all   *)
(* of its input, unless it is interactive and leaves because the connection *)
(* is closed (the loop of run, which serves stdin first, and IsClosed,      *)
(* which counts the bytes that are still unread).                           *)
THEOREM NothingLeftBehind == Spec => []LeavesNothingBehind
<1>1. IInv => LeavesNothingBehind  BY DEF IInv
<1>2. QED  BY <1>1, Invariance, PTL
===============================================================================
