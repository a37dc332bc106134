--------------------------- MODULE DirectoryProofs ---------------------------
(***************************************************************************)
(* Proofs about Directory, for any sessions, names and path arguments, of  *)
(* any length: its types, that uploads stay in the directory of their      *)
(* session or in its place, and that a path means to a session what it     *)
(* means to the kernel.                                                    *)
(***************************************************************************)
EXTENDS Directory, FiniteSetTheorems, SequenceTheorems, WellFoundedInduction,
        TLAPS

-------------------------------------------------------------------------------
(* Induction on the numbers, for a set: no operator stands for its property. *)

LEMMA Least ==
  ASSUME NEW T \in SUBSET Nat, T # {}
  PROVE  \E n \in T : \A m \in T : n <= m
<1>1. IsWellFoundedOn(OpToRel(<, Nat), Nat)
  BY NatLessThanWellFounded, Zenon
<1>2. PICK n \in T : \A m \in T : <<m, n>> \notin OpToRel(<, Nat)
  BY <1>1, WFMin, Zenon
<1>3. \A m \in T : ~(m < n)
  BY <1>2 DEF OpToRel
<1>4. QED
  BY <1>3

LEMMA Induction ==
  ASSUME NEW T, 0 \in T, \A n \in Nat : n \in T => n + 1 \in T
  PROVE  Nat \subseteq T
<1>1. SUFFICES ASSUME Nat \ T # {} PROVE FALSE
  OBVIOUS
<1>2. PICK n \in Nat \ T : \A m \in Nat \ T : n <= m
  <2>1. Nat \ T \in SUBSET Nat
    OBVIOUS
  <2>2. QED
    BY <1>1, <2>1, Least
<1>3. n - 1 \in Nat /\ n - 1 \in T
  BY <1>2
<1>4. QED
  BY <1>2, <1>3

-------------------------------------------------------------------------------
(* The recursion in TokenizePath and in KernelPath. *)

\* The path after one more token.
Token1(place, token) ==
  CASE place = None -> None
    [] place # None /\ token \in {"", "."} -> place
    [] place # None /\ token = ".." ->
         IF place = << >> THEN None ELSE Front(place)
    [] place # None /\ token \in Name -> Append(place, token)

Tokenizes(to, path, arg, m) ==
  to = [n \in 0..m |-> IF n = 0 THEN path ELSE Token1(to[n - 1], arg[n])]

Follows(at, path, arg, m) ==
  at = [n \in 0..m |-> IF n = 0 THEN path ELSE Follow(at[n - 1], arg[n])]

LEMMA TokenizesExists ==
  ASSUME NEW path, NEW arg, NEW m \in Nat
  PROVE  \E to : Tokenizes(to, path, arg, m)
<1> DEFINE T == {k \in Nat : \E to : Tokenizes(to, path, arg, k)}
<1>1. 0 \in T
  <2>1. Tokenizes([n \in 0..0 |-> path], path, arg, 0)
    BY DEF Tokenizes
  <2>2. QED
    BY <2>1
<1>2. ASSUME NEW k \in Nat, k \in T
      PROVE  k + 1 \in T
  <2>1. PICK to : Tokenizes(to, path, arg, k)
    BY <1>2
  <2> DEFINE next == [n \in 0..(k + 1) |->
                        IF n <= k THEN to[n] ELSE Token1(to[k], arg[k + 1])]
  <2>2. \A n \in 0..(k + 1) :
          next[n] = IF n = 0 THEN path ELSE Token1(next[n - 1], arg[n])
    <3>1. SUFFICES ASSUME NEW n \in 0..(k + 1)
                   PROVE  next[n] = IF n = 0 THEN path
                                      ELSE Token1(next[n - 1], arg[n])
      OBVIOUS
    <3>2. \A i \in 0..k : to[i] = IF i = 0 THEN path
                                    ELSE Token1(to[i - 1], arg[i])
      BY <2>1 DEF Tokenizes
    <3>3. CASE n <= k
      BY <3>2, <3>3
    <3>4. CASE n = k + 1
      BY <3>4
    <3>5. QED
      BY <3>3, <3>4
  <2>3. Tokenizes(next, path, arg, k + 1)
    <3> HIDE DEF next
    <3>1. next = [n \in 0..(k + 1) |-> next[n]]
      BY DEF next
    <3>2. QED
      BY <2>2, <3>1 DEF Tokenizes
  <2>4. QED
    BY <2>3
<1>3. QED
  <2> HIDE DEF T
  <2>1. Nat \subseteq T
    BY <1>1, <1>2, Induction
  <2>2. QED
    BY <2>1 DEF T

LEMMA FollowsExists ==
  ASSUME NEW path, NEW arg, NEW m \in Nat
  PROVE  \E at : Follows(at, path, arg, m)
<1> DEFINE T == {k \in Nat : \E at : Follows(at, path, arg, k)}
<1>1. 0 \in T
  <2>1. Follows([n \in 0..0 |-> path], path, arg, 0)
    BY DEF Follows
  <2>2. QED
    BY <2>1
<1>2. ASSUME NEW k \in Nat, k \in T
      PROVE  k + 1 \in T
  <2>1. PICK at : Follows(at, path, arg, k)
    BY <1>2
  <2> DEFINE next == [n \in 0..(k + 1) |->
                        IF n <= k THEN at[n] ELSE Follow(at[k], arg[k + 1])]
  <2>2. \A n \in 0..(k + 1) :
          next[n] = IF n = 0 THEN path ELSE Follow(next[n - 1], arg[n])
    <3>1. SUFFICES ASSUME NEW n \in 0..(k + 1)
                   PROVE  next[n] = IF n = 0 THEN path
                                      ELSE Follow(next[n - 1], arg[n])
      OBVIOUS
    <3>2. \A i \in 0..k : at[i] = IF i = 0 THEN path
                                    ELSE Follow(at[i - 1], arg[i])
      BY <2>1 DEF Follows
    <3>3. CASE n <= k
      BY <3>2, <3>3
    <3>4. CASE n = k + 1
      BY <3>4
    <3>5. QED
      BY <3>3, <3>4
  <2>3. Follows(next, path, arg, k + 1)
    <3> HIDE DEF next
    <3>1. next = [n \in 0..(k + 1) |-> next[n]]
      BY DEF next
    <3>2. QED
      BY <2>2, <3>1 DEF Follows
  <2>4. QED
    BY <2>3
<1>3. QED
  <2> HIDE DEF T
  <2>1. Nat \subseteq T
    BY <1>1, <1>2, Induction
  <2>2. QED
    BY <2>1 DEF T

LEMMA Tokenization ==
  ASSUME NEW path, NEW arg, Len(arg) \in Nat, ~IsAbsolute(arg)
  PROVE  \E to : /\ Tokenizes(to, path, arg, Len(arg))
                 /\ TokenizePath(path, arg) = to[Len(arg)]
<1> DEFINE tokens == CHOOSE to : Tokenizes(to, path, arg, Len(arg))
<1>1. Tokenizes(tokens, path, arg, Len(arg))
  BY TokenizesExists, Zenon
<1>2. TokenizePath(path, arg) = tokens[Len(arg)]
  BY DEF TokenizePath, Tokenizes, Token1
<1>3. QED
  BY <1>1, <1>2, Zenon

LEMMA Following ==
  ASSUME NEW path, NEW arg, Len(arg) \in Nat, ~IsAbsolute(arg)
  PROVE  \E at : /\ Follows(at, path, arg, Len(arg))
                 /\ KernelPath(path, arg) = at[Len(arg)]
<1> DEFINE places == CHOOSE at : Follows(at, path, arg, Len(arg))
<1>1. Follows(places, path, arg, Len(arg))
  BY FollowsExists, Zenon
<1>2. KernelPath(path, arg) = places[Len(arg)]
  BY DEF KernelPath, Follows
<1>3. QED
  BY <1>1, <1>2, Zenon

LEMMA Fronts ==
  ASSUME NEW S, NEW p \in Seq(S), p # << >>
  PROVE  /\ Front(p) \in Seq(S)
         /\ Len(Front(p)) = Len(p) - 1
         /\ \A i \in 1..(Len(p) - 1) : Front(p)[i] = p[i]
<1>1. Len(p) \in Nat \ {0}
  BY EmptySeq
<1>2. \A i \in 1..(Len(p) - 1) : p[i] \in S
  BY <1>1, ElementOfSeq
<1>3. /\ SubSeq(p, 1, Len(p) - 1) \in Seq(S)
      /\ Len(SubSeq(p, 1, Len(p) - 1)) =
           IF 1 <= Len(p) - 1 THEN Len(p) - 1 - 1 + 1 ELSE 0
      /\ \A i \in 1..(Len(p) - 1 - 1 + 1) :
           SubSeq(p, 1, Len(p) - 1)[i] = p[1 + i - 1]
  <2>1. 1 \in Int /\ Len(p) - 1 \in Int
    BY <1>1
  <2>2. QED
    BY <1>2, <2>1, SubSeqProperties
<1>4. /\ Front(p) \in Seq(S)
      /\ Len(Front(p)) = IF 1 <= Len(p) - 1 THEN Len(p) - 1 - 1 + 1 ELSE 0
      /\ \A i \in 1..(Len(p) - 1 - 1 + 1) : Front(p)[i] = p[1 + i - 1]
  BY <1>3, Zenon DEF Front
<1>5. \A i \in 1..(Len(p) - 1) : Front(p)[i] = p[i]
  <2>1. SUFFICES ASSUME NEW i \in 1..(Len(p) - 1)
                 PROVE  Front(p)[i] = p[i]
    OBVIOUS
  <2>2. i \in 1..(Len(p) - 1 - 1 + 1) /\ 1 + i - 1 = i
    BY <1>1
  <2>3. Front(p)[i] = p[1 + i - 1]
    BY <1>4, <2>2, Zenon
  <2>4. QED
    BY <2>2, <2>3
<1>6. Len(Front(p)) = Len(p) - 1
  <2> DEFINE n == Len(p)
             m == Len(Front(p))
  <2>1. n \in Nat \ {0} /\ m = IF 1 <= n - 1 THEN n - 1 - 1 + 1 ELSE 0
    BY <1>1, <1>4
  <2> HIDE DEF n, m
  <2>2. m = n - 1
    BY <2>1
  <2>3. QED
    BY <2>2 DEF n, m
<1>7. QED
  BY <1>4, <1>5, <1>6, Zenon

LEMMA FrontOfAppend ==
  ASSUME NEW S, NEW p \in Seq(S), NEW e \in S
  PROVE  Append(p, e) # << >> /\ Front(Append(p, e)) = p
<1> DEFINE q == Append(p, e)
<1>1. /\ q \in Seq(S) /\ Len(q) = Len(p) + 1 /\ Len(p) \in Nat
      /\ \A i \in 1..Len(p) : q[i] = p[i]
  OBVIOUS
<1> HIDE DEF q
<1>2. q # << >>
  BY <1>1
<1>3. /\ Front(q) \in Seq(S) /\ Len(Front(q)) = Len(q) - 1
      /\ \A i \in 1..(Len(q) - 1) : Front(q)[i] = q[i]
  BY <1>1, <1>2, Fronts
<1> DEFINE f == Front(q)
<1> HIDE DEF f
<1>4. /\ f \in Seq(S) /\ Len(f) = Len(p)
      /\ \A i \in 1..Len(p) : f[i] = p[i]
  BY <1>1, <1>3 DEF f
<1>5. f = p
  BY <1>4, SeqEqual
<1>6. QED
  BY <1>2, <1>5, Zenon DEF f, q

(***************************************************************************)
(* TokenizePath and KernelPath agree as they go, token by token, however   *)
(* long the path given is.                                                 *)
(***************************************************************************)
LEMMA Agreement ==
  ASSUME NEW path \in Seq(Name), NEW arg \in Seq(Token)
  PROVE  /\ KernelPath(path, arg) \in Seq(Name) =>
              TokenizePath(path, arg) = KernelPath(path, arg)
         /\ KernelPath(path, arg) = Outside => TokenizePath(path, arg) = None
<1>1. Len(arg) \in Nat /\ \A n \in 1..Len(arg) : arg[n] \in Token
  BY LenProperties, ElementOfSeq
<1>2. Outside \notin Seq(Name) /\ Missing \notin Seq(Name) /\ Outside # Missing
  <2>1. Len(Outside) = 1 /\ Outside[1] = ".." /\ Len(Missing) = 1 /\ Missing[1] = ""
    BY DEF Outside, Missing
  <2>2. ".." \notin Name /\ "" \notin Name
    BY NameAssumption
  <2>3. ASSUME NEW p \in Seq(Name), Len(p) = 1
        PROVE  p[1] \in Name
    <3>1. 1 \in 1..Len(p)
      BY <2>3
    <3>2. QED
      BY <3>1, ElementOfSeq
  <2>4. ".." # ""
    OBVIOUS
  <2>5. QED
    BY <2>1, <2>2, <2>3, <2>4, Zenon
<1>3. CASE IsAbsolute(arg)
  BY <1>2, <1>3 DEF KernelPath, TokenizePath
<1>4. CASE ~IsAbsolute(arg)
  <2>1. PICK to : /\ Tokenizes(to, path, arg, Len(arg))
                  /\ TokenizePath(path, arg) = to[Len(arg)]
    BY <1>1, <1>4, Tokenization
  <2>2. PICK at : /\ Follows(at, path, arg, Len(arg))
                  /\ KernelPath(path, arg) = at[Len(arg)]
    BY <1>1, <1>4, Following
  <2> DEFINE Same(n) == \/ at[n] \in Seq(Name) /\ to[n] = at[n]
                        \/ at[n] = Outside /\ to[n] = None
                        \/ at[n] = Missing
             T == {n \in Nat : n <= Len(arg) => Same(n)}
  <2>3. 0 \in T
    BY <1>1, <2>1, <2>2 DEF Tokenizes, Follows
  <2>4. ASSUME NEW n \in Nat, n \in T
        PROVE  n + 1 \in T
    <3>1. SUFFICES ASSUME n + 1 <= Len(arg) PROVE Same(n + 1)
      OBVIOUS
    <3>2. Same(n) /\ arg[n + 1] \in Token
      BY <1>1, <2>4, <3>1
    <3>3. /\ to[n + 1] = Token1(to[n], arg[n + 1])
          /\ at[n + 1] = Follow(at[n], arg[n + 1])
      BY <1>1, <2>1, <2>2, <3>1 DEF Tokenizes, Follows
    <3>4. CASE at[n] = Missing
      BY <3>3, <3>4 DEF Follow
    <3>5. CASE at[n] = Outside /\ to[n] = None
      BY <3>3, <3>5 DEF Follow, Token1
    <3>6. CASE at[n] \in Seq(Name) /\ to[n] = at[n]
      <4>1. to[n] # None /\ at[n] \notin {Outside, Missing}
        BY <1>2, <3>6, NoneAssumption
      <4>2. CASE ~IsDir(at[n])
        BY <3>3, <4>1, <4>2 DEF Follow
      <4>3. CASE IsDir(at[n])
        <5>1. at[n + 1] = Step(at[n], arg[n + 1])
          BY <3>3, <4>1, <4>3 DEF Follow
        <5>2. CASE arg[n + 1] \in {"", "."}
          BY <3>3, <3>6, <4>1, <5>1, <5>2, NameAssumption DEF Step, Token1
        <5>3. CASE arg[n + 1] = ".."
          <6>1. CASE at[n] = << >>
            BY <3>3, <3>6, <4>1, <5>1, <5>3, <6>1, NameAssumption
              DEF Step, Token1
          <6>2. CASE at[n] # << >>
            <7>1. Front(at[n]) \in Seq(Name)
              BY <3>6, <6>2, Fronts
            <7>2. QED
              BY <3>3, <3>6, <4>1, <5>1, <5>3, <6>2, <7>1, NameAssumption
                DEF Step, Token1
          <6>3. QED
            BY <6>1, <6>2
        <5>4. CASE arg[n + 1] \in Name
          <6>1. Append(at[n], arg[n + 1]) \in Seq(Name)
            BY <3>6, <5>4
          <6>2. to[n + 1] = Append(at[n], arg[n + 1])
            BY <3>3, <3>6, <4>1, <5>4, NameAssumption DEF Token1
          <6>3. at[n + 1] \in {Append(at[n], arg[n + 1]), Missing}
            BY <5>1, <5>4, NameAssumption DEF Step
          <6>4. QED
            BY <6>1, <6>2, <6>3
        <5>5. QED
          BY <3>2, <5>2, <5>3, <5>4 DEF Token
      <4>4. QED
        BY <4>2, <4>3
    <3>7. QED
      BY <3>2, <3>4, <3>5, <3>6
  <2>5. Len(arg) \in T
    <3> HIDE DEF T
    <3>1. QED
      BY <1>1, <2>3, <2>4, Induction
  <2>6. Same(Len(arg))
    BY <1>1, <2>5
  <2>7. QED
    BY <1>2, <2>1, <2>2, <2>6
<1>5. QED
  BY <1>3, <1>4

LEMMA OneToken ==
  ASSUME NEW path \in Seq(Name), NEW token \in Token
  PROVE  TokenizePath(path, <<token>>) = Token1(path, token)
<1>1. Len(<<token>>) = 1 /\ <<token>>[1] = token /\ ~IsAbsolute(<<token>>)
  BY DEF IsAbsolute
<1>2. PICK to : /\ Tokenizes(to, path, <<token>>, 1)
                /\ TokenizePath(path, <<token>>) = to[1]
  <2>1. Len(<<token>>) \in Nat
    BY <1>1
  <2>2. QED
    BY <1>1, <2>1, Tokenization
<1>3. to[0] = path /\ to[1] = Token1(to[0], <<token>>[1])
  BY <1>2 DEF Tokenizes
<1>4. QED
  BY <1>1, <1>2, <1>3

-------------------------------------------------------------------------------
(* The tree and the transfers. *)

\* What every kernel keeps, whatever a program asks of it: everything but the
\* base is in a directory.  A put that does not get there rests on it.
TreeIsClosed ==
  \A p \in DOMAIN tree : p # << >> => IsDir(Front(p))

IInv == TypeOK /\ TreeIsClosed /\ UploadsStayInDirectory

\* Where a put of a session in a directory, or where one was, may save.
Lands(path, from, valid) ==
  \/ valid /\ \E n \in Name : path = Append(from, n)
  \/ ~valid /\ path = from
  \/ ~valid /\ from # << >> /\ path = Front(from)

LEMMA Initially == Init => IInv
<1> SUFFICES ASSUME Init PROVE IInv
  OBVIOUS
<1>1. /\ DOMAIN tree = {<< >>} /\ tree[<< >>] = "dir"
      /\ tree = [p \in {<< >>} |-> "dir"]
  BY DEF Init
<1>2. DOMAIN workers = {} /\ workers = [e \in {} |-> 1]
  BY DEF Init, EmptyBag, SetToBag
<1>3. TypeOK
  <2>1. tree \in [DOMAIN tree -> {"dir", "file"}]
    BY <1>1
  <2>2. << >> \in Seq(Name) /\ Len(<< >>) = 0
    BY EmptySeq
  <2>3. cwd \in [Session -> Seq(Name)]
    BY <2>2 DEF Init
  <2>4. IsABag(workers) /\ BagToSet(workers) \subseteq Worker
    BY <1>2 DEF IsABag, BagToSet
  <2>5. up \in BOOLEAN
    BY Zenon DEF Init
  <2>6. QED
    BY <1>1, <2>1, <2>2, <2>3, <2>4, <2>5, BoundAssumption DEF TypeOK
<1>4. TreeIsClosed
  BY <1>1 DEF TreeIsClosed
<1>5. UploadsStayInDirectory
  BY <1>2 DEF UploadsStayInDirectory, BagToSet
<1>6. QED
  BY <1>3, <1>4, <1>5 DEF IInv

\* A transfer more: its path is a path, and put's is in the directory.
LEMMA WorkerAdded ==
  ASSUME IInv, NEW s \in Session, NEW path \in Seq(Name),
         NEW kind \in {"get", "put"}, AddWorker(s, path, kind),
         kind = "put" => Lands(path, cwd[s], IsDir(cwd[s]))
  PROVE  /\ IsABag(workers') /\ BagToSet(workers') \subseteq Worker
         /\ UploadsStayInDirectory'
<1> DEFINE w == [path |-> path, kind |-> kind, from |-> cwd[s],
                 valid |-> IsDir(cwd[s])]
<1>1. w \in Worker
  <2>1. cwd[s] \in Seq(Name)
    BY DEF IInv, TypeOK
  <2>2. IsDir(cwd[s]) \in BOOLEAN
    BY Zenon DEF IsDir
  <2>3. QED
    BY <2>1, <2>2, Zenon DEF Worker
<1>2. workers' = workers (+) SetToBag({w})
  BY Zenon DEF AddWorker
<1>3. /\ w.path = path /\ w.kind = kind /\ w.from = cwd[s]
      /\ w.valid = IsDir(cwd[s])
  BY Zenon
<1> HIDE DEF w
<1>4. DOMAIN SetToBag({w}) = {w} /\ SetToBag({w})[w] = 1
  BY DEF SetToBag
<1>5. IsABag(workers) /\ DOMAIN workers \subseteq Worker
  BY DEF IInv, TypeOK, BagToSet
<1> DEFINE b == SetToBag({w})
           more == [e \in DOMAIN workers \cup DOMAIN b |->
                      (IF e \in DOMAIN workers THEN workers[e] ELSE 0)
                        + (IF e \in DOMAIN b THEN b[e] ELSE 0)]
<1>a. workers' = more
  BY <1>2, Zenon DEF (+)
<1>b. DOMAIN b = {w} /\ b[w] = 1
  BY <1>4
<1> HIDE DEF b
<1>6. DOMAIN workers' = DOMAIN workers \cup {w}
  BY <1>a, <1>b
<1>7. IsABag(workers')
  <2>1. \A e \in DOMAIN workers : workers[e] \in Nat /\ workers[e] > 0
    BY <1>5 DEF IsABag
  <2>2. \A e \in DOMAIN more : more[e] \in Nat /\ more[e] > 0
    BY <1>b, <2>1
  <2>3. more \in [DOMAIN more -> {n \in Nat : n > 0}]
    BY <2>2
  <2>4. QED
    BY <1>a, <2>3, Zenon DEF IsABag
<1>8. UploadsStayInDirectory'
  <2>1. \A v \in DOMAIN workers :
          v.kind = "put" => Lands(v.path, v.from, v.valid)
    BY Zenon DEF IInv, UploadsStayInDirectory, BagToSet, Lands
  <2>2. w.kind = "put" => Lands(w.path, w.from, w.valid)
    BY <1>3, Zenon
  <2>3. \A v \in DOMAIN workers' :
          v.kind = "put" => Lands(v.path, v.from, v.valid)
    BY <1>6, <2>1, <2>2, Zenon
  <2>4. QED
    BY <2>3, Zenon DEF UploadsStayInDirectory, BagToSet, Lands
<1>9. QED
  BY <1>1, <1>5, <1>6, <1>7, <1>8 DEF BagToSet

LEMMA PrefixOfFront ==
  ASSUME NEW path \in Seq(Name), NEW p \in Seq(Name), p # << >>,
         IsPrefix(path, Front(p))
  PROVE  IsPrefix(path, p)
<1> DEFINE q == Front(p)
           k == Len(path)
<1>1. /\ q \in Seq(Name) /\ Len(q) = Len(p) - 1 /\ Len(p) \in Nat /\ k \in Nat
      /\ \A i \in 1..(Len(p) - 1) : q[i] = p[i]
  BY Fronts, LenProperties, Zenon
<1> HIDE DEF q
<1>2. k <= Len(q) /\ SubSeq(path, 1, k) = SubSeq(q, 1, k)
  BY DEF IsPrefix, q
<1> HIDE DEF k
<1>3. k <= Len(p) /\ \A i \in 1..k : q[i] = p[i]
  BY <1>1, <1>2
<1>4. SubSeq(q, 1, k) = SubSeq(p, 1, k)
  <2>1. (\A i \in 1..k : q[i] \in Name) /\ \A i \in 1..k : p[i] \in Name
    BY <1>1, <1>2, <1>3, ElementOfSeq
  <2>2. /\ SubSeq(q, 1, k) \in Seq(Name)
        /\ Len(SubSeq(q, 1, k)) = IF 1 <= k THEN k - 1 + 1 ELSE 0
        /\ \A i \in 1..(k - 1 + 1) : SubSeq(q, 1, k)[i] = q[1 + i - 1]
    BY <1>1, <2>1, SubSeqProperties
  <2>3. /\ SubSeq(p, 1, k) \in Seq(Name)
        /\ Len(SubSeq(p, 1, k)) = IF 1 <= k THEN k - 1 + 1 ELSE 0
        /\ \A i \in 1..(k - 1 + 1) : SubSeq(p, 1, k)[i] = p[1 + i - 1]
    BY <1>1, <2>1, SubSeqProperties
  <2> DEFINE a == SubSeq(q, 1, k)
             b == SubSeq(p, 1, k)
  <2> HIDE DEF a, b
  <2>4. /\ a \in Seq(Name) /\ Len(a) = IF 1 <= k THEN k - 1 + 1 ELSE 0
        /\ \A i \in 1..(k - 1 + 1) : a[i] = q[1 + i - 1]
    BY <2>2, Zenon DEF a
  <2>5. /\ b \in Seq(Name) /\ Len(b) = IF 1 <= k THEN k - 1 + 1 ELSE 0
        /\ \A i \in 1..(k - 1 + 1) : b[i] = p[1 + i - 1]
    BY <2>3, Zenon DEF b
  <2>6. Len(a) = k /\ Len(b) = k
    BY <1>1, <2>4, <2>5
  <2>7. \A i \in 1..k : a[i] = b[i]
    <3>1. SUFFICES ASSUME NEW i \in 1..k PROVE a[i] = b[i]
      OBVIOUS
    <3>2. i \in 1..(k - 1 + 1) /\ 1 + i - 1 = i
      BY <1>1
    <3>3. a[i] = q[i] /\ b[i] = p[i]
      BY <2>4, <2>5, <3>2
    <3>4. QED
      BY <1>3, <3>3
  <2>8. a = b
    BY <2>4, <2>5, <2>6, <2>7, SeqEqual
  <2>9. QED
    BY <2>8, Zenon DEF a, b
<1>5. QED
  BY <1>2, <1>3, <1>4, Zenon DEF IsPrefix, k

\* RemoveDirectoryRecursively of anything: what is left hangs together.
LEMMA Removed ==
  ASSUME TypeOK, TreeIsClosed, NEW path \in Seq(Name), tree' = RemoveAll(path)
  PROVE  /\ DOMAIN tree' \subseteq DOMAIN tree
         /\ \A p \in DOMAIN tree' : tree'[p] = tree[p]
         /\ tree' \in [DOMAIN tree' -> {"dir", "file"}]
         /\ TreeIsClosed'
<1>1. /\ DOMAIN tree' = {q \in DOMAIN tree : ~IsPrefix(path, q)}
      /\ \A p \in DOMAIN tree' : tree'[p] = tree[p]
      /\ tree' = [p \in DOMAIN tree' |-> tree[p]]
  BY DEF RemoveAll
<1>2. \A p \in DOMAIN tree : tree[p] \in {"dir", "file"} /\ p \in Seq(Name)
  BY DEF TypeOK
<1>3. tree' \in [DOMAIN tree' -> {"dir", "file"}]
  BY <1>1, <1>2
<1>4. ASSUME NEW p \in DOMAIN tree', p # << >>
      PROVE  IsDir(Front(p))'
  <2>1. p \in Seq(Name) /\ p \in DOMAIN tree /\ ~IsPrefix(path, p)
    BY <1>1, <1>2
  <2>2. Front(p) \in DOMAIN tree /\ tree[Front(p)] = "dir"
    BY <1>4, <2>1 DEF TreeIsClosed, IsDir
  <2>3. ~IsPrefix(path, Front(p))
    BY <1>4, <2>1, PrefixOfFront
  <2>4. QED
    BY <1>1, <2>2, <2>3 DEF IsDir
<1>5. QED
  BY <1>1, <1>3, <1>4 DEF TreeIsClosed

\* mkdir and put: something new, or a file that is there already.
LEMMA CreatedStep ==
  ASSUME TypeOK, TreeIsClosed, NEW path \in Seq(Name), Len(path) <= MaxPath,
         NEW kind \in {"dir", "file"}, tree' = Created(path, kind),
         (IsFile(path) /\ kind = "file") \/ CanCreate(path)
  PROVE  /\ DOMAIN tree' \subseteq Seq(Name)
         /\ tree' \in [DOMAIN tree' -> {"dir", "file"}]
         /\ \A p \in DOMAIN tree' : Len(p) <= MaxPath
         /\ TreeIsClosed'
<1>1. /\ DOMAIN tree' = DOMAIN tree \cup {path}
      /\ tree'[path] = kind
      /\ \A p \in DOMAIN tree \ {path} : tree'[p] = tree[p]
      /\ tree' = [p \in DOMAIN tree' |-> tree'[p]]
  BY DEF Created
<1>2. /\ \A p \in DOMAIN tree : /\ p \in Seq(Name) /\ Len(p) <= MaxPath
                                /\ tree[p] \in {"dir", "file"}
  BY DEF TypeOK
<1>3. \A p \in DOMAIN tree' : /\ p \in Seq(Name) /\ Len(p) <= MaxPath
                              /\ tree'[p] \in {"dir", "file"}
  BY <1>1, <1>2
<1>4. ASSUME NEW p \in Seq(Name), IsDir(p)
      PROVE  IsDir(p)'
  BY <1>1, <1>4 DEF IsDir, IsFile, CanCreate
<1>5. ASSUME NEW p \in DOMAIN tree', p # << >>
      PROVE  IsDir(Front(p))'
  <2>1. Front(p) \in Seq(Name)
    BY <1>3, <1>5, Fronts
  <2>2. IsDir(Front(p))
    BY <1>1, <1>5 DEF TreeIsClosed, CanCreate, IsFile
  <2>3. QED
    BY <1>4, <2>1, <2>2
<1>6. QED
  BY <1>1, <1>3, <1>5, Zenon DEF TreeIsClosed

\* What one token makes of a path.
LEMMA TokenCases ==
  ASSUME NEW path \in Seq(Name), NEW token \in Token
  PROVE  /\ token \in {"", "."} => Token1(path, token) = path
         /\ token = ".." =>
              Token1(path, token) = IF path = << >> THEN None ELSE Front(path)
         /\ token \in Name => Token1(path, token) = Append(path, token)
<1>1. path # None
  BY NoneAssumption
<1>2. CASE token \in {"", "."}
  BY <1>1, <1>2, NameAssumption DEF Token1
<1>3. CASE token = ".."
  BY <1>1, <1>3, NameAssumption DEF Token1
<1>4. CASE token \in Name
  BY <1>1, <1>4, NameAssumption DEF Token1
<1>5. QED
  BY <1>2, <1>3, <1>4 DEF Token

LEMMA PathOfToken ==
  ASSUME TypeOK, NEW s \in Session, NEW token \in Token,
         PathFromRoot(s, <<token>>) # None
  PROVE  /\ PathFromRoot(s, <<token>>) = Token1(cwd[s], token)
         /\ PathFromRoot(s, <<token>>) \in Seq(Name)
         /\ Len(PathFromRoot(s, <<token>>)) <= MaxPath
<1>1. cwd[s] \in Seq(Name)
  BY DEF TypeOK
<1>2. TokenizePath(cwd[s], <<token>>) = Token1(cwd[s], token)
  BY <1>1, OneToken
<1> DEFINE path == Token1(cwd[s], token)
<1>3. /\ PathFromRoot(s, <<token>>) = path
      /\ path # None /\ ~(Len(path) > MaxPath)
  BY <1>2 DEF PathFromRoot
<1>4. path \in Seq(Name)
  <2>1. CASE token \in {"", "."}
    BY <1>1, <2>1, TokenCases
  <2>2. CASE token = ".."
    <3>1. cwd[s] # << >> /\ path = Front(cwd[s])
      BY <1>1, <1>3, <2>2, TokenCases, Zenon
    <3>2. QED
      BY <1>1, <3>1, Fronts
  <2>3. CASE token \in Name
    <3>1. path = Append(cwd[s], token)
      BY <1>1, <2>3, TokenCases
    <3>2. QED
      BY <1>1, <2>3, <3>1
  <2>4. QED
    BY <2>1, <2>2, <2>3 DEF Token
<1>5. Len(path) \in Nat
  BY <1>4, LenProperties
<1>6. QED
  <2> HIDE DEF path
  <2>1. Len(path) <= MaxPath
    BY <1>3, <1>5, BoundAssumption
  <2>2. PathFromRoot(s, <<token>>) = Token1(cwd[s], token)
    BY <1>3, Zenon DEF path
  <2>3. QED
    BY <1>3, <1>4, <2>1, <2>2, Zenon

LEMMA ArgTokens ==
  ASSUME NEW arg \in Arg
  PROVE  /\ arg \in Seq(Token) /\ Len(arg) \in Nat \ {0}
         /\ ExtractFilename(arg) = <<arg[Len(arg)]>> /\ arg[Len(arg)] \in Token
<1>1. arg \in Seq(Token) /\ arg # << >>
  BY ArgAssumption
<1>2. Len(arg) \in Nat \ {0}
  BY <1>1, EmptySeq
<1>3. arg[Len(arg)] \in Token
  BY <1>1, <1>2, ElementOfSeq
<1>4. QED
  BY <1>1, <1>2, <1>3, Zenon DEF ExtractFilename

LEMMA CdStep ==
  ASSUME IInv, NEW s \in Session, NEW arg \in Arg, Cd(s, arg)
  PROVE  IInv'
<1> DEFINE path == PathFromRoot(s, arg)
<1>1. IsDir(path) /\ cwd' = [cwd EXCEPT ![s] = path] /\ UNCHANGED <<tree, workers, up>>
  BY Zenon DEF Cd
<1> HIDE DEF path
<1>2. path \in Seq(Name)
  BY <1>1 DEF IInv, TypeOK, IsDir
<1>3. cwd' \in [Session -> Seq(Name)]
  BY <1>1, <1>2 DEF IInv, TypeOK
<1>4. TypeOK'
  BY <1>1, <1>3 DEF IInv, TypeOK
<1>5. TreeIsClosed'
  BY <1>1 DEF IInv, TreeIsClosed, IsDir
<1>6. UploadsStayInDirectory'
  BY <1>1 DEF IInv, UploadsStayInDirectory
<1>7. QED
  BY <1>4, <1>5, <1>6 DEF IInv

LEMMA MkdirStep ==
  ASSUME IInv, NEW s \in Session, NEW arg \in Arg, Mkdir(s, arg)
  PROVE  IInv'
<1> DEFINE path == PathFromRoot(s, arg)
<1>1. /\ Len(arg) = 1 /\ arg[1] \in Name /\ path # None /\ CanCreate(path)
      /\ tree' = Created(path, "dir") /\ UNCHANGED <<cwd, workers, up>>
  BY Zenon DEF Mkdir
<1>2. arg = <<arg[1]>> /\ arg[1] \in Token
  <2>1. arg \in Seq(Token)
    BY ArgTokens
  <2>2. arg[1] \in Token
    BY <1>1 DEF Token
  <2>3. QED
    BY <1>1, <2>1, <2>2
<1>3. path \in Seq(Name) /\ Len(path) <= MaxPath
  BY <1>1, <1>2, PathOfToken, Zenon DEF IInv
<1> HIDE DEF path
<1>4. /\ DOMAIN tree' \subseteq Seq(Name)
      /\ tree' \in [DOMAIN tree' -> {"dir", "file"}]
      /\ \A p \in DOMAIN tree' : Len(p) <= MaxPath
      /\ TreeIsClosed'
  BY <1>1, <1>3, CreatedStep DEF IInv
<1>5. TypeOK'
  BY <1>1, <1>4 DEF IInv, TypeOK
<1>6. UploadsStayInDirectory'
  BY <1>1 DEF IInv, UploadsStayInDirectory
<1>7. QED
  BY <1>4, <1>5, <1>6 DEF IInv

LEMMA RmStep ==
  ASSUME IInv, NEW s \in Session, NEW arg \in Arg, Rm(s, arg)
  PROVE  IInv'
<1> DEFINE path == PathFromRoot(s, arg)
<1>1. /\ path \in DOMAIN tree /\ tree' = RemoveAll(path)
      /\ UNCHANGED <<cwd, workers, up>>
  BY Zenon DEF Rm
<1> HIDE DEF path
<1>2. path \in Seq(Name)
  BY <1>1 DEF IInv, TypeOK
<1>3. /\ DOMAIN tree' \subseteq DOMAIN tree
      /\ tree' \in [DOMAIN tree' -> {"dir", "file"}]
      /\ TreeIsClosed'
  BY <1>1, <1>2, Removed DEF IInv
<1>4. TypeOK'
  BY <1>1, <1>3 DEF IInv, TypeOK
<1>5. UploadsStayInDirectory'
  BY <1>1 DEF IInv, UploadsStayInDirectory
<1>6. QED
  BY <1>3, <1>4, <1>5 DEF IInv

LEMMA GetStep ==
  ASSUME IInv, NEW s \in Session, NEW arg \in Arg, Get(s, arg)
  PROVE  IInv'
<1> DEFINE path == PathFromRoot(s, arg)
<1>1. IsFile(path) /\ AddWorker(s, path, "get") /\ UNCHANGED <<tree, cwd, up>>
  BY Zenon DEF Get
<1> HIDE DEF path
<1>2. path \in Seq(Name)
  BY <1>1 DEF IInv, TypeOK, IsFile
<1>3. /\ IsABag(workers') /\ BagToSet(workers') \subseteq Worker
      /\ UploadsStayInDirectory'
  BY <1>1, <1>2, WorkerAdded
<1>4. TypeOK'
  BY <1>1, <1>3 DEF IInv, TypeOK
<1>5. TreeIsClosed'
  BY <1>1 DEF IInv, TreeIsClosed, IsDir
<1>6. QED
  BY <1>3, <1>4, <1>5 DEF IInv

(***************************************************************************)
(* Only the last token of put's argument counts.  If it is no name, it     *)
(* leads to the session's directory or the one above, and while these are  *)
(* directories there is no put; if it is one, the session's directory must *)
(* be a directory.                                                         *)
(***************************************************************************)
LEMMA PutStep ==
  ASSUME IInv, NEW s \in Session, NEW arg \in Arg, Put(s, arg)
  PROVE  IInv'
<1> DEFINE token == arg[Len(arg)]
           path == PathFromRoot(s, <<token>>)
<1>1. token \in Token /\ ExtractFilename(arg) = <<token>>
  BY ArgTokens
<1>2. /\ path # None
      /\ IsFile(path) \/ CanCreate(path)
      /\ tree' = Created(path, "file")
      /\ AddWorker(s, path, "put") \/ UNCHANGED workers
      /\ UNCHANGED <<cwd, up>>
  BY <1>1, Zenon DEF Put
<1> HIDE DEF token
<1>3. /\ path = Token1(cwd[s], token) /\ path \in Seq(Name)
      /\ Len(path) <= MaxPath
  <2>1. TypeOK
    BY Zenon DEF IInv
  <2>2. QED
    BY <1>1, <1>2, <2>1, PathOfToken, Zenon
<1> HIDE DEF path
<1>4. /\ DOMAIN tree' \subseteq Seq(Name)
      /\ tree' \in [DOMAIN tree' -> {"dir", "file"}]
      /\ \A p \in DOMAIN tree' : Len(p) <= MaxPath
      /\ TreeIsClosed'
  BY <1>2, <1>3, CreatedStep DEF IInv
<1>5. Lands(path, cwd[s], IsDir(cwd[s]))
  <2>1. cwd[s] \in Seq(Name) /\ cwd[s] # None
    BY NoneAssumption DEF IInv, TypeOK
  <2>2. ~IsDir(path) /\ (path # << >> => IsDir(Front(path)))
    BY <1>2 DEF IInv, TreeIsClosed, IsDir, IsFile, CanCreate
  <2>3. CASE token \in {"", "."}
    <3>1. path = cwd[s]
      BY <1>1, <1>3, <2>1, <2>3, TokenCases
    <3>2. QED
      BY <2>2, <3>1 DEF Lands
  <2>4. CASE token = ".."
    <3>1. cwd[s] # << >> /\ path = Front(cwd[s])
      BY <1>1, <1>2, <1>3, <2>1, <2>4, TokenCases, Zenon
    <3>2. ~IsDir(cwd[s])
      BY <2>2, <3>1 DEF IInv, TreeIsClosed, IsDir
    <3>3. QED
      BY <3>1, <3>2 DEF Lands
  <2>5. CASE token \in Name
    <3>1. path = Append(cwd[s], token)
      BY <1>1, <1>3, <2>1, <2>5, TokenCases
    <3>2. path # << >> /\ Front(path) = cwd[s]
      BY <2>1, <2>5, <3>1, FrontOfAppend, Zenon
    <3>3. IsDir(cwd[s])
      BY <2>2, <3>2
    <3>4. QED
      BY <2>5, <3>1, <3>3 DEF Lands
  <2>6. QED
    BY <1>1, <2>3, <2>4, <2>5 DEF Token
<1>6. /\ IsABag(workers') /\ BagToSet(workers') \subseteq Worker
      /\ UploadsStayInDirectory'
  <2>1. CASE AddWorker(s, path, "put")
    BY <1>3, <1>5, <2>1, WorkerAdded
  <2>2. CASE UNCHANGED workers
    BY <2>2 DEF IInv, TypeOK, UploadsStayInDirectory
  <2>3. QED
    BY <1>2, <2>1, <2>2
<1>7. TypeOK'
  BY <1>2, <1>4, <1>6 DEF IInv, TypeOK
<1>8. QED
  BY <1>4, <1>6, <1>7 DEF IInv

LEMMA WorkerEndsStep ==
  ASSUME IInv, NEW w \in BagToSet(workers), WorkerEnds(w)
  PROVE  IInv'
<1>1. /\ workers' = workers (-) SetToBag({w}) /\ UNCHANGED <<cwd, up>>
      /\ UNCHANGED tree \/ tree' = RemoveAll(w.path)
  BY Zenon DEF WorkerEnds
<1>2. w.path \in Seq(Name)
  BY DEF IInv, TypeOK, Worker
<1>3. /\ DOMAIN tree' \subseteq DOMAIN tree
      /\ tree' \in [DOMAIN tree' -> {"dir", "file"}]
      /\ TreeIsClosed'
  <2>1. CASE UNCHANGED tree
    BY <2>1 DEF IInv, TypeOK, TreeIsClosed, IsDir
  <2>2. CASE tree' = RemoveAll(w.path)
    BY <1>2, <2>2, Removed DEF IInv
  <2>3. QED
    BY <1>1, <2>1, <2>2
<1>4. IsABag(workers') /\ BagToSet(workers') \subseteq BagToSet(workers)
  <2> DEFINE b == SetToBag({w})
             left == [e \in DOMAIN workers |->
                        IF e \in DOMAIN b THEN workers[e] - b[e] ELSE workers[e]]
             less == [e \in {d \in DOMAIN left : left[d] > 0} |-> left[e]]
  <2>1. workers' = less
    BY <1>1, Zenon DEF (-)
  <2>2. DOMAIN b = {w} /\ b[w] = 1
    BY DEF SetToBag
  <2> HIDE DEF b
  <2>3. \A e \in DOMAIN workers : workers[e] \in Nat /\ workers[e] > 0
    BY DEF IInv, TypeOK, IsABag
  <2>4. \A e \in DOMAIN left : left[e] \in Nat
    BY <2>2, <2>3
  <2>5. less \in [DOMAIN less -> {n \in Nat : n > 0}]
    <3> HIDE DEF left
    <3>1. QED
      BY <2>4
  <2>6. DOMAIN less \subseteq DOMAIN workers
    OBVIOUS
  <2>7. QED
    <3> HIDE DEF less
    <3>1. QED
      BY <2>1, <2>5, <2>6, Zenon DEF IsABag, BagToSet
<1>5. TypeOK'
  BY <1>1, <1>3, <1>4 DEF IInv, TypeOK
<1>6. UploadsStayInDirectory'
  BY <1>4 DEF IInv, UploadsStayInDirectory
<1>7. QED
  BY <1>3, <1>5, <1>6 DEF IInv

LEMMA Unmoved ==
  ASSUME IInv, UNCHANGED <<tree, cwd, workers>>, up' \in BOOLEAN
  PROVE  IInv'
<1>1. TypeOK'
  BY DEF IInv, TypeOK
<1>2. TreeIsClosed'
  BY DEF IInv, TreeIsClosed, IsDir
<1>3. UploadsStayInDirectory'
  BY DEF IInv, UploadsStayInDirectory
<1>4. QED
  BY <1>1, <1>2, <1>3 DEF IInv

LEMMA NextStep == IInv /\ [Next]_vars => IInv'
<1>1. SUFFICES ASSUME IInv, [Next]_vars PROVE IInv'
  OBVIOUS
<1>2. CASE Next
  <2>1. ASSUME NEW s \in Session, NEW arg \in Arg,
               Cd(s, arg) \/ Mkdir(s, arg) \/ Rm(s, arg) \/ Get(s, arg) \/ Put(s, arg)
        PROVE  IInv'
    BY <1>1, <2>1, CdStep, MkdirStep, RmStep, GetStep, PutStep, Zenon
  <2>2. ASSUME NEW s \in Session, Grep(s)
        PROVE  IInv'
    <3>1. UNCHANGED <<tree, cwd, workers>> /\ up' \in BOOLEAN
      BY <2>2, Zenon DEF Grep
    <3>2. QED
      BY <1>1, <3>1, Unmoved
  <2>3. ASSUME NEW w \in BagToSet(workers), WorkerEnds(w)
        PROVE  IInv'
    BY <1>1, <2>3, WorkerEndsStep
  <2>4. QED
    BY <1>2, <2>1, <2>2, <2>3, Zenon DEF Next
<1>3. CASE UNCHANGED vars
  <2>1. UNCHANGED <<tree, cwd, workers>> /\ up' \in BOOLEAN
    BY <1>1, <1>3 DEF vars, IInv, TypeOK
  <2>2. QED
    BY <1>1, <2>1, Unmoved
<1>4. QED
  BY <1>1, <1>2, <1>3

LEMMA Invariance == Spec => []IInv
<1>1. QED
  BY Initially, NextStep, PTL DEF Spec

-------------------------------------------------------------------------------
(***************************************************************************)
(* Every session's directory is a path of names within the limit, and so   *)
(* is everything that cd, mkdir, rm, get, put and the workers leave in the *)
(* tree, whatever path arguments are given.                                *)
(***************************************************************************)
THEOREM DirectoryTypeCorrect == Spec => []TypeOK
<1>1. IInv => TypeOK
  BY Zenon DEF IInv
<1>2. QED
  BY <1>1, Invariance, PTL

(***************************************************************************)
(* put saves in the session's directory as long as that is one: the path   *)
(* that ExtractFilename and PathFromRoot make adds one name to it.  For a  *)
(* session whose directory is gone, it saves at most in the directory's    *)
(* own place or its parent's, whatever argument is given.                  *)
(***************************************************************************)
THEOREM UploadsStayHome == Spec => []UploadsStayInDirectory
<1>1. IInv => UploadsStayInDirectory
  BY Zenon DEF IInv
<1>2. QED
  BY <1>1, Invariance, PTL

(***************************************************************************)
(* TokenizePath, which never looks at the tree, leads where the kernel     *)
(* would, and refuses every path that leads out of the base: for paths of  *)
(* any length, by induction on it.                                         *)
(***************************************************************************)
THEOREM PathsMeanTheSame == Spec => []PathsAgreeWithKernel
<1>1. TypeOK => PathsAgreeWithKernel
  <2>1. SUFFICES ASSUME TypeOK, NEW s \in Session, NEW arg \in Arg
                 PROVE  LET there == KernelPath(cwd[s], arg) IN
                          /\ there \in DOMAIN tree => TokenizePath(cwd[s], arg) = there
                          /\ there = Outside => TokenizePath(cwd[s], arg) = None
    BY Zenon DEF PathsAgreeWithKernel
  <2>2. cwd[s] \in Seq(Name) /\ DOMAIN tree \subseteq Seq(Name)
    BY <2>1 DEF TypeOK
  <2>3. arg \in Seq(Token)
    BY ArgTokens
  <2>4. QED
    BY <2>2, <2>3, Agreement
<1>2. QED
  BY <1>1, DirectoryTypeCorrect, PTL
===============================================================================
