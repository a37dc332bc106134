----------------------------- MODULE LoginProofs -----------------------------
(***************************************************************************)
(* Proofs about ConfigFile and Login, for any configuration file: what     *)
(* parseFromFile makes of it is what its documented format says, and this  *)
(* is what logins are granted by.                                          *)
(***************************************************************************)
EXTENDS Login, GrassServiceProofs, SequenceTheorems, WellFoundedInduction, TLAPS

-------------------------------------------------------------------------------
(* Induction on the numbers, for a set: no operator stands for its property. *)

LEMMA Least ==
  ASSUME NEW T \in SUBSET Nat, T # {}
  PROVE  \E n \in T : \A m \in T : n <= m
<1>1. IsWellFoundedOn(OpToRel(<, Nat), Nat)
  BY NatLessThanWellFounded, Zenon
<1>2. PICK n \in T : \A m \in T : <<m, n>> \notin OpToRel(<, Nat)
  BY <1>1, WFMin, Zenon
<1>3. \A m \in T : ~(m < n)
  BY <1>2 DEF OpToRel
<1>4. QED
  BY <1>3

LEMMA Induction ==
  ASSUME NEW T, 0 \in T, \A n \in Nat : n \in T => n + 1 \in T
  PROVE  Nat \subseteq T
<1>1. SUFFICES ASSUME Nat \ T # {} PROVE FALSE
  OBVIOUS
<1>2. PICK n \in Nat \ T : \A m \in Nat \ T : n <= m
  <2>1. Nat \ T \in SUBSET Nat
    OBVIOUS
  <2>2. QED
    BY <1>1, <2>1, Least
<1>3. n - 1 \in Nat /\ n - 1 \in T
  BY <1>2
<1>4. QED
  BY <1>2, <1>3

LEMMA MinIsLeast ==
  ASSUME NEW T \in SUBSET Nat, T # {}
  PROVE  Min(T) \in T /\ \A m \in T : Min(T) <= m
<1>1. \E n \in T : \A m \in T : n <= m
  BY Least
<1>2. QED
  BY <1>1 DEF Min

LEMMA SpaceIsNoMark == Space # "#"
BY DEF Space

LEMMA NoPort == -1 \notin Port
BY DEF Port

LEMMA SeparatorsAreNoNumbers == Space \notin DOMAIN Number /\ "#" \notin DOMAIN Number
BY NumberAssumption DEF Separator

-------------------------------------------------------------------------------
(* The functions of std::string, as the parser uses them. *)

LEMMA FindFirst ==
  ASSUME NEW S, NEW line \in Seq(S), NEW t
  PROVE  /\ Find(line, t) \in 0..Len(line)
         /\ Find(line, t) = 0 => \A k \in 1..Len(line) : line[k] # t
         /\ Find(line, t) # 0 =>
              /\ line[Find(line, t)] = t
              /\ \A k \in 1..(Find(line, t) - 1) : line[k] # t
<1> DEFINE T == {k \in 1..Len(line) : line[k] = t}
<1>1. Find(line, t) = IF T # {} THEN Min(T) ELSE 0
  BY DEF Find, SelectInSeq
<1>2. Len(line) \in Nat
  BY LenProperties
<1>3. T # {} => Min(T) \in T /\ \A m \in T : Min(T) <= m
  <2>1. T \in SUBSET Nat
    BY <1>2
  <2> HIDE DEF T
  <2>2. QED
    BY <2>1, MinIsLeast
<1>4. CASE T = {}
  BY <1>1, <1>2, <1>4
<1>5. CASE T # {}
  <2>1. Find(line, t) = Min(T)
    BY <1>1, <1>5
  <2> DEFINE f == Min(T)
  <2> HIDE DEF f
  <2>2. f \in 1..Len(line) /\ line[f] = t
    BY <1>3, <1>5 DEF f
  <2>3. \A k \in 1..(f - 1) : line[k] # t
    BY <1>2, <1>3, <1>5, <2>2 DEF f
  <2>4. QED
    BY <1>2, <2>1, <2>2, <2>3 DEF f
<1>6. QED
  BY <1>4, <1>5

\* A part of a line.
LEMMA Part ==
  ASSUME NEW S, NEW line \in Seq(S), NEW m \in Nat \ {0}, NEW n \in 0..Len(line)
  PROVE  /\ SubSeq(line, m, n) \in Seq(S)
         /\ Len(SubSeq(line, m, n)) = IF m <= n THEN n - m + 1 ELSE 0
         /\ \A k \in 1..Len(SubSeq(line, m, n)) :
              SubSeq(line, m, n)[k] = line[m + k - 1]
<1>1. Len(line) \in Nat /\ \A k \in m..n : line[k] \in S
  <2>1. Len(line) \in Nat
    BY LenProperties
  <2>2. \A k \in m..n : k \in 1..Len(line)
    BY <2>1
  <2>3. QED
    BY <2>1, <2>2, ElementOfSeq
<1>2. /\ SubSeq(line, m, n) \in Seq(S)
      /\ Len(SubSeq(line, m, n)) = IF m <= n THEN n - m + 1 ELSE 0
      /\ \A k \in 1..(n - m + 1) : SubSeq(line, m, n)[k] = line[m + k - 1]
  BY <1>1, SubSeqProperties
<1>3. \A k \in 1..Len(SubSeq(line, m, n)) : k \in 1..(n - m + 1)
  BY <1>1, <1>2
<1>4. QED
  BY <1>2, <1>3

\* What is in front of the comment: h tokens, and none is a comment mark.
LEMMA Cleaned ==
  ASSUME NEW S, NEW line \in Seq(S)
  PROVE  \E h \in 0..Len(line) :
           /\ removeComments(line) = SubSeq(line, 1, h)
           /\ \A k \in 1..h : line[k] # "#"
           /\ h = Len(line) \/ line[h + 1] = "#"
<1>1. /\ Find(line, "#") \in 0..Len(line)
      /\ Find(line, "#") = 0 => \A k \in 1..Len(line) : line[k] # "#"
      /\ Find(line, "#") # 0 =>
           /\ line[Find(line, "#")] = "#"
           /\ \A k \in 1..(Find(line, "#") - 1) : line[k] # "#"
  BY FindFirst
<1>2. Len(line) \in Nat
  BY LenProperties
<1>3. CASE Find(line, "#") = 0
  <2>1. removeComments(line) = SubSeq(line, 1, Len(line))
    BY <1>3, SubSeqFull DEF removeComments
  <2>2. Len(line) \in 0..Len(line)
    BY <1>2
  <2>3. QED
    BY <1>1, <1>3, <2>1, <2>2
<1>4. CASE Find(line, "#") # 0
  <2> DEFINE h == Find(line, "#") - 1
  <2>1. removeComments(line) = SubSeq(line, 1, h)
    BY <1>4 DEF removeComments
  <2>2. h \in 0..Len(line) /\ h + 1 = Find(line, "#")
    BY <1>1, <1>2, <1>4
  <2>3. QED
    BY <1>1, <1>4, <2>1, <2>2
<1>5. QED
  BY <1>3, <1>4

-------------------------------------------------------------------------------
(* One line of the file. *)

LEMMA BeginsWith ==
  ASSUME NEW S, NEW line \in Seq(S), NEW key
  PROVE  Begins(line, key) <=>
           (Len(line) >= 2 /\ line[1] = key /\ line[2] = Space)
<1> DEFINE two == <<key, Space>>
<1>1. two \in Seq({key, Space}) /\ Len(two) = 2 /\ two[1] = key /\ two[2] = Space
  OBVIOUS
<1> HIDE DEF two
<1>2. Begins(line, key) <=>
        (2 <= Len(line) /\ SubSeq(two, 1, 2) = SubSeq(line, 1, 2))
  BY <1>1 DEF Begins, IsPrefix, two
<1>3. Len(line) \in Nat
  BY LenProperties
<1>4. SubSeq(two, 1, 2) = two
  BY <1>1, SubSeqFull
<1>5. ASSUME 2 <= Len(line)
      PROVE  two = SubSeq(line, 1, 2) <=> (line[1] = key /\ line[2] = Space)
  <2> DEFINE begin == SubSeq(line, 1, 2)
  <2>1. 2 \in 0..Len(line) /\ 1 \in Nat \ {0}
    BY <1>3, <1>5
  <2>2. begin \in Seq(S) /\ Len(begin) = 2
    BY <2>1, Part
  <2>3. begin[1] = line[1] /\ begin[2] = line[2]
    BY <2>1, <2>2, Part
  <2> HIDE DEF begin
  <2>4. ASSUME begin[1] = two[1], begin[2] = two[2]
        PROVE  begin = two
    <3> DEFINE both == S \cup {key, Space}
    <3>1. S \subseteq both /\ {key, Space} \subseteq both
      OBVIOUS
    <3> HIDE DEF both
    <3>2. begin \in Seq(both)
      BY <2>2, <3>1, SeqMonotonic
    <3>3. two \in Seq(both)
      BY <1>1, <3>1, SeqMonotonic
    <3>4. Len(begin) = Len(two)
      BY <1>1, <2>2
    <3>5. \A i \in 1..Len(begin) : begin[i] = two[i]
      <4>1. \A i \in 1..Len(begin) : i = 1 \/ i = 2
        BY <2>2
      <4>2. QED
        BY <2>4, <4>1
    <3>6. QED
      BY <3>2, <3>3, <3>4, <3>5, SeqEqual
  <2>5. QED
    BY <1>1, <2>3, <2>4 DEF begin
<1>6. QED
  BY <1>2, <1>3, <1>4, <1>5

Key == {"base", "port", "user"}

\* h tokens are in front of the comment, and rest is what follows the keyword.
Splits(line, h, rest) ==
  /\ h \in 0..Len(line) /\ rest \in Seq(ToSet(line))
  /\ \A k \in 1..h : line[k] # "#"
  /\ h = Len(line) \/ line[h + 1] = "#"
  /\ h >= 2 => Len(rest) = h - 2 /\ \A k \in 1..(h - 2) : rest[k] = line[k + 2]

LEMMA ParsedLine ==
  ASSUME NEW line, IsLine(line), NEW conf
  PROVE  \E h, rest :
           /\ Splits(line, h, rest)
           /\ \A key \in Key : Begins(line, key) => h >= 2
           /\ Begins(line, "base") =>
                parseLine(conf, line) = [conf EXCEPT !.directory = rest]
           /\ Begins(line, "port") =>
                parseLine(conf, line) = [conf EXCEPT !.port = stoi(rest)]
           /\ Begins(line, "user") =>
                parseLine(conf, line) =
                  [conf EXCEPT !.credentials = addUser(@, rest)]
           /\ ~(\E key \in Key : Begins(line, key)) => parseLine(conf, line) = conf
<1> DEFINE S == ToSet(line)
<1>1. line \in Seq(S)
  BY DEF IsLine
<1> HIDE DEF S
<1>2. PICK h \in 0..Len(line) :
        /\ removeComments(line) = SubSeq(line, 1, h)
        /\ \A k \in 1..h : line[k] # "#"
        /\ h = Len(line) \/ line[h + 1] = "#"
  BY <1>1, Cleaned
<1> DEFINE text == SubSeq(line, 1, h)
<1>3. Len(line) \in Nat
  BY <1>1, LenProperties
<1>4. /\ text \in Seq(S) /\ Len(text) = h
      /\ \A k \in 1..h : text[k] = line[k]
  <2>1. 1 \in Nat \ {0}
    OBVIOUS
  <2>2. text \in Seq(S) /\ Len(text) = IF 1 <= h THEN h - 1 + 1 ELSE 0
    BY <1>1, <2>1, Part
  <2>3. Len(text) = h
    <3> HIDE DEF text
    <3>1. QED
      BY <1>2, <1>3, <2>2
  <2>4. \A k \in 1..Len(text) : text[k] = line[1 + k - 1]
    BY <1>1, <2>1, Part
  <2>5. \A k \in 1..h : text[k] = line[k]
    <3> HIDE DEF text
    <3>1. \A k \in 1..h : 1 + k - 1 = k
      BY <1>2, <1>3
    <3>2. QED
      BY <2>3, <2>4, <3>1
  <2>6. QED
    BY <2>2, <2>3, <2>5
<1> HIDE DEF text
<1>5. ASSUME NEW key \in Key
      PROVE  /\ Begins(text, key) <=> Begins(line, key)
             /\ Begins(line, key) => h >= 2
  <2>1. key # "#" /\ Space # "#"
    BY SpaceIsNoMark DEF Key
  <2>2. Begins(text, key) <=> (h >= 2 /\ text[1] = key /\ text[2] = Space)
    BY <1>4, BeginsWith
  <2>3. Begins(line, key) <=>
          (Len(line) >= 2 /\ line[1] = key /\ line[2] = Space)
    BY <1>1, BeginsWith
  <2>4. ASSUME Begins(line, key) PROVE h >= 2
    <3>1. line[1] # "#" /\ line[2] # "#" /\ Len(line) >= 2
      BY <2>1, <2>3, <2>4
    <3>2. h # 0 /\ h # 1
      BY <1>2, <1>3, <3>1
    <3>3. QED
      BY <1>2, <1>3, <3>2
  <2>5. h >= 2 => text[1] = line[1] /\ text[2] = line[2] /\ Len(line) >= 2
    BY <1>2, <1>3, <1>4
  <2>6. QED
    BY <2>2, <2>3, <2>4, <2>5
<1> DEFINE rest == SubSeq(text, 3, h)
<1>6. /\ rest \in Seq(S)
      /\ h >= 2 => Len(rest) = h - 2 /\ \A k \in 1..(h - 2) : rest[k] = line[k + 2]
  <2>1. 3 \in Nat \ {0} /\ h \in 0..Len(text)
    BY <1>2, <1>3, <1>4
  <2>2. /\ rest \in Seq(S)
        /\ Len(rest) = IF 3 <= h THEN h - 3 + 1 ELSE 0
        /\ \A k \in 1..Len(rest) : rest[k] = text[3 + k - 1]
    BY <1>4, <2>1, Part
  <2> HIDE DEF rest
  <2>3. SUFFICES ASSUME h >= 2
                 PROVE  /\ Len(rest) = h - 2
                        /\ \A k \in 1..(h - 2) : rest[k] = line[k + 2]
    BY <2>2
  <2>4. Len(rest) = h - 2
    BY <1>2, <1>3, <2>2, <2>3
  <2>5. ASSUME NEW k \in 1..(h - 2)
        PROVE  rest[k] = line[k + 2]
    <3>1. k \in 1..Len(rest) /\ 3 + k - 1 = k + 2 /\ k + 2 \in 1..h
      BY <1>2, <1>3, <2>4
    <3>2. rest[k] = text[3 + k - 1]
      BY <2>2, <3>1
    <3>3. QED
      BY <1>4, <3>1, <3>2
  <2>6. QED
    BY <2>4, <2>5
<1>7. removeComments(line) = text /\ rest = SubSeq(text, 3, Len(text))
  BY <1>2, <1>4 DEF text
<1>8. Splits(line, h, rest)
  <2> HIDE DEF rest
  <2>1. QED
    BY <1>2, <1>6 DEF Splits, S
<1>9. /\ Begins(line, "base") =>
           parseLine(conf, line) = [conf EXCEPT !.directory = rest]
      /\ Begins(line, "port") =>
           parseLine(conf, line) = [conf EXCEPT !.port = stoi(rest)]
      /\ Begins(line, "user") =>
           parseLine(conf, line) = [conf EXCEPT !.credentials = addUser(@, rest)]
      /\ ~(\E key \in Key : Begins(line, key)) => parseLine(conf, line) = conf
  <2> DEFINE base == Begins(line, "base")
             port == Begins(line, "port")
             user == Begins(line, "user")
  <2>1. ~(base /\ port) /\ ~(base /\ user) /\ ~(port /\ user)
    <3>1. \A key \in Key : Begins(line, key) => line[1] = key
      BY <1>1, BeginsWith
    <3>2. QED
      BY <3>1 DEF Key
  <2>2. /\ Begins(text, "base") <=> base
        /\ Begins(text, "port") <=> port
        /\ Begins(text, "user") <=> user
    BY <1>5 DEF Key
  <2>3. (\E key \in Key : Begins(line, key)) <=> base \/ port \/ user
    BY DEF Key
  <2> HIDE DEF rest, base, port, user
  <2>4. parseLine(conf, line) =
          CASE Begins(text, "base") -> [conf EXCEPT !.directory = rest]
            [] Begins(text, "port") -> [conf EXCEPT !.port = stoi(rest)]
            [] Begins(text, "user") ->
                 [conf EXCEPT !.credentials = addUser(@, rest)]
            [] OTHER -> conf
    BY <1>7 DEF parseLine
  <2>5. QED
    BY <2>1, <2>2, <2>3, <2>4 DEF base, port, user
<1>10. QED
  <2> HIDE DEF rest
  <2>1. QED
    BY <1>5, <1>8, <1>9, Zenon

\* What a split line says of the tokens behind the keyword.
LEMMA Behind ==
  ASSUME NEW line, IsLine(line), NEW h, NEW rest, Splits(line, h, rest), h >= 2
  PROVE  /\ Len(line) \in Nat /\ h \in Nat /\ h <= Len(line)
         /\ Len(rest) = h - 2
         /\ \A k \in 1..(h - 2) : rest[k] = line[k + 2] /\ rest[k] # "#"
         /\ h = Len(line) \/ line[h + 1] = "#"
<1>1. Len(line) \in Nat
  BY LenProperties DEF IsLine
<1>2. /\ h \in 0..Len(line)
      /\ \A k \in 1..h : line[k] # "#"
      /\ h = Len(line) \/ line[h + 1] = "#"
      /\ Len(rest) = h - 2
      /\ \A k \in 1..(h - 2) : rest[k] = line[k + 2]
  BY DEF Splits
<1>3. \A k \in 1..(h - 2) : k + 2 \in 1..h
  BY <1>1, <1>2
<1>4. QED
  BY <1>1, <1>2, <1>3

\* A "base" line counts when there is something behind it.
LEMMA BaseLine ==
  ASSUME NEW line, IsLine(line), NEW h, NEW rest, Splits(line, h, rest), h >= 2
  PROVE  (rest # << >>) <=> HasDirectory(line)
<1>1. /\ Len(line) \in Nat /\ h \in Nat /\ h <= Len(line)
      /\ Len(rest) = h - 2
      /\ \A k \in 1..(h - 2) : rest[k] = line[k + 2] /\ rest[k] # "#"
      /\ h = Len(line) \/ line[h + 1] = "#"
  BY Behind
<1>2. (rest # << >>) <=> h > 2
  <2>1. rest \in Seq(ToSet(line))
    BY DEF Splits
  <2>2. (rest # << >>) => Len(rest) \in Nat \ {0}
    BY <2>1, EmptySeq
  <2>3. (rest = << >>) => Len(rest) = 0
    BY EmptySeq
  <2>4. QED
    BY <1>1, <2>2, <2>3
<1>3. CASE h > 2
  <2>1. 1 \in 1..(h - 2) /\ 1 + 2 = 3
    BY <1>1, <1>3
  <2>2. line[3] # "#"
    BY <1>1, <2>1
  <2>3. QED
    BY <1>1, <1>2, <1>3, <2>2 DEF HasDirectory
<1>4. CASE h = 2
  <2>1. Len(line) >= 3 => line[3] = "#"
    BY <1>1, <1>4
  <2>2. QED
    BY <1>2, <1>4, <2>1 DEF HasDirectory
<1>5. QED
  BY <1>1, <1>3, <1>4

\* stoi looks at the first token that is not a space.
LEMMA FirstNumber ==
  ASSUME NEW S, NEW text \in Seq(S)
  PROVE  stoi(text) \in Port <=>
           \E k \in 1..Len(text) :
             /\ \A j \in 1..(k - 1) : text[j] = Space
             /\ text[k] \in DOMAIN Number /\ Number[text[k]] \in Port
<1> DEFINE T == {k \in 1..Len(text) : text[k] # Space}
           i == IF T # {} THEN Min(T) ELSE 0
<1>1. Len(text) \in Nat
  BY LenProperties
<1>2. stoi(text) = IF i > 0 /\ text[i] \in DOMAIN Number
                     THEN Number[text[i]] ELSE -1
  BY DEF stoi, SelectInSeq
<1>3. Space \notin DOMAIN Number /\ -1 \notin Port
  BY SeparatorsAreNoNumbers, NoPort
<1>4. T # {} => Min(T) \in T /\ \A m \in T : Min(T) <= m
  <2>1. T \in SUBSET Nat
    BY <1>1
  <2> HIDE DEF T
  <2>2. QED
    BY <2>1, MinIsLeast
<1>5. \/ i = 0 /\ \A k \in 1..Len(text) : text[k] = Space
      \/ /\ i \in 1..Len(text) /\ text[i] # Space
         /\ \A j \in 1..(i - 1) : text[j] = Space
  <2>1. CASE T = {}
    BY <2>1
  <2>2. CASE T # {}
    <3>1. i \in T /\ \A m \in T : i <= m
      BY <1>4, <2>2
    <3> HIDE DEF i
    <3>2. i \in 1..Len(text) /\ text[i] # Space
      BY <3>1
    <3>3. \A j \in 1..(i - 1) : text[j] = Space
      BY <1>1, <3>1, <3>2
    <3>4. QED
      BY <3>2, <3>3
  <2>3. QED
    BY <2>1, <2>2
<1> HIDE DEF i, T
<1>6. CASE i = 0 /\ \A k \in 1..Len(text) : text[k] = Space
  <2>1. stoi(text) = -1
    BY <1>2, <1>6
  <2>2. QED
    BY <1>3, <1>6, <2>1
<1>7. CASE /\ i \in 1..Len(text) /\ text[i] # Space
           /\ \A j \in 1..(i - 1) : text[j] = Space
  <2>1. ASSUME NEW k \in 1..Len(text), \A j \in 1..(k - 1) : text[j] = Space,
               text[k] # Space
        PROVE  k = i
    <3>1. ~(k < i) /\ ~(i < k)
      BY <1>1, <1>7, <2>1
    <3>2. QED
      BY <1>1, <1>7, <3>1
  <2>2. CASE text[i] \in DOMAIN Number
    <3>1. stoi(text) = Number[text[i]]
      BY <1>1, <1>2, <1>7, <2>2
    <3>2. QED
      BY <1>3, <1>7, <2>1, <2>2, <3>1
  <2>3. CASE text[i] \notin DOMAIN Number
    <3>1. stoi(text) = -1
      BY <1>2, <2>3
    <3>2. QED
      BY <1>3, <2>1, <2>3, <3>1
  <2>4. QED
    BY <2>2, <2>3
<1>8. QED
  BY <1>5, <1>6, <1>7

\* A "port" line counts when a port is behind it.
LEMMA PortLine ==
  ASSUME NEW line, IsLine(line), NEW h, NEW rest, Splits(line, h, rest), h >= 2
  PROVE  stoi(rest) \in Port <=> HasPort(line)
<1>1. /\ Len(line) \in Nat /\ h \in Nat /\ h <= Len(line)
      /\ Len(rest) = h - 2
      /\ \A k \in 1..(h - 2) : rest[k] = line[k + 2] /\ rest[k] # "#"
      /\ h = Len(line) \/ line[h + 1] = "#"
  BY Behind
<1>2. "#" \notin DOMAIN Number /\ Space # "#"
  BY SeparatorsAreNoNumbers, SpaceIsNoMark
<1>3. rest \in Seq(ToSet(line))
  BY DEF Splits
<1>4. stoi(rest) \in Port <=>
        \E k \in 1..(h - 2) :
          /\ \A j \in 1..(k - 1) : rest[j] = Space
          /\ rest[k] \in DOMAIN Number /\ Number[rest[k]] \in Port
  BY <1>1, <1>3, FirstNumber
<1>5. ASSUME NEW k \in 1..(h - 2), \A j \in 1..(k - 1) : rest[j] = Space,
             rest[k] \in DOMAIN Number, Number[rest[k]] \in Port
      PROVE  HasPort(line)
  <2>1. k + 2 \in 3..Len(line)
    BY <1>1
  <2>2. ASSUME NEW j \in 3..(k + 2 - 1) PROVE line[j] = Space
    <3>1. j - 2 \in 1..(k - 1) /\ j - 2 \in 1..(h - 2) /\ j - 2 + 2 = j
      BY <1>1
    <3>2. QED
      BY <1>1, <1>5, <3>1
  <2>3. line[k + 2] = rest[k]
    BY <1>1
  <2>4. QED
    BY <1>5, <2>1, <2>2, <2>3 DEF HasPort
<1>6. ASSUME NEW k \in 3..Len(line), \A j \in 3..(k - 1) : line[j] = Space,
             line[k] \in DOMAIN Number, Number[line[k]] \in Port
      PROVE  \E i \in 1..(h - 2) :
               /\ \A j \in 1..(i - 1) : rest[j] = Space
               /\ rest[i] \in DOMAIN Number /\ Number[rest[i]] \in Port
  <2>1. k <= h
    <3>1. SUFFICES ASSUME h < k PROVE FALSE
      BY <1>1
    <3>2. line[h + 1] = "#" /\ h + 1 \in 3..k
      BY <1>1, <3>1
    <3>3. CASE h + 1 = k
      BY <1>2, <1>6, <3>2, <3>3
    <3>4. CASE h + 1 # k
      <4>1. h + 1 \in 3..(k - 1)
        BY <1>1, <3>2, <3>4
      <4>2. QED
        BY <1>2, <1>6, <3>2, <4>1
    <3>5. QED
      BY <3>3, <3>4
  <2>2. k - 2 \in 1..(h - 2) /\ k - 2 + 2 = k
    BY <1>1, <2>1
  <2>3. rest[k - 2] = line[k]
    BY <1>1, <2>2
  <2>4. ASSUME NEW j \in 1..(k - 2 - 1) PROVE rest[j] = Space
    <3>1. j \in 1..(h - 2) /\ j + 2 \in 3..(k - 1)
      BY <1>1, <2>1
    <3>2. QED
      BY <1>1, <1>6, <3>1
  <2>5. QED
    BY <1>6, <2>2, <2>3, <2>4
<1>7. QED
  BY <1>4, <1>5, <1>6 DEF HasPort

\* No documented user line: what a "user" line gives instead, if anything.
Stray(line, old, new) ==
  /\ ~Documented(line)
  /\ \/ new = old
     \/ new = Entered(old, "", "")
     \/ /\ Len(line) >= 3
        /\ new = Entered(old, line[3], line[3]) \/ new = Entered(old, line[3], "")

LEMMA UserLine ==
  ASSUME NEW line, IsLine(line), Begins(line, "user"), NEW h, NEW rest,
         Splits(line, h, rest), h >= 2, NEW old
  PROVE  \/ Documented(line) /\ addUser(old, rest) = Entered(old, line[3], line[5])
         \/ Stray(line, old, addUser(old, rest))
<1>1. /\ Len(line) \in Nat /\ h \in Nat /\ h <= Len(line)
      /\ Len(rest) = h - 2
      /\ \A k \in 1..(h - 2) : rest[k] = line[k + 2] /\ rest[k] # "#"
      /\ h = Len(line) \/ line[h + 1] = "#"
  BY Behind
<1> DEFINE S == ToSet(line)
           index == Find(rest, Space)
           username == IF index = 0 THEN rest ELSE SubSeq(rest, 1, index - 1)
           password == SubSeq(rest, index + 1, Len(rest))
<1>2. rest \in Seq(S)
  BY DEF Splits
<1> HIDE DEF S
<1>3. \A k \in 1..(Len(line) - 1) : {line[k], line[k + 1]} \cap Separator # {}
  BY DEF IsLine
<1>4. \A k \in 1..(h - 3) : line[k + 2] = Space \/ line[k + 3] = Space
  <2>1. SUFFICES ASSUME NEW k \in 1..(h - 3)
                 PROVE  line[k + 2] = Space \/ line[k + 3] = Space
    OBVIOUS
  <2>2. k + 2 \in 1..(Len(line) - 1) /\ k + 2 + 1 = k + 3
    BY <1>1
  <2>3. {line[k + 2], line[k + 3]} \cap Separator # {}
    BY <1>3, <2>2
  <2>4. k \in 1..(h - 2) /\ k + 1 \in 1..(h - 2) /\ k + 1 + 2 = k + 3
    BY <1>1
  <2>5. line[k + 2] # "#" /\ line[k + 3] # "#"
    BY <1>1, <2>4
  <2>6. QED
    BY <2>3, <2>5 DEF Separator
<1>5. /\ index \in 0..Len(rest)
      /\ index = 0 => \A k \in 1..Len(rest) : rest[k] # Space
      /\ index # 0 => /\ rest[index] = Space
                      /\ \A k \in 1..(index - 1) : rest[k] # Space
  BY <1>2, FindFirst
<1>6. addUser(old, rest) =
        IF index = 1 \/ Find(password, Space) # 0
          THEN old
          ELSE Entered(old, WordOf(username), WordOf(password))
  BY DEF addUser
<1>7. Documented(line) <=>
        (/\ Len(line) >= 5 /\ line[4] = Space
         /\ line[3] \notin Separator /\ line[5] \notin Separator
         /\ Len(line) = 5 \/ line[6] = "#")
  BY DEF Documented
<1>8. Space \in Separator /\ "#" \in Separator /\ Space # "#"
  BY SpaceIsNoMark DEF Separator
<1> HIDE DEF index
<1>9. CASE Len(rest) = 0
  <2>1. rest = << >>
    BY <1>2, <1>9, EmptySeq
  <2>2. index = 0
    BY <1>5, <1>9
  <2>3. password = << >>
    <3>1. 0 + 1 = 1
      OBVIOUS
    <3>2. password = SubSeq(rest, 1, Len(rest))
      BY <2>2, <3>1
    <3>3. QED
      BY <1>2, <2>1, <3>2, SubSeqFull
  <2>4. username = << >>
    BY <2>1, <2>2
  <2>5. Find(<< >>, Space) = 0
    <3>1. << >> \in Seq(S) /\ Len(<< >>) = 0
      BY EmptySeq
    <3>2. Find(<< >>, Space) \in 0..Len(<< >>)
      BY <3>1, FindFirst
    <3>3. QED
      BY <3>1, <3>2
  <2> HIDE DEF username, password
  <2>6. addUser(old, rest) = Entered(old, "", "")
    <3>1. WordOf(username) = "" /\ WordOf(password) = ""
      BY <2>3, <2>4 DEF WordOf
    <3>2. Find(password, Space) = 0 /\ index # 1
      <4>1. Find(password, Space) = 0
        BY <2>3, <2>5, Zenon
      <4>2. QED
        BY <2>2, <4>1
    <3>3. QED
      BY <1>6, <3>1, <3>2
  <2>7. ~Documented(line)
    <3>1. h = 2 /\ h + 1 = 3
      BY <1>1, <1>9
    <3>2. Len(line) = 2 \/ line[3] = "#"
      BY <1>1, <3>1
    <3>3. QED
      BY <1>7, <1>8, <3>2
  <2>8. QED
    BY <2>6, <2>7 DEF Stray
<1>10. CASE Len(rest) # 0 /\ index = 0
  <2>1. h = 3
    <3>1. SUFFICES ASSUME h # 3 PROVE FALSE
      OBVIOUS
    <3>2. 1 \in 1..(h - 3) /\ 1 \in 1..(h - 2) /\ 2 \in 1..(h - 2)
      BY <1>1, <1>10, <3>1
    <3>3. line[3] = Space \/ line[4] = Space
      BY <1>4, <3>2
    <3>4. rest[1] = line[3] /\ rest[2] = line[4]
      BY <1>1, <3>2
    <3>5. QED
      BY <1>1, <1>5, <1>10, <3>2, <3>3, <3>4
  <2>2. rest[1] = line[3] /\ rest # << >>
    <3>1. 1 \in 1..(h - 2) /\ 1 + 2 = 3
      BY <2>1
    <3>2. rest[1] = line[3]
      BY <1>1, <3>1
    <3>3. QED
      BY <1>10, <3>2, EmptySeq
  <2>3. password = rest
    <3>1. password = SubSeq(rest, 1, Len(rest))
      BY <1>10
    <3>2. QED
      BY <1>2, <3>1, SubSeqFull
  <2>4. username = rest
    BY <1>10
  <2> HIDE DEF username, password
  <2>5. addUser(old, rest) = Entered(old, line[3], line[3])
    <3>1. Find(password, Space) = 0 /\ index # 1
      BY <1>10, <2>3 DEF index
    <3>2. WordOf(rest) = line[3]
      BY <2>2 DEF WordOf
    <3>3. QED
      BY <1>6, <2>3, <2>4, <3>1, <3>2
  <2>6. ~Documented(line)
    <3>1. Len(line) = 3 \/ line[4] = "#"
      BY <1>1, <2>1
    <3>2. QED
      BY <1>7, <1>8, <3>1
  <2>7. Len(line) >= 3
    BY <1>1, <2>1
  <2>8. QED
    BY <2>5, <2>6, <2>7 DEF Stray
<1>11. CASE index = 1
  <2>1. 1 \in 1..(h - 2) /\ 1 + 2 = 3
    BY <1>1, <1>5, <1>11
  <2>2. line[3] = Space
    BY <1>1, <1>5, <1>11, <2>1
  <2>3. ~Documented(line)
    BY <1>7, <1>8, <2>2
  <2>4. addUser(old, rest) = old
    BY <1>6, <1>11
  <2>5. QED
    BY <2>3, <2>4 DEF Stray
<1>12. CASE index # 0 /\ index # 1
  <2>1. index = 2 /\ h >= 4
    <3>1. index \in 2..(h - 2)
      BY <1>1, <1>5, <1>12
    <3>2. SUFFICES ASSUME index # 2 PROVE FALSE
      BY <1>1, <3>1
    <3>3. 1 \in 1..(h - 3) /\ 1 \in 1..(h - 2) /\ 2 \in 1..(h - 2)
      BY <1>1, <3>1
    <3>4. line[3] = Space \/ line[4] = Space
      BY <1>4, <3>3
    <3>5. rest[1] = line[3] /\ rest[2] = line[4]
      BY <1>1, <3>3
    <3>6. 1 \in 1..(index - 1) /\ 2 \in 1..(index - 1)
      BY <3>1, <3>2
    <3>7. QED
      BY <1>5, <1>12, <3>4, <3>5, <3>6
  <2>2. /\ rest[1] = line[3] /\ rest[2] = line[4]
        /\ rest[1] # Space /\ rest[2] = Space /\ rest[1] # "#"
    <3>1. 1 \in 1..(h - 2) /\ 2 \in 1..(h - 2) /\ 1 + 2 = 3 /\ 2 + 2 = 4
      BY <1>1, <2>1
    <3>2. 1 \in 1..(index - 1)
      BY <2>1
    <3>3. QED
      BY <1>1, <1>5, <1>12, <2>1, <3>1, <3>2
  <2>3. WordOf(username) = line[3]
    <3> DEFINE name == SubSeq(rest, 1, 1)
    <3>1. username = name
      BY <2>1
    <3>2. 1 \in Nat \ {0} /\ 1 \in 0..Len(rest) /\ 1 + 1 - 1 = 1
      BY <1>1, <2>1
    <3>3. /\ name \in Seq(S)
          /\ Len(name) = IF 1 <= 1 THEN 1 - 1 + 1 ELSE 0
          /\ \A k \in 1..Len(name) : name[k] = rest[1 + k - 1]
      BY <1>2, <3>2, Part
    <3> HIDE DEF name
    <3>4. Len(name) = 1 /\ name[1] = rest[1]
      BY <3>2, <3>3
    <3>5. name # << >>
      BY <3>4, EmptySeq
    <3>6. WordOf(name) = line[3]
      BY <2>2, <3>4, <3>5 DEF WordOf
    <3>7. QED
      BY <3>1, <3>6
  <2>4. /\ password \in Seq(S) /\ Len(password) = h - 4
        /\ \A k \in 1..(h - 4) : password[k] = line[k + 4] /\ password[k] # "#"
    <3> DEFINE word == SubSeq(rest, 3, Len(rest))
    <3>1. password = word
      BY <2>1
    <3>2. 3 \in Nat \ {0} /\ Len(rest) \in 0..Len(rest)
      BY <1>1, <2>1
    <3>3. /\ word \in Seq(S)
          /\ Len(word) = IF 3 <= Len(rest) THEN Len(rest) - 3 + 1 ELSE 0
          /\ \A k \in 1..Len(word) : word[k] = rest[3 + k - 1]
      BY <1>2, <3>2, Part
    <3> HIDE DEF word
    <3>4. Len(word) = h - 4
      BY <1>1, <2>1, <3>3
    <3>5. ASSUME NEW k \in 1..(h - 4)
          PROVE  word[k] = line[k + 4] /\ word[k] # "#"
      <4>1. 3 + k - 1 = k + 2 /\ k + 2 \in 1..(h - 2) /\ k + 2 + 2 = k + 4
        BY <1>1
      <4>2. word[k] = rest[k + 2]
        BY <3>3, <3>4, <4>1
      <4>3. rest[k + 2] = line[k + 4] /\ rest[k + 2] # "#"
        BY <1>1, <4>1
      <4>4. QED
        BY <4>2, <4>3
    <3>6. QED
      BY <3>1, <3>3, <3>4, <3>5
  <2> HIDE DEF username, password
  <2>5. /\ Find(password, Space) \in 0..Len(password)
        /\ Find(password, Space) = 0 =>
             \A k \in 1..Len(password) : password[k] # Space
        /\ Find(password, Space) # 0 => password[Find(password, Space)] = Space
    BY <2>4, FindFirst
  <2>6. CASE Find(password, Space) # 0
    <3>1. addUser(old, rest) = old
      BY <1>6, <2>6
    <3>2. ~Documented(line)
      <4>1. SUFFICES ASSUME Documented(line) PROVE FALSE
        OBVIOUS
      <4>2. /\ Len(line) >= 5 /\ line[5] # Space
            /\ Len(line) = 5 \/ line[6] = "#"
        BY <1>7, <1>8, <4>1
      <4>3. h = 5
        <5>1. ~(h >= 6)
          <6>1. SUFFICES ASSUME h >= 6 PROVE FALSE
            OBVIOUS
          <6>2. 4 \in 1..(h - 2) /\ 4 + 2 = 6
            BY <1>1, <6>1
          <6>3. line[6] # "#"
            BY <1>1, <6>2
          <6>4. QED
            BY <1>1, <4>2, <6>1, <6>3
        <5>2. h # 4
          BY <2>4, <2>5, <2>6
        <5>3. QED
          BY <1>1, <2>1, <5>1, <5>2
      <4>4. Find(password, Space) = 1 /\ 1 \in 1..(h - 4) /\ 1 + 4 = 5
        BY <2>4, <2>5, <2>6, <4>3
      <4>5. password[1] = line[5] /\ password[1] = Space
        BY <2>4, <2>5, <4>4
      <4>6. QED
        BY <4>2, <4>5
    <3>3. QED
      BY <3>1, <3>2 DEF Stray
  <2>7. CASE Find(password, Space) = 0
    <3>1. addUser(old, rest) = Entered(old, line[3], WordOf(password))
      BY <1>6, <1>12, <2>3, <2>7
    <3>2. h = 4 \/ h = 5
      <4>1. SUFFICES ASSUME h >= 6 PROVE FALSE
        BY <1>1, <2>1
      <4>2. 3 \in 1..(h - 3) /\ 1 \in 1..(h - 4) /\ 2 \in 1..(h - 4)
        BY <1>1, <4>1
      <4>3. line[5] = Space \/ line[6] = Space
        BY <1>4, <4>2
      <4>4. password[1] = line[5] /\ password[2] = line[6]
        BY <2>4, <4>2
      <4>5. QED
        BY <2>4, <2>5, <2>7, <4>2, <4>3, <4>4
    <3>3. CASE h = 4
      <4>1. password = << >>
        BY <2>4, <3>3, EmptySeq
      <4>2. addUser(old, rest) = Entered(old, line[3], "")
        BY <3>1, <4>1 DEF WordOf
      <4>3. Len(line) = 4 \/ line[5] = "#"
        BY <1>1, <3>3
      <4>4. ~Documented(line) /\ Len(line) >= 3
        BY <1>1, <1>7, <1>8, <3>3, <4>3
      <4>5. QED
        BY <4>2, <4>4 DEF Stray
    <3>4. CASE h = 5
      <4>1. 1 \in 1..(h - 4) /\ 1 + 4 = 5 /\ Len(password) = 1
        BY <2>4, <3>4
      <4>2. password[1] = line[5] /\ line[5] # Space /\ line[5] # "#"
        BY <2>4, <2>5, <2>7, <4>1
      <4>3. password # << >>
        BY <4>1, EmptySeq
      <4>4. addUser(old, rest) = Entered(old, line[3], line[5])
        BY <3>1, <4>2, <4>3 DEF WordOf
      <4>5. Len(line) >= 5 /\ (Len(line) = 5 \/ line[6] = "#")
        BY <1>1, <3>4
      <4>6. line[3] \notin Separator /\ line[5] \notin Separator
        BY <2>2, <4>2 DEF Separator
      <4>7. Documented(line)
        BY <1>7, <2>2, <4>5, <4>6
      <4>8. QED
        BY <4>4, <4>7
    <3>5. QED
      BY <3>2, <3>3, <3>4
  <2>8. QED
    BY <2>6, <2>7
<1>13. QED
  BY <1>9, <1>10, <1>11, <1>12

-------------------------------------------------------------------------------
(* The file, line by line. *)

IsConf(conf) == DOMAIN conf = {"directory", "port", "credentials"}

\* What one line makes of a configuration.
LEMMA LineEffect ==
  ASSUME NEW line, IsLine(line), NEW conf, IsConf(conf)
  PROVE  LET next == parseLine(conf, line) IN
           /\ IsConf(next)
           /\ IF Begins(line, "base")
                THEN (next.directory # << >>) <=> HasDirectory(line)
                ELSE next.directory = conf.directory
           /\ IF Begins(line, "port")
                THEN next.port \in Port <=> HasPort(line)
                ELSE next.port = conf.port
           /\ IF Begins(line, "user")
                THEN \/ /\ Documented(line)
                        /\ next.credentials =
                             Entered(conf.credentials, line[3], line[5])
                     \/ Stray(line, conf.credentials, next.credentials)
                ELSE next.credentials = conf.credentials
<1>1. PICK h, rest :
        /\ Splits(line, h, rest)
        /\ \A key \in Key : Begins(line, key) => h >= 2
        /\ Begins(line, "base") =>
             parseLine(conf, line) = [conf EXCEPT !.directory = rest]
        /\ Begins(line, "port") =>
             parseLine(conf, line) = [conf EXCEPT !.port = stoi(rest)]
        /\ Begins(line, "user") =>
             parseLine(conf, line) =
               [conf EXCEPT !.credentials = addUser(@, rest)]
        /\ ~(\E key \in Key : Begins(line, key)) => parseLine(conf, line) = conf
  BY ParsedLine, Zenon
<1> DEFINE next == parseLine(conf, line)
           base == Begins(line, "base")
           port == Begins(line, "port")
           user == Begins(line, "user")
<1>2. ~(base /\ port) /\ ~(base /\ user) /\ ~(port /\ user)
  <2>1. line \in Seq(ToSet(line))
    BY DEF IsLine
  <2>2. \A key \in Key : Begins(line, key) => line[1] = key
    BY <2>1, BeginsWith
  <2>3. QED
    BY <2>2 DEF Key
<1>3. "base" \in Key /\ "port" \in Key /\ "user" \in Key
  BY DEF Key
<1>4. /\ base => next = [conf EXCEPT !.directory = rest]
      /\ port => next = [conf EXCEPT !.port = stoi(rest)]
      /\ user => next = [conf EXCEPT !.credentials = addUser(@, rest)]
      /\ ~base /\ ~port /\ ~user => next = conf
  <2>1. (\E key \in Key : Begins(line, key)) => base \/ port \/ user
    BY DEF Key
  <2>2. QED
    BY <1>1, <2>1
<1> HIDE DEF next
<1>5. CASE base
  <2>1. h >= 2
    BY <1>1, <1>3, <1>5
  <2>2. (rest # << >>) <=> HasDirectory(line)
    BY <1>1, <2>1, BaseLine
  <2>3. next = [conf EXCEPT !.directory = rest]
    BY <1>4, <1>5
  <2> HIDE DEF base, port, user
  <2>4. /\ IsConf(next) /\ next.directory = rest
        /\ next.port = conf.port /\ next.credentials = conf.credentials
    BY <2>3 DEF IsConf
  <2>5. QED
    BY <1>2, <1>5, <2>2, <2>4 DEF next, base, port, user
<1>6. CASE port
  <2>1. h >= 2
    BY <1>1, <1>3, <1>6
  <2>2. stoi(rest) \in Port <=> HasPort(line)
    BY <1>1, <2>1, PortLine
  <2>3. next = [conf EXCEPT !.port = stoi(rest)]
    BY <1>4, <1>6
  <2> HIDE DEF base, port, user
  <2>4. /\ IsConf(next) /\ next.port = stoi(rest)
        /\ next.directory = conf.directory /\ next.credentials = conf.credentials
    BY <2>3 DEF IsConf
  <2>5. QED
    BY <1>2, <1>6, <2>2, <2>4 DEF next, base, port, user
<1>7. CASE user
  <2>1. h >= 2
    BY <1>1, <1>3, <1>7
  <2> DEFINE old == conf.credentials
             new == addUser(old, rest)
  <2>2. \/ Documented(line) /\ new = Entered(old, line[3], line[5])
        \/ Stray(line, old, new)
    BY <1>1, <1>7, <2>1, UserLine
  <2>3. next = [conf EXCEPT !.credentials = new]
    BY <1>4, <1>7
  <2> HIDE DEF base, port, user, new
  <2>4. /\ IsConf(next) /\ next.credentials = new
        /\ next.directory = conf.directory /\ next.port = conf.port
    BY <2>3 DEF IsConf
  <2>5. QED
    BY <1>2, <1>7, <2>2, <2>4 DEF next, base, port, user
<1>8. CASE ~base /\ ~port /\ ~user
  <2>1. next = conf
    BY <1>4, <1>8
  <2> HIDE DEF base, port, user
  <2>2. QED
    BY <1>8, <2>1 DEF next, base, port, user
<1>9. QED
  BY <1>5, <1>6, <1>7, <1>8

Parses(conf, file, m) ==
  conf = [n \in 0..m |-> IF n = 0 THEN Unread ELSE parseLine(conf[n - 1], file[n])]

LEMMA ParsesExists ==
  ASSUME NEW file, NEW m \in Nat
  PROVE  \E conf : Parses(conf, file, m)
<1> DEFINE T == {k \in Nat : \E conf : Parses(conf, file, k)}
<1>1. 0 \in T
  <2>1. Parses([n \in 0..0 |-> Unread], file, 0)
    BY DEF Parses
  <2>2. QED
    BY <2>1
<1>2. ASSUME NEW k \in Nat, k \in T
      PROVE  k + 1 \in T
  <2>1. PICK conf : Parses(conf, file, k)
    BY <1>2
  <2> DEFINE next == [n \in 0..(k + 1) |->
                        IF n <= k THEN conf[n] ELSE parseLine(conf[k], file[k + 1])]
  <2>2. \A n \in 0..(k + 1) :
          next[n] = IF n = 0 THEN Unread ELSE parseLine(next[n - 1], file[n])
    <3>1. SUFFICES ASSUME NEW n \in 0..(k + 1)
                   PROVE  next[n] = IF n = 0 THEN Unread
                                      ELSE parseLine(next[n - 1], file[n])
      OBVIOUS
    <3>2. \A i \in 0..k : conf[i] = IF i = 0 THEN Unread
                                      ELSE parseLine(conf[i - 1], file[i])
      BY <2>1 DEF Parses
    <3>3. CASE n <= k
      BY <3>2, <3>3
    <3>4. CASE n = k + 1
      BY <3>4
    <3>5. QED
      BY <3>3, <3>4
  <2>3. Parses(next, file, k + 1)
    <3> HIDE DEF next
    <3>1. next = [n \in 0..(k + 1) |-> next[n]]
      BY DEF next
    <3>2. QED
      BY <2>2, <3>1 DEF Parses
  <2>4. QED
    BY <2>3
<1>3. QED
  <2> HIDE DEF T
  <2>1. Nat \subseteq T
    BY <1>1, <1>2, Induction
  <2>2. QED
    BY <2>1 DEF T

LEMMA Parsing ==
  ASSUME NEW file, Len(file) \in Nat
  PROVE  \E conf : LET read == conf[Len(file)] IN
           /\ Parses(conf, file, Len(file))
           /\ parseFromFile(file) =
                IF read.port \in Port /\ read.directory # << >> THEN read ELSE Invalid
<1> DEFINE confs == CHOOSE conf : Parses(conf, file, Len(file))
<1>1. Parses(confs, file, Len(file))
  BY ParsesExists, Zenon
<1>2. parseFromFile(file) =
        IF confs[Len(file)].port \in Port /\ confs[Len(file)].directory # << >>
          THEN confs[Len(file)] ELSE Invalid
  BY DEF parseFromFile, Parses
<1>3. QED
  BY <1>1, <1>2, Zenon

\* The last of the first n lines with this keyword.
LastOf(file, n, key, i) ==
  /\ Begins(file[i], key)
  /\ \A j \in 1..n : j > i => ~Begins(file[j], key)

LEMMA LastLine ==
  ASSUME NEW file, NEW n \in Nat, NEW key, NEW T
  PROVE  /\ Begins(file[n + 1], key) =>
              ((\E i \in 1..(n + 1) : LastOf(file, n + 1, key, i) /\ i \in T)
                 <=> n + 1 \in T)
         /\ ~Begins(file[n + 1], key) =>
              ((\E i \in 1..(n + 1) : LastOf(file, n + 1, key, i) /\ i \in T)
                 <=> \E i \in 1..n : LastOf(file, n, key, i) /\ i \in T)
<1>1. n + 1 \in 1..(n + 1) /\ \A i \in 1..n : n + 1 > i
  OBVIOUS
<1>2. \A i \in 1..(n + 1) : i \in 1..n \/ i = n + 1
  OBVIOUS
<1>3. \A i \in 1..n : i \in 1..(n + 1)
  OBVIOUS
<1>4. CASE Begins(file[n + 1], key)
  <2>1. LastOf(file, n + 1, key, n + 1)
    BY <1>4 DEF LastOf
  <2>2. \A i \in 1..n : ~LastOf(file, n + 1, key, i)
    BY <1>1, <1>4 DEF LastOf
  <2>3. QED
    BY <1>1, <1>2, <1>4, <2>1, <2>2
<1>5. CASE ~Begins(file[n + 1], key)
  <2>1. ~LastOf(file, n + 1, key, n + 1)
    BY <1>5 DEF LastOf
  <2>2. \A i \in 1..n : LastOf(file, n + 1, key, i) <=> LastOf(file, n, key, i)
    BY <1>2, <1>3, <1>5 DEF LastOf
  <2>3. QED
    BY <1>2, <1>3, <1>5, <2>1, <2>2
<1>6. QED
  BY <1>4, <1>5

\* A documented line counts unless one of the first n lines overrides it.
Upheld(file, n, users) ==
  \A i \in 1..n :
    /\ Documented(file[i])
    /\ \A j \in 1..n : j > i => ~IsAbout(file[j], file[i][3])
    => file[i][3] \in DOMAIN users /\ users[file[i][3]] = file[i][5]

\* A password was given by one of the first n lines, and no documented line
\* among them overrides it.
Sourced(file, n, users) ==
  \A u \in DOMAIN users \ {""} : \E i \in 1..n :
    /\ Gives(file[i], u, users[u])
    /\ \A j \in 1..n : j > i => ~(Documented(file[j]) /\ IsAbout(file[j], u))

LEMMA UsersStep ==
  ASSUME NEW file, NEW n \in Nat, \A i \in 1..(n + 1) : IsLine(file[i]),
         NEW old, NEW new, Upheld(file, n, old), Sourced(file, n, old),
         IF Begins(file[n + 1], "user")
           THEN \/ /\ Documented(file[n + 1])
                   /\ new = Entered(old, file[n + 1][3], file[n + 1][5])
                \/ Stray(file[n + 1], old, new)
           ELSE new = old
  PROVE  Upheld(file, n + 1, new) /\ Sourced(file, n + 1, new)
<1> DEFINE line == file[n + 1]
<1>1. n + 1 \in 1..(n + 1) /\ \A i \in 1..n : n + 1 > i
  OBVIOUS
<1>2. \A i \in 1..(n + 1) : i \in 1..n \/ i = n + 1
  OBVIOUS
<1>3. \A i \in 1..n : i \in 1..(n + 1)
  OBVIOUS
<1>4. \A j \in 1..(n + 1) : ~(j > n + 1)
  OBVIOUS
<1>5. \A u : ~Documented(line) \/ line[3] # u =>
                (\A i \in 1..n :
                   /\ Gives(file[i], u, old[u])
                   /\ \A j \in 1..n :
                        j > i => ~(Documented(file[j]) /\ IsAbout(file[j], u))
                   => /\ Gives(file[i], u, old[u])
                      /\ \A j \in 1..(n + 1) :
                           j > i => ~(Documented(file[j]) /\ IsAbout(file[j], u)))
  BY <1>2 DEF IsAbout
<1>6. \A i \in 1..n :
        (\A j \in 1..(n + 1) : j > i => ~IsAbout(file[j], file[i][3])) =>
          /\ ~IsAbout(line, file[i][3])
          /\ \A j \in 1..n : j > i => ~IsAbout(file[j], file[i][3])
  BY <1>1, <1>3
<1>7. ASSUME NEW u, NEW p, new = Entered(old, u, p),
             \/ Documented(line) /\ u = line[3] /\ p = line[5]
             \/ ~Documented(line) /\ IsAbout(line, u) /\ p \in {u, ""},
             IsAbout(line, u)
      PROVE  Upheld(file, n + 1, new) /\ Sourced(file, n + 1, new)
  <2>1. DOMAIN new = DOMAIN old \cup {u} /\ new[u] = p
    BY <1>7 DEF Entered
  <2>2. \A v \in DOMAIN old : v # u => new[v] = old[v]
    BY <1>7 DEF Entered
  <2>3. ASSUME NEW i \in 1..(n + 1), Documented(file[i]),
               \A j \in 1..(n + 1) : j > i => ~IsAbout(file[j], file[i][3])
        PROVE  file[i][3] \in DOMAIN new /\ new[file[i][3]] = file[i][5]
    <3>1. CASE i = n + 1
      BY <1>7, <2>1, <2>3, <3>1
    <3>2. CASE i \in 1..n
      <4>1. /\ ~IsAbout(line, file[i][3])
            /\ \A j \in 1..n : j > i => ~IsAbout(file[j], file[i][3])
        BY <1>6, <2>3, <3>2
      <4>2. file[i][3] \in DOMAIN old /\ old[file[i][3]] = file[i][5]
        BY <2>3, <3>2, <4>1 DEF Upheld
      <4>3. file[i][3] # u
        BY <1>7, <4>1
      <4>4. QED
        BY <2>1, <2>2, <4>2, <4>3
    <3>3. QED
      BY <1>2, <3>1, <3>2
  <2>4. ASSUME NEW v \in DOMAIN new \ {""}
        PROVE  \E i \in 1..(n + 1) :
                 /\ Gives(file[i], v, new[v])
                 /\ \A j \in 1..(n + 1) :
                      j > i => ~(Documented(file[j]) /\ IsAbout(file[j], v))
    <3>1. CASE v = u
      <4>1. Gives(line, u, p)
        BY <1>7 DEF Gives
      <4>2. QED
        BY <1>1, <1>4, <2>1, <3>1, <4>1
    <3>2. CASE v # u
      <4>1. v \in DOMAIN old \ {""} /\ new[v] = old[v]
        BY <2>1, <2>2, <3>2
      <4>2. PICK i \in 1..n :
              /\ Gives(file[i], v, old[v])
              /\ \A j \in 1..n :
                   j > i => ~(Documented(file[j]) /\ IsAbout(file[j], v))
        BY <4>1 DEF Sourced
      <4>3. ~Documented(line) \/ line[3] # v
        BY <1>7, <3>2
      <4>4. QED
        BY <1>3, <1>5, <4>1, <4>2, <4>3
    <3>3. QED
      BY <3>1, <3>2
  <2>5. QED
    BY <2>3, <2>4 DEF Upheld, Sourced
<1>8. CASE Begins(line, "user") /\ Documented(line)
           /\ new = Entered(old, line[3], line[5])
  <2>1. IsAbout(line, line[3])
    BY <1>8 DEF IsAbout, Documented
  <2>2. QED
    BY <1>7, <1>8, <2>1
<1>9. CASE Len(line) >= 3 /\ Begins(line, "user") /\ ~Documented(line)
           /\ \/ new = Entered(old, line[3], line[3])
              \/ new = Entered(old, line[3], "")
  <2>1. IsAbout(line, line[3])
    BY <1>9 DEF IsAbout
  <2>2. QED
    BY <1>7, <1>9, <2>1
<1>10. CASE ~Documented(line) /\ (new = old \/ new = Entered(old, "", ""))
  <2>1. /\ DOMAIN old \subseteq DOMAIN new /\ DOMAIN new \subseteq DOMAIN old \cup {""}
        /\ \A v \in DOMAIN old : v # "" => new[v] = old[v]
    BY <1>10 DEF Entered
  <2>2. ASSUME NEW i \in 1..(n + 1), Documented(file[i]),
               \A j \in 1..(n + 1) : j > i => ~IsAbout(file[j], file[i][3])
        PROVE  file[i][3] \in DOMAIN new /\ new[file[i][3]] = file[i][5]
    <3>1. i \in 1..n
      BY <1>2, <1>10, <2>2
    <3>2. \A j \in 1..n : j > i => ~IsAbout(file[j], file[i][3])
      BY <1>6, <2>2, <3>1
    <3>3. file[i][3] \in DOMAIN old /\ old[file[i][3]] = file[i][5]
      BY <2>2, <3>1, <3>2 DEF Upheld
    <3>4. file[i][3] # ""
      <4> DEFINE first == file[i]
      <4>1. IsLine(first) /\ Len(first) >= 5
        BY <2>2 DEF Documented
      <4> HIDE DEF first
      <4>2. first \in Seq(ToSet(first)) /\ "" \notin ToSet(first)
        BY <4>1 DEF IsLine
      <4>3. 3 \in 1..Len(first)
        <5>1. Len(first) \in Nat
          BY <4>2, LenProperties
        <5>2. QED
          BY <4>1, <5>1
      <4>4. first[3] \in ToSet(first)
        BY <4>2, <4>3, ElementOfSeq
      <4>5. QED
        BY <4>2, <4>4 DEF first
    <3>5. QED
      BY <2>1, <3>3, <3>4
  <2>3. ASSUME NEW v \in DOMAIN new \ {""}
        PROVE  \E i \in 1..(n + 1) :
                 /\ Gives(file[i], v, new[v])
                 /\ \A j \in 1..(n + 1) :
                      j > i => ~(Documented(file[j]) /\ IsAbout(file[j], v))
    <3>1. v \in DOMAIN old \ {""} /\ new[v] = old[v]
      BY <2>1
    <3>2. PICK i \in 1..n :
            /\ Gives(file[i], v, old[v])
            /\ \A j \in 1..n :
                 j > i => ~(Documented(file[j]) /\ IsAbout(file[j], v))
      BY <3>1 DEF Sourced
    <3>3. QED
      BY <1>3, <1>5, <1>10, <3>1, <3>2
  <2>4. QED
    BY <2>2, <2>3 DEF Upheld, Sourced
<1>11. \/ Begins(line, "user") /\ Documented(line)
          /\ new = Entered(old, line[3], line[5])
       \/ Len(line) >= 3 /\ Begins(line, "user") /\ ~Documented(line)
          /\ \/ new = Entered(old, line[3], line[3])
             \/ new = Entered(old, line[3], "")
       \/ ~Documented(line) /\ (new = old \/ new = Entered(old, "", ""))
  <2>1. CASE Begins(line, "user")
    BY <2>1 DEF Stray
  <2>2. CASE ~Begins(line, "user")
    <3>1. ~Documented(line)
      BY <2>2 DEF Documented
    <3>2. QED
      BY <2>2, <3>1
  <2>3. QED
    BY <2>1, <2>2
<1>12. QED
  <2> HIDE DEF line
  <2>1. QED
    BY <1>8, <1>9, <1>10, <1>11

\* What the first n lines have made of the configuration.
Follows(file, n, conf) ==
  /\ IsConf(conf)
  /\ (conf.directory # << >>) <=>
       \E i \in 1..n : LastOf(file, n, "base", i) /\ HasDirectory(file[i])
  /\ conf.port \in Port <=>
       \E i \in 1..n : LastOf(file, n, "port", i) /\ HasPort(file[i])
  /\ Upheld(file, n, conf.credentials)
  /\ Sourced(file, n, conf.credentials)

LEMMA FollowsStart == ASSUME NEW file PROVE Follows(file, 0, Unread)
<1>1. /\ IsConf(Unread) /\ Unread.directory = << >> /\ Unread.port = -1
      /\ Unread.credentials = << >>
  BY DEF IsConf, Unread
<1>2. Unread.port \notin Port
  BY <1>1, NoPort
<1>3. DOMAIN << >> = {} /\ 1..0 = {}
  OBVIOUS
<1>4. QED
  BY <1>1, <1>2, <1>3 DEF Follows, Upheld, Sourced

LEMMA FollowsStep ==
  ASSUME NEW file, NEW n \in Nat, \A i \in 1..(n + 1) : IsLine(file[i]),
         NEW conf, Follows(file, n, conf)
  PROVE  Follows(file, n + 1, parseLine(conf, file[n + 1]))
<1> DEFINE line == file[n + 1]
           next == parseLine(conf, line)
<1>1. IsLine(line) /\ IsConf(conf)
  <2>1. n + 1 \in 1..(n + 1)
    OBVIOUS
  <2>2. QED
    BY <2>1 DEF Follows
<1>2. /\ IsConf(next)
      /\ IF Begins(line, "base")
           THEN (next.directory # << >>) <=> HasDirectory(line)
           ELSE next.directory = conf.directory
      /\ IF Begins(line, "port")
           THEN next.port \in Port <=> HasPort(line)
           ELSE next.port = conf.port
      /\ IF Begins(line, "user")
           THEN \/ /\ Documented(line)
                   /\ next.credentials =
                        Entered(conf.credentials, line[3], line[5])
                \/ Stray(line, conf.credentials, next.credentials)
           ELSE next.credentials = conf.credentials
  BY <1>1, LineEffect
<1> HIDE DEF next
<1>3. (next.directory # << >>) <=>
        \E i \in 1..(n + 1) :
          LastOf(file, n + 1, "base", i) /\ HasDirectory(file[i])
  <2> DEFINE T == {i \in 1..(n + 1) : HasDirectory(file[i])}
  <2>1. \A i \in 1..(n + 1) : i \in T <=> HasDirectory(file[i])
    OBVIOUS
  <2>2. n + 1 \in 1..(n + 1) /\ \A i \in 1..n : i \in 1..(n + 1)
    OBVIOUS
  <2> HIDE DEF T
  <2>3. /\ Begins(line, "base") =>
             ((\E i \in 1..(n + 1) : LastOf(file, n + 1, "base", i) /\ i \in T)
                <=> n + 1 \in T)
        /\ ~Begins(line, "base") =>
             ((\E i \in 1..(n + 1) : LastOf(file, n + 1, "base", i) /\ i \in T)
                <=> \E i \in 1..n : LastOf(file, n, "base", i) /\ i \in T)
    BY LastLine
  <2>4. (conf.directory # << >>) <=>
          \E i \in 1..n : LastOf(file, n, "base", i) /\ HasDirectory(file[i])
    BY DEF Follows
  <2>5. CASE Begins(line, "base")
    BY <1>2, <2>1, <2>2, <2>3, <2>5
  <2>6. CASE ~Begins(line, "base")
    BY <1>2, <2>1, <2>2, <2>3, <2>4, <2>6
  <2>7. QED
    BY <2>5, <2>6
<1>4. next.port \in Port <=>
        \E i \in 1..(n + 1) : LastOf(file, n + 1, "port", i) /\ HasPort(file[i])
  <2> DEFINE T == {i \in 1..(n + 1) : HasPort(file[i])}
  <2>1. \A i \in 1..(n + 1) : i \in T <=> HasPort(file[i])
    OBVIOUS
  <2>2. n + 1 \in 1..(n + 1) /\ \A i \in 1..n : i \in 1..(n + 1)
    OBVIOUS
  <2> HIDE DEF T
  <2>3. /\ Begins(line, "port") =>
             ((\E i \in 1..(n + 1) : LastOf(file, n + 1, "port", i) /\ i \in T)
                <=> n + 1 \in T)
        /\ ~Begins(line, "port") =>
             ((\E i \in 1..(n + 1) : LastOf(file, n + 1, "port", i) /\ i \in T)
                <=> \E i \in 1..n : LastOf(file, n, "port", i) /\ i \in T)
    BY LastLine
  <2>4. conf.port \in Port <=>
          \E i \in 1..n : LastOf(file, n, "port", i) /\ HasPort(file[i])
    BY DEF Follows
  <2>5. CASE Begins(line, "port")
    BY <1>2, <2>1, <2>2, <2>3, <2>5
  <2>6. CASE ~Begins(line, "port")
    BY <1>2, <2>1, <2>2, <2>3, <2>4, <2>6
  <2>7. QED
    BY <2>5, <2>6
<1>5. Upheld(file, n + 1, next.credentials) /\ Sourced(file, n + 1, next.credentials)
  <2> DEFINE old == conf.credentials
             new == next.credentials
  <2>1. Upheld(file, n, old) /\ Sourced(file, n, old)
    BY DEF Follows
  <2>2. IF Begins(file[n + 1], "user")
          THEN \/ /\ Documented(file[n + 1])
                  /\ new = Entered(old, file[n + 1][3], file[n + 1][5])
               \/ Stray(file[n + 1], old, new)
          ELSE new = old
    BY <1>2
  <2> HIDE DEF old, new
  <2>3. Upheld(file, n + 1, new) /\ Sourced(file, n + 1, new)
    BY <2>1, <2>2, UsersStep
  <2>4. QED
    BY <2>3 DEF new
<1>6. QED
  <2>1. Follows(file, n + 1, next)
    BY <1>2, <1>3, <1>4, <1>5 DEF Follows
  <2>2. QED
    BY <2>1 DEF next

LEMMA FileIsFollowed ==
  ASSUME NEW file, IsFileOfLines(file), NEW conf, Parses(conf, file, Len(file))
  PROVE  Follows(file, Len(file), conf[Len(file)])
<1> DEFINE m == Len(file)
<1>1. m \in Nat /\ \A i \in 1..m : IsLine(file[i])
  <2>1. file \in Seq(ToSet(file)) /\ \A i \in DOMAIN file : IsLine(file[i])
    BY DEF IsFileOfLines
  <2>2. Len(file) \in Nat /\ DOMAIN file = 1..Len(file)
    BY <2>1, LenProperties
  <2>3. QED
    BY <2>1, <2>2
<1> HIDE DEF m
<1>2. conf = [n \in 0..m |->
                IF n = 0 THEN Unread ELSE parseLine(conf[n - 1], file[n])]
  BY DEF Parses, m
<1>3. conf[0] = Unread /\ \A n \in 1..m : conf[n] = parseLine(conf[n - 1], file[n])
  <2>1. 0 \in 0..m /\ \A n \in 1..m : n \in 0..m /\ n # 0
    BY <1>1
  <2>2. QED
    BY <1>2, <2>1
<1> DEFINE T == {n \in Nat : n <= m => Follows(file, n, conf[n])}
<1>4. 0 \in T
  BY <1>3, FollowsStart
<1>5. ASSUME NEW n \in Nat, n \in T
      PROVE  n + 1 \in T
  <2>1. SUFFICES ASSUME n + 1 <= m PROVE Follows(file, n + 1, conf[n + 1])
    OBVIOUS
  <2>2. Follows(file, n, conf[n])
    BY <1>1, <1>5, <2>1
  <2>3. \A i \in 1..(n + 1) : IsLine(file[i])
    BY <1>1, <2>1
  <2>4. Follows(file, n + 1, parseLine(conf[n], file[n + 1]))
    BY <2>2, <2>3, FollowsStep
  <2>5. conf[n + 1] = parseLine(conf[n], file[n + 1])
    <3>1. n + 1 \in 1..m /\ n + 1 - 1 = n
      BY <1>1, <2>1
    <3>2. conf[n + 1] = parseLine(conf[n + 1 - 1], file[n + 1])
      BY <1>3, <3>1
    <3>3. QED
      BY <3>1, <3>2
  <2>6. QED
    BY <2>4, <2>5
<1>6. m \in T
  <2> HIDE DEF T
  <2>1. Nat \subseteq T
    BY <1>4, <1>5, Induction
  <2>2. QED
    BY <1>1, <2>1
<1>7. QED
  BY <1>1, <1>6 DEF m

-------------------------------------------------------------------------------
(* Theorems *)

(***************************************************************************)
(* For any configuration file, of any length and with any lines, what      *)
(* Config::parseFromFile makes of it is what grass.conf documents: the     *)
(* last "base" and "port" lines decide whether there is a configuration,   *)
(* every documented user line counts unless a later line is about the same *)
(* user, and no password comes from elsewhere.                             *)
(***************************************************************************)
THEOREM ParserFollowsFormat ==
  ASSUME NEW file, IsFileOfLines(file)
  PROVE  FollowsFormat(file)
<1> DEFINE m == Len(file)
<1>1. m \in Nat /\ DOMAIN file = 1..m
  <2>1. file \in Seq(ToSet(file))
    BY DEF IsFileOfLines
  <2>2. QED
    BY <2>1, LenProperties
<1>2. PICK conf :
        LET read == conf[m] IN
          /\ Parses(conf, file, m)
          /\ parseFromFile(file) =
               IF read.port \in Port /\ read.directory # << >> THEN read ELSE Invalid
  BY <1>1, Parsing
<1> DEFINE read == conf[m]
<1>3. Follows(file, m, read)
  BY <1>2, FileIsFollowed
<1>4. parseFromFile(file) =
        IF read.port \in Port /\ read.directory # << >> THEN read ELSE Invalid
  BY <1>2
<1> HIDE DEF m, read
<1>5. \A key : \A i \in 1..m : LastOf(file, m, key, i) <=> IsLast(file, key, i)
  BY <1>1 DEF LastOf, IsLast
<1>6. Valid(file) <=> (read.port \in Port /\ read.directory # << >>)
  <2>1. (read.directory # << >>) <=>
          \E i \in 1..m : LastOf(file, m, "base", i) /\ HasDirectory(file[i])
    BY <1>3 DEF Follows
  <2>2. read.port \in Port <=>
          \E i \in 1..m : LastOf(file, m, "port", i) /\ HasPort(file[i])
    BY <1>3 DEF Follows
  <2>3. QED
    BY <1>1, <1>5, <2>1, <2>2 DEF Valid
<1>7. parseFromFile(file) # Invalid <=> Valid(file)
  <2>1. Invalid.port \notin Port
    <3>1. Invalid.port = -1
      BY DEF Invalid, Unread
    <3>2. QED
      BY <3>1, NoPort
  <2>2. read.port \in Port => read # Invalid
    BY <2>1
  <2>3. QED
    BY <1>4, <1>6, <2>2
<1>8. ASSUME Valid(file)
      PROVE  LET users == parseFromFile(file).credentials IN
        /\ \A i \in DOMAIN file : LET line == file[i] IN
             /\ Documented(line)
             /\ \A j \in DOMAIN file : j > i => ~IsAbout(file[j], line[3])
             => line[3] \in DOMAIN users /\ users[line[3]] = line[5]
        /\ \A u \in DOMAIN users \ {""} : \E i \in DOMAIN file :
             /\ Gives(file[i], u, users[u])
             /\ \A j \in DOMAIN file :
                  j > i => ~(Documented(file[j]) /\ IsAbout(file[j], u))
  <2>1. parseFromFile(file) = read
    BY <1>4, <1>6, <1>8
  <2>2. Upheld(file, m, read.credentials) /\ Sourced(file, m, read.credentials)
    BY <1>3 DEF Follows
  <2>3. QED
    BY <1>1, <2>1, <2>2 DEF Upheld, Sourced
<1>9. QED
  BY <1>7, <1>8 DEF FollowsFormat

(***************************************************************************)
(* For any configuration file, any lines the clients send and any number   *)
(* of connections, whoever is logged in has a line in the file that no     *)
(* documented line overrides, and has given its password on the same       *)
(* connection.                                                             *)
(***************************************************************************)
THEOREM LoginsByFile == Spec => []LoginByFile
<1>1. ASSUME LoginJustified
      PROVE  LoginByFile
  <2>1. SUFFICES ASSUME NEW c \in Conn, session[c].username \notin {None, ""}
                 PROVE  \E i \in DOMAIN File : \E k \in DOMAIN log[c] :
                          /\ log[c][k].line.cmd = "pass"
                          /\ Gives(File[i], session[c].username, log[c][k].line.arg)
                          /\ \A j \in DOMAIN File :
                               j > i => ~(/\ Documented(File[j])
                                          /\ IsAbout(File[j], session[c].username))
    BY DEF LoginByFile
  <2> DEFINE u == session[c].username
             users == Credentials
  <2>2. PICK k \in DOMAIN log[c] :
          log[c][k].line.cmd = "pass" /\ checkLogin(u, log[c][k].line.arg)
    <3>1. Justifies(log[c], u)
      BY <1>1, <2>1 DEF LoginJustified
    <3>2. QED
      BY <3>1 DEF Justifies
  <2> HIDE DEF u
  <2>3. u \in DOMAIN users \ {""} /\ users[u] = log[c][k].line.arg
    BY <2>1, <2>2 DEF checkLogin, u
  <2>4. users = parseFromFile(File).credentials
    BY ReadAssumption
  <2>5. FollowsFormat(File)
    BY FileAssumption, ParserFollowsFormat
  <2> HIDE DEF users
  <2>6. Valid(File)
    <3>1. SUFFICES ASSUME ~Valid(File) PROVE FALSE
      OBVIOUS
    <3>2. parseFromFile(File) = Invalid
      BY <2>5, <3>1 DEF FollowsFormat
    <3>3. users = << >>
      BY <2>4, <3>2 DEF Invalid, Unread
    <3>4. DOMAIN << >> = {}
      OBVIOUS
    <3>5. QED
      BY <2>3, <3>3, <3>4
  <2>7. PICK i \in DOMAIN File :
          /\ Gives(File[i], u, users[u])
          /\ \A j \in DOMAIN File : j > i => ~(Documented(File[j]) /\ IsAbout(File[j], u))
    BY <2>3, <2>4, <2>5, <2>6 DEF FollowsFormat
  <2>8. QED
    BY <2>2, <2>3, <2>7 DEF u
<1>2. QED
  BY <1>1, LoginsJustified, PTL
===============================================================================
