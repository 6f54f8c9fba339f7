-------------------------- MODULE HostMatchingProofs --------------------------
(***************************************************************************)
(* Parsing a header value and spelling a host are the same, for every text *)
(* and every host.                                                         *)
(***************************************************************************)
EXTENDS HostMatching, SequenceTheorems, WellFoundedInduction, TLAPS

-----------------------------------------------------------------------------
(* First and last positions. *)

\* A set of positions that is not empty has a least and a greatest one.
LEMMA LeastPosition ==
  ASSUME NEW I \in SUBSET Nat, I # {}
  PROVE  \E m \in I : \A i \in I : m <= i
<1> DEFINE Less == {ss \in Nat \X Nat : ss[1] < ss[2]}
<1>1. IsWellFoundedOn(Less, Nat)
  BY NatLessThanWellFounded DEF OpToRel
<1>2. ASSUME NEW m \in I, NEW i \in I, <<i, m>> \notin Less PROVE m <= i
  BY <1>2
<1> HIDE DEF Less
<1>3. PICK m \in I : \A i \in I : <<i, m>> \notin Less
  BY <1>1, WFMin
<1> QED BY <1>2, <1>3

LEMMA GreatestPosition ==
  ASSUME NEW n \in Nat, NEW I \in SUBSET (1 .. n), I # {}
  PROVE  \E m \in I : \A i \in I : i <= m
<1> DEFINE J == {n - i : i \in I}
<1>1. ASSUME NEW i \in I PROVE n - i \in J /\ n - i \in Nat /\ i \in Nat
  OBVIOUS
<1>2. J \in SUBSET Nat /\ J # {}
  BY <1>1
<1>3. ASSUME NEW j \in J PROVE \E m \in I : j = n - m
  OBVIOUS
<1> HIDE DEF J
<1>4. PICK j \in J : \A k \in J : j <= k
  BY <1>2, LeastPosition
<1>5. PICK m \in I : j = n - m
  BY <1>3
<1>6. ASSUME NEW i \in I PROVE i <= m
  BY <1>1, <1>4, <1>5
<1> QED BY <1>6

\* What SelectInSeq and SelectLastInSeq pick, 0 where there is nothing to pick.
LEMMA MinPicks ==
  ASSUME NEW n \in Nat, NEW I \in SUBSET (1 .. n),
         NEW k, k = IF I # {} THEN Min(I) ELSE 0
  PROVE  \/ I = {} /\ k = 0
         \/ k \in I /\ \A i \in I : k <= i
<1>1. CASE I # {}
  <2>1. PICK m \in I : \A i \in I : m <= i
    BY <1>1, LeastPosition
  <2>2. k = CHOOSE x \in I : \A y \in I : x <= y
    BY <1>1 DEF Min
  <2> QED BY <2>1, <2>2
<1> QED BY <1>1

LEMMA MaxPicks ==
  ASSUME NEW n \in Nat, NEW I \in SUBSET (1 .. n),
         NEW k, k = IF I # {} THEN Max(I) ELSE 0
  PROVE  \/ I = {} /\ k = 0
         \/ k \in I /\ \A i \in I : i <= k
<1>1. CASE I # {}
  <2>1. PICK m \in I : \A i \in I : m >= i
    BY <1>1, GreatestPosition
  <2>2. k = CHOOSE x \in I : \A y \in I : x >= y
    BY <1>1 DEF Max
  <2>3. k \in I /\ \A i \in I : k >= i
    BY <2>1, <2>2
  <2> QED BY <2>3
<1> QED BY <1>1

-----------------------------------------------------------------------------
(* The helpers, by the positions they cut at. *)

\* Before ends just ahead of the first character of cs.
LEMMA BeforeEnds ==
  ASSUME NEW Char, NEW v \in Seq(Char), NEW cs
  PROVE  \E n \in 0 .. Len(v) :
           /\ \A i \in 1 .. n : v[i] \notin cs
           /\ n = Len(v) \/ v[n + 1] \in cs
           /\ Before(v, cs) = SubSeq(v, 1, n)
           /\ After(v, cs) = IF n = Len(v) THEN <<>> ELSE SubSeq(v, n + 2, Len(v))
<1> DEFINE I == {i \in 1 .. Len(v) : v[i] \in cs}
           k == SelectInSeq(v, LAMBDA c : c \in cs)
<1>1. k = IF I # {} THEN Min(I) ELSE 0
  BY DEF SelectInSeq
<1>2. /\ Before(v, cs) = IF k = 0 THEN v ELSE SubSeq(v, 1, k - 1)
      /\ After(v, cs) = IF k = 0 THEN <<>> ELSE SubSeq(v, k + 1, Len(v))
  BY DEF Before, After
<1>3. Len(v) \in Nat /\ I \in SUBSET (1 .. Len(v)) /\ \A i \in 1 .. Len(v) : i \in I <=> v[i] \in cs
  OBVIOUS
<1> HIDE DEF k, I
<1>4. \/ I = {} /\ k = 0
      \/ k \in I /\ \A i \in I : k <= i
  BY <1>1, <1>3, MinPicks
<1>5. CASE I = {} /\ k = 0
  <2>1. v = SubSeq(v, 1, Len(v)) /\ Len(v) \in 0 .. Len(v)
    OBVIOUS
  <2> QED BY <1>2, <1>3, <1>5, <2>1
<1>6. CASE k \in I /\ \A i \in I : k <= i
  <2>1. k \in 1 .. Len(v) /\ v[k] \in cs
    BY <1>3, <1>6
  <2>2. \A i \in 1 .. (k - 1) : v[i] \notin cs
    BY <1>3, <1>6, <2>1
  <2>3. k - 1 \in 0 .. Len(v) /\ k - 1 # Len(v) /\ k # 0 /\ (k - 1) + 1 = k /\ (k - 1) + 2 = k + 1
    BY <2>1
  <2> QED BY <1>2, <2>1, <2>2, <2>3
<1> QED BY <1>4, <1>5, <1>6

\* RStrip ends with the last character that is not of cs.
LEMMA RStripEnds ==
  ASSUME NEW Char, NEW v \in Seq(Char), NEW cs
  PROVE  \E n \in 0 .. Len(v) :
           /\ n = 0 \/ v[n] \notin cs
           /\ \A i \in (n + 1) .. Len(v) : v[i] \in cs
           /\ RStrip(v, cs) = SubSeq(v, 1, n)
<1> DEFINE I == {i \in 1 .. Len(v) : v[i] \notin cs}
           k == SelectLastInSeq(v, LAMBDA c : c \notin cs)
<1>1. k = IF I # {} THEN Max(I) ELSE 0
  BY DEF SelectLastInSeq
<1>2. RStrip(v, cs) = SubSeq(v, 1, k)
  BY DEF RStrip
<1>3. Len(v) \in Nat /\ I \in SUBSET (1 .. Len(v)) /\ \A i \in 1 .. Len(v) : i \in I <=> v[i] \notin cs
  OBVIOUS
<1> HIDE DEF k, I
<1>4. \/ I = {} /\ k = 0
      \/ k \in I /\ \A i \in I : i <= k
  BY <1>1, <1>3, MaxPicks
<1>5. k \in 0 .. Len(v)
  <2>1. 0 \in 0 .. Len(v) /\ \A i \in I : i \in 0 .. Len(v)
    BY <1>3
  <2> QED BY <1>4, <2>1
<1>6. \A i \in (k + 1) .. Len(v) : v[i] \in cs
  BY <1>3, <1>4, <1>5
<1>7. k = 0 \/ v[k] \notin cs
  BY <1>3, <1>4
<1> QED BY <1>2, <1>5, <1>6, <1>7

\* The user of an authority ends with its last "@".
LEMMA UserEnds ==
  ASSUME NEW Char, NEW v \in Seq(Char)
  PROVE  LET at == SelectLastInSeq(v, LAMBDA c : c = "@") IN
         /\ at \in 0 .. Len(v)
         /\ at = 0 \/ v[at] = "@"
         /\ \A i \in (at + 1) .. Len(v) : v[i] # "@"
<1> DEFINE I == {i \in 1 .. Len(v) : v[i] = "@"}
           k == SelectLastInSeq(v, LAMBDA c : c = "@")
<1>1. k = IF I # {} THEN Max(I) ELSE 0
  BY DEF SelectLastInSeq
<1>2. Len(v) \in Nat /\ I \in SUBSET (1 .. Len(v)) /\ \A i \in 1 .. Len(v) : i \in I <=> v[i] = "@"
  OBVIOUS
<1> HIDE DEF k, I
<1>3. \/ I = {} /\ k = 0
      \/ k \in I /\ \A i \in I : i <= k
  BY <1>1, <1>2, MaxPicks
<1>4. k \in 0 .. Len(v)
  <2>1. 0 \in 0 .. Len(v) /\ \A i \in I : i \in 0 .. Len(v)
    BY <1>2
  <2> QED BY <1>3, <2>1
<1>5. \A i \in (k + 1) .. Len(v) : v[i] # "@"
  BY <1>2, <1>3, <1>4
<1>6. k = 0 \/ v[k] = "@"
  BY <1>2, <1>3
<1> QED BY <1>4, <1>5, <1>6 DEF k

\* Lowercasing keeps the length and every character that is no letter.
Marks == Delimiters \cup {".", ":", "@"}

LEMMA MarksNoLetters == \A m \in Marks : m \notin Letters
<1>1. DOMAIN LowerCase = {"A", "B", "C", "D", "E", "F", "G", "H", "I", "J", "K", "L", "M",
                          "N", "O", "P", "Q", "R", "S", "T", "U", "V", "W", "X", "Y", "Z"}
  BY DEF LowerCase
<1>2. \A c \in DOMAIN LowerCase : LowerCase[c] \notin Marks
  BY DEF LowerCase, Marks, Delimiters
<1>3. \A m \in Marks : m \notin DOMAIN LowerCase
  BY <1>1 DEF Marks, Delimiters
<1> QED BY <1>2, <1>3 DEF Letters, SmallLetters

LEMMA LowerKeeps ==
  ASSUME NEW Char, NEW v \in Seq(Char)
  PROVE  /\ Lower(v) \in Seq(Char \cup SmallLetters)
         /\ Len(Lower(v)) = Len(v)
         /\ \A i \in 1 .. Len(v), m \in Marks : Lower(v)[i] = m <=> v[i] = m
<1>1. DOMAIN v = 1 .. Len(v) /\ \A i \in 1 .. Len(v) : v[i] \in Char
  OBVIOUS
<1>2. \A x \in DOMAIN LowerCase : LowerCase[x] \in SmallLetters
  BY DEF SmallLetters
<1>3. \A m \in Marks : m \notin Letters
  BY MarksNoLetters
<1> DEFINE l(i) == IF v[i] \in DOMAIN LowerCase THEN LowerCase[v[i]] ELSE v[i]
<1>4. Lower(v) = [i \in 1 .. Len(v) |-> l(i)]
  BY <1>1 DEF Lower
<1>5. \A i \in 1 .. Len(v) : l(i) \in Char \cup SmallLetters
  BY <1>1, <1>2
<1>6. ASSUME NEW i \in 1 .. Len(v), NEW m \in Marks PROVE l(i) = m <=> v[i] = m
  <2>1. m \notin DOMAIN LowerCase /\ m \notin SmallLetters
    BY <1>3 DEF Letters
  <2> QED BY <1>2, <2>1
<1> HIDE DEF l
<1> QED BY <1>4, <1>5, <1>6

\* Stripping a sequence of characters leaves one.
LEMMA StripTyped == ASSUME NEW Char, NEW v \in Seq(Char) PROVE Strip(v) \in Seq(Char)
<1>1. ASSUME NEW w \in Seq(Char) PROVE RStrip(w, Whitespace) \in Seq(Char)
  <2>1. PICK n \in 0 .. Len(w) : RStrip(w, Whitespace) = SubSeq(w, 1, n)
    BY RStripEnds
  <2>2. SubSeq(w, 1, n) \in Seq(Char)
    OBVIOUS
  <2> QED BY <2>1, <2>2
<1>2. ASSUME NEW w \in Seq(Char) PROVE Reverse(w) \in Seq(Char)
  BY DEF Reverse
<1> QED BY <1>1, <1>2 DEF Strip

-----------------------------------------------------------------------------
(* The authority. *)

\* What Hostname returns for "//" and then a.
HostPart(a) ==
  LET netloc == Before(a, Delimiters)
      at == SelectLastInSeq(netloc, LAMBDA c : c = "@")
  IN  Lower(Before(SubSeq(netloc, at + 1, Len(netloc)), {":"}))

\* In a the authority ends at d, the user at at, the host with its dots at p and without
\* them at q.
Cut(a, d, at, p, q) ==
  /\ d \in 0 .. Len(a) /\ at \in 0 .. d /\ p \in at .. d /\ q \in at .. p
  /\ \A i \in 1 .. d : a[i] \notin Delimiters
  /\ d = Len(a) \/ a[d + 1] \in Delimiters
  /\ at = 0 \/ a[at] = "@"
  /\ \A i \in (at + 1) .. d : a[i] # "@"
  /\ \A i \in (at + 1) .. p : a[i] # ":"
  /\ p = d \/ a[p + 1] = ":"
  /\ \A i \in (q + 1) .. p : a[i] = "."
  /\ q = at \/ a[q] # "."

\* A part of a part.
LEMMA LowerOfPart ==
  ASSUME NEW Char, NEW v \in Seq(Char), NEW n \in 0 .. Len(v)
  PROVE  SubSeq(Lower(v), 1, n) = Lower(SubSeq(v, 1, n))
<1>1. DOMAIN v = 1 .. Len(v) /\ DOMAIN SubSeq(v, 1, n) = 1 .. n
      /\ \A i \in 1 .. n : SubSeq(v, 1, n)[i] = v[i]
  OBVIOUS
<1> DEFINE l(c) == IF c \in DOMAIN LowerCase THEN LowerCase[c] ELSE c
<1>2. Lower(v) = [i \in 1 .. Len(v) |-> l(v[i])]
  BY <1>1 DEF Lower
<1>3. Lower(SubSeq(v, 1, n)) = [i \in 1 .. n |-> l(v[i])]
  BY <1>1 DEF Lower
<1> HIDE DEF l
<1> QED BY <1>2, <1>3

LEMMA AuthorityParsed ==
  ASSUME NEW Char, NEW a \in Seq(Char)
  PROVE  \E d, at, p, q :
           /\ Cut(a, d, at, p, q)
           /\ HostPart(a) = Lower(SubSeq(a, at + 1, p))
           /\ RStrip(HostPart(a), {"."}) = Lower(SubSeq(a, at + 1, q))
<1>1. PICK d \in 0 .. Len(a) :
        /\ \A i \in 1 .. d : a[i] \notin Delimiters
        /\ d = Len(a) \/ a[d + 1] \in Delimiters
        /\ Before(a, Delimiters) = SubSeq(a, 1, d)
  BY BeforeEnds
<1> DEFINE n == SubSeq(a, 1, d)
           at == SelectLastInSeq(n, LAMBDA c : c = "@")
           w == SubSeq(n, at + 1, Len(n))
<1>2. n \in Seq(Char) /\ Len(n) = d /\ \A i \in 1 .. d : n[i] = a[i]
  OBVIOUS
<1>3. at \in 0 .. d /\ (at = 0 \/ n[at] = "@") /\ \A i \in (at + 1) .. d : n[i] # "@"
  <2> HIDE DEF n
  <2> QED BY <1>2, UserEnds
<1>4. HostPart(a) = Lower(Before(w, {":"}))
  BY <1>1 DEF HostPart
<1> HIDE DEF at
<1>5. w \in Seq(Char) /\ Len(w) = d - at /\ (\A i \in 1 .. (d - at) : w[i] = a[at + i])
      /\ w = SubSeq(a, at + 1, d)
  BY <1>2, <1>3
<1> HIDE DEF n, w
<1>6. PICK x \in 0 .. Len(w) :
        /\ \A i \in 1 .. x : w[i] # ":"
        /\ x = Len(w) \/ w[x + 1] = ":"
        /\ Before(w, {":"}) = SubSeq(w, 1, x)
  <2>1. PICK x \in 0 .. Len(w) :
          /\ \A i \in 1 .. x : w[i] \notin {":"}
          /\ x = Len(w) \/ w[x + 1] \in {":"}
          /\ Before(w, {":"}) = SubSeq(w, 1, x)
    BY <1>5, BeforeEnds
  <2> QED BY <2>1
<1> DEFINE p == at + x
           host == SubSeq(a, at + 1, p)
           More == Char \cup SmallLetters
<1>7. p \in at .. d /\ SubSeq(w, 1, x) = host
  BY <1>3, <1>5, <1>6
<1>8. /\ host \in Seq(Char) /\ Len(host) = x
      /\ \A i \in 1 .. x : host[i] = a[at + i]
  BY <1>3, <1>5, <1>6
<1> HIDE DEF host, More
<1>9. /\ Lower(host) \in Seq(More) /\ Len(Lower(host)) = x
      /\ \A i \in 1 .. x : Lower(host)[i] = "." <=> host[i] = "."
  <2>1. "." \in Marks
    BY DEF Marks
  <2> QED BY <1>8, <2>1, LowerKeeps DEF More
<1>10. PICK y \in 0 .. x :
        /\ y = 0 \/ Lower(host)[y] # "."
        /\ \A i \in (y + 1) .. x : Lower(host)[i] = "."
        /\ RStrip(Lower(host), {"."}) = SubSeq(Lower(host), 1, y)
  <2>1. PICK y \in 0 .. Len(Lower(host)) :
          /\ y = 0 \/ Lower(host)[y] \notin {"."}
          /\ \A i \in (y + 1) .. Len(Lower(host)) : Lower(host)[i] \in {"."}
          /\ RStrip(Lower(host), {"."}) = SubSeq(Lower(host), 1, y)
    BY <1>9, RStripEnds
  <2> QED BY <1>9, <2>1
<1> DEFINE q == at + y
<1>11. SubSeq(Lower(host), 1, y) = Lower(SubSeq(a, at + 1, q))
  <2>1. SubSeq(Lower(host), 1, y) = Lower(SubSeq(host, 1, y))
    BY <1>8, <1>10, LowerOfPart
  <2>2. SubSeq(host, 1, y) = SubSeq(a, at + 1, q)
    BY <1>3, <1>6, <1>7, <1>10 DEF host
  <2> QED BY <2>1, <2>2
<1>12. Cut(a, d, at, p, q)
  <2>1. q \in at .. p
    BY <1>3, <1>6, <1>10
  <2>2. \A i \in (at + 1) .. p : i - at \in 1 .. x /\ at + (i - at) = i
    BY <1>3, <1>6
  <2>3. ASSUME NEW i \in (at + 1) .. p PROVE a[i] # ":"
    <3>1. i - at \in 1 .. (d - at) /\ i - at \in 1 .. x /\ at + (i - at) = i
      BY <1>3, <1>6, <1>5, <2>2
    <3> QED BY <1>5, <1>6, <3>1
  <2>4. p = d \/ a[p + 1] = ":"
    BY <1>3, <1>5, <1>6
  <2>5. ASSUME NEW i \in (q + 1) .. p PROVE a[i] = "."
    <3>1. i - at \in (y + 1) .. x /\ i - at \in 1 .. x /\ at + (i - at) = i
      BY <1>3, <1>6, <1>10, <2>1
    <3> QED BY <1>8, <1>9, <1>10, <3>1
  <2>6. q = at \/ a[q] # "."
    BY <1>3, <1>8, <1>9, <1>10
  <2> QED BY <1>1, <1>2, <1>3, <1>7, <2>1, <2>3, <2>4, <2>5, <2>6 DEF Cut
<1>13. HostPart(a) = Lower(host) /\ RStrip(HostPart(a), {"."}) = Lower(SubSeq(a, at + 1, q))
  BY <1>4, <1>6, <1>7, <1>10, <1>11
<1> QED BY <1>12, <1>13 DEF host

LEMMA BeforeIs ==
  ASSUME NEW Char, NEW v \in Seq(Char), NEW cs, NEW n \in 0 .. Len(v),
         \A i \in 1 .. n : v[i] \notin cs, n = Len(v) \/ v[n + 1] \in cs
  PROVE  Before(v, cs) = SubSeq(v, 1, n)
<1>1. PICK m \in 0 .. Len(v) :
        /\ \A i \in 1 .. m : v[i] \notin cs
        /\ m = Len(v) \/ v[m + 1] \in cs
        /\ Before(v, cs) = SubSeq(v, 1, m)
  BY BeforeEnds
<1>2. ~(m < n)
  <2> SUFFICES ASSUME m < n PROVE FALSE
    OBVIOUS
  <2>1. m + 1 \in 1 .. n /\ m # Len(v)
    OBVIOUS
  <2> QED BY <1>1, <2>1
<1>3. ~(n < m)
  <2> SUFFICES ASSUME n < m PROVE FALSE
    OBVIOUS
  <2>1. n + 1 \in 1 .. m /\ n # Len(v)
    OBVIOUS
  <2> QED BY <1>1, <2>1
<1> QED BY <1>1, <1>2, <1>3

\* What ends or begins a host.
Stops == {":", "@"} \cup Delimiters

\* A host read off a, by the characters of a it stands for.
LEMMA HostText ==
  ASSUME NEW Char, NEW a \in Seq(Char), NEW m \in 0 .. Len(a), NEW n \in m .. Len(a),
         NEW h, h = Lower(SubSeq(a, m + 1, n))
  PROVE  /\ h = <<>> <=> m = n
         /\ m < n => (h[Len(h)] # "." <=> a[n] # ".")
         /\ None(h, Stops) <=> \A i \in (m + 1) .. n : a[i] \notin Stops
<1> DEFINE w == SubSeq(a, m + 1, n)
           More == Char \cup SmallLetters
<1>1. w \in Seq(Char) /\ Len(w) = n - m /\ (\A i \in 1 .. (n - m) : w[i] = a[m + i])
      /\ h = Lower(w)
  OBVIOUS
<1>2. Stops \subseteq Marks /\ "." \in Marks
  BY DEF Stops, Marks
<1> HIDE DEF w, More
<1>3. /\ h \in Seq(More) /\ Len(h) = n - m
      /\ \A i \in 1 .. (n - m), c \in Marks : h[i] = c <=> w[i] = c
  <2>1. /\ Lower(w) \in Seq(Char \cup SmallLetters)
        /\ Len(Lower(w)) = Len(w)
        /\ \A i \in 1 .. Len(w), c \in Marks : Lower(w)[i] = c <=> w[i] = c
    BY <1>1, LowerKeeps
  <2> QED BY <1>1, <2>1 DEF More
<1>4. h = <<>> <=> m = n
  BY <1>3
<1>5. ASSUME m < n PROVE h[Len(h)] # "." <=> a[n] # "."
  <2>1. n - m \in 1 .. (n - m) /\ m + (n - m) = n
    BY <1>5
  <2> QED BY <1>1, <1>2, <1>3, <2>1
<1>6. \A i \in 1 .. (n - m) : h[i] \in Stops <=> a[m + i] \in Stops
  BY <1>1, <1>2, <1>3
<1>7. None(h, Stops) <=> \A i \in 1 .. (n - m) : a[m + i] \notin Stops
  <2>1. DOMAIN h = 1 .. (n - m)
    BY <1>3
  <2> QED BY <1>6, <2>1 DEF None
<1>8. (\A i \in 1 .. (n - m) : a[m + i] \notin Stops)
        <=> \A i \in (m + 1) .. n : a[i] \notin Stops
  <2>1. \A i \in (m + 1) .. n : i - m \in 1 .. (n - m) /\ m + (i - m) = i
    OBVIOUS
  <2>2. \A i \in 1 .. (n - m) : m + i \in (m + 1) .. n
    OBVIOUS
  <2> QED BY <2>1, <2>2
<1> QED BY <1>4, <1>5, <1>7, <1>8

\* A value spells as an authority the host between its user and its dots, and no other.
LEMMA CutSpells ==
  ASSUME NEW Char, NEW a \in Seq(Char), NEW d, NEW at, NEW p, NEW q, Cut(a, d, at, p, q),
         NEW h, h # <<>>, h = Lower(SubSeq(a, at + 1, q))
  PROVE  Holds(a, h)
<1> DEFINE from == at + 1
           user == SubSeq(a, 1, from - 1)
           rest == SubSeq(a, q + 1, Len(a))
           tail == Before(rest, Delimiters)
<1>1. /\ d \in 0 .. Len(a) /\ at \in 0 .. d /\ p \in at .. d /\ q \in at .. p
      /\ q \in at .. Len(a) /\ at \in 0 .. Len(a)
  BY DEF Cut
<1>2. /\ at < q
      /\ h[Len(h)] # "." <=> a[q] # "."
      /\ None(h, Stops) <=> \A i \in (at + 1) .. q : a[i] \notin Stops
  <2>1. /\ h = <<>> <=> at = q
        /\ at < q => (h[Len(h)] # "." <=> a[q] # ".")
        /\ None(h, Stops) <=> \A i \in (at + 1) .. q : a[i] \notin Stops
    BY <1>1, HostText
  <2>2. at < q
    BY <1>1, <2>1
  <2> QED BY <2>1, <2>2
<1>3. None(h, {":", "@"} \cup Delimiters) /\ h[Len(h)] # "."
  <2>1. \A i \in (at + 1) .. q : a[i] \notin Stops
    BY <1>1 DEF Cut, Stops
  <2>2. a[q] # "."
    BY <1>1, <1>2 DEF Cut
  <2> QED BY <1>2, <2>1, <2>2 DEF Stops
<1>4. user # <<>> => user[Len(user)] = "@" /\ None(user, Delimiters)
  <2>1. user \in Seq(Char) /\ Len(user) = at /\ \A i \in 1 .. at : user[i] = a[i]
    BY <1>1
  <2> HIDE DEF user
  <2> QED BY <1>1, <2>1 DEF Cut, None
<1>5. rest \in Seq(Char) /\ Len(rest) = Len(a) - q
      /\ \A i \in 1 .. (Len(a) - q) : rest[i] = a[q + i]
  BY <1>1
<1>6. tail = SubSeq(a, q + 1, d)
  <2>1. SubSeq(rest, 1, d - q) = SubSeq(a, q + 1, d)
    BY <1>1
  <2> HIDE DEF rest
  <2>2. d - q \in 0 .. Len(rest)
    BY <1>1, <1>5
  <2>3. ASSUME NEW i \in 1 .. (d - q) PROVE rest[i] \notin Delimiters
    <3>1. q + i \in 1 .. d /\ i \in 1 .. (Len(a) - q)
      BY <1>1
    <3> QED BY <1>5, <3>1 DEF Cut
  <2>4. d - q = Len(rest) \/ rest[(d - q) + 1] \in Delimiters
    <3>1. CASE d = Len(a)
      BY <1>1, <1>5, <3>1
    <3>2. CASE d # Len(a)
      <4>1. (d - q) + 1 \in 1 .. (Len(a) - q) /\ q + ((d - q) + 1) = d + 1
        BY <1>1, <3>2
      <4> QED BY <1>5, <3>2, <4>1 DEF Cut
    <3> QED BY <3>1, <3>2
  <2>5. Before(rest, Delimiters) = SubSeq(rest, 1, d - q)
    BY <1>5, <2>2, <2>3, <2>4, BeforeIs
  <2> QED BY <2>1, <2>5
<1> HIDE DEF tail, rest
<1>7. tail \in Seq(Char) /\ Len(tail) = d - q /\ \A i \in 1 .. (d - q) : tail[i] = a[q + i]
  BY <1>1, <1>6
<1>8. None(tail, {"@"})
  <2>1. \A i \in 1 .. (d - q) : q + i \in (at + 1) .. d
    BY <1>1
  <2>2. DOMAIN tail = 1 .. (d - q)
    BY <1>7
  <2> QED BY <1>7, <2>1, <2>2 DEF Cut, None
<1>9. Only(Before(tail, {":"}), {"."})
  <2>1. p - q \in 0 .. Len(tail)
    BY <1>1, <1>7
  <2>2. ASSUME NEW i \in 1 .. (p - q) PROVE tail[i] = "."
    <3>1. q + i \in (q + 1) .. p /\ i \in 1 .. (d - q)
      BY <1>1
    <3> QED BY <1>7, <3>1 DEF Cut
  <2>3. p - q = Len(tail) \/ tail[(p - q) + 1] \in {":"}
    <3>1. CASE p = d
      BY <1>1, <1>7, <3>1
    <3>2. CASE p # d
      <4>1. (p - q) + 1 \in 1 .. (d - q) /\ q + ((p - q) + 1) = p + 1
        BY <1>1, <3>2
      <4> QED BY <1>7, <3>2, <4>1 DEF Cut
    <3> QED BY <3>1, <3>2
  <2>4. \A i \in 1 .. (p - q) : tail[i] \notin {":"}
    BY <2>2
  <2>5. Before(tail, {":"}) = SubSeq(tail, 1, p - q)
    BY <1>7, <2>1, <2>3, <2>4, BeforeIs
  <2>6. \A i \in 1 .. (p - q) : SubSeq(tail, 1, p - q)[i] = tail[i]
    BY <1>7, <2>1
  <2>7. DOMAIN SubSeq(tail, 1, p - q) = 1 .. (p - q)
    BY <1>7, <2>1
  <2> QED BY <2>2, <2>5, <2>6, <2>7 DEF Only
<1>10. from \in 1 .. Len(a) /\ q \in 1 .. Len(a) /\ Lower(SubSeq(a, from, q)) = h
  BY <1>1, <1>2
<1> HIDE DEF from, user
<1> QED BY <1>3, <1>4, <1>8, <1>9, <1>10 DEF Holds, tail, rest, user

LEMMA SpellsCut ==
  ASSUME NEW Char, NEW a \in Seq(Char), NEW d, NEW at, NEW p, NEW q, Cut(a, d, at, p, q),
         NEW h, Holds(a, h)
  PROVE  h # <<>> /\ h = Lower(SubSeq(a, at + 1, q))
<1> DEFINE user(from) == SubSeq(a, 1, from - 1)
           rest(to) == SubSeq(a, to + 1, Len(a))
           tail(to) == Before(rest(to), Delimiters)
<1>1. PICK from \in 1 .. Len(a), to \in 1 .. Len(a) :
        /\ h # <<>> /\ h[Len(h)] # "." /\ Lower(SubSeq(a, from, to)) = h
        /\ None(h, Stops)
        /\ user(from) # <<>> =>
             user(from)[Len(user(from))] = "@" /\ None(user(from), Delimiters)
        /\ None(tail(to), {"@"}) /\ Only(Before(tail(to), {":"}), {"."})
  BY DEF Holds, Stops
<1> HIDE DEF user, rest, tail
<1>2. /\ d \in 0 .. Len(a) /\ at \in 0 .. d /\ p \in at .. d /\ q \in at .. p
      /\ Len(a) \in Nat
  BY DEF Cut
<1> DEFINE m == from - 1
<1>3. from <= to
  <2> SUFFICES ASSUME to < from PROVE FALSE
    BY <1>1
  <2>1. SubSeq(a, from, to) = <<>>
    OBVIOUS
  <2>2. Len(Lower(<<>>)) = 0 /\ Lower(<<>>) \in Seq(Char \cup SmallLetters)
    <3>1. <<>> \in Seq(Char) /\ Len(<<>>) = 0
      OBVIOUS
    <3> QED BY <3>1, LowerKeeps
  <2> QED BY <1>1, <2>1, <2>2
<1>4. m \in 0 .. Len(a) /\ to \in m .. Len(a) /\ m < to /\ m + 1 = from
  BY <1>3
<1> HIDE DEF m
<1>5. h = Lower(SubSeq(a, m + 1, to))
  BY <1>1, <1>4
<1>6. a[to] # "." /\ \A i \in from .. to : a[i] \notin Stops
  <2>1. /\ m < to => (h[Len(h)] # "." <=> a[to] # ".")
        /\ None(h, Stops) <=> \A i \in (m + 1) .. to : a[i] \notin Stops
    BY <1>4, <1>5, HostText
  <2> QED BY <1>1, <1>4, <2>1
<1>7. m # 0 => a[m] = "@" /\ \A i \in 1 .. m : a[i] \notin Delimiters
  <2> SUFFICES ASSUME m # 0 PROVE a[m] = "@" /\ \A i \in 1 .. m : a[i] \notin Delimiters
    OBVIOUS
  <2>1. user(from) \in Seq(Char) /\ Len(user(from)) = m
        /\ \A i \in 1 .. m : user(from)[i] = a[i]
    BY <1>4 DEF user
  <2>2. user(from) # <<>> /\ m \in 1 .. m /\ DOMAIN user(from) = 1 .. m
    BY <1>4, <2>1
  <2> QED BY <1>1, <2>1, <2>2 DEF None
<1>8. rest(to) \in Seq(Char) /\ Len(rest(to)) = Len(a) - to
      /\ \A i \in 1 .. (Len(a) - to) : rest(to)[i] = a[to + i]
  BY DEF rest
<1>9. PICK x \in 0 .. Len(rest(to)) :
        /\ \A i \in 1 .. x : rest(to)[i] \notin Delimiters
        /\ x = Len(rest(to)) \/ rest(to)[x + 1] \in Delimiters
        /\ tail(to) = SubSeq(rest(to), 1, x)
  BY <1>8, BeforeEnds DEF tail
<1>10. \A i \in 1 .. (to + x) : a[i] \notin Delimiters
  <2> TAKE i \in 1 .. (to + x)
  <2>1. CASE i <= m
    BY <1>4, <1>7, <2>1
  <2>2. CASE m < i /\ i <= to
    BY <1>4, <1>6, <2>2 DEF Stops
  <2>3. CASE to < i
    <3>1. i - to \in 1 .. x /\ i - to \in 1 .. (Len(a) - to) /\ to + (i - to) = i
      BY <1>2, <1>8, <1>9, <2>3
    <3> QED BY <1>8, <1>9, <3>1
  <2> QED BY <1>4, <2>1, <2>2, <2>3
<1>11. to + x = Len(a) \/ a[(to + x) + 1] \in Delimiters
  <2>1. CASE x = Len(rest(to))
    BY <1>2, <1>8, <2>1
  <2>2. CASE x # Len(rest(to))
    <3>1. x \in 0 .. (Len(a) - to) /\ x # Len(a) - to
      BY <1>8, <2>2
    <3>2. x + 1 \in 1 .. (Len(a) - to) /\ to + (x + 1) = (to + x) + 1
      BY <1>2, <3>1
    <3> QED BY <1>8, <1>9, <2>2, <3>2
  <2> QED BY <2>1, <2>2
<1>12. d = to + x
  <2>1. to + x \in 0 .. Len(a)
    BY <1>2, <1>8, <1>9
  <2>2. ASSUME d < to + x PROVE FALSE
    <3>1. d + 1 \in 1 .. (to + x) /\ d # Len(a)
      BY <1>2, <2>1, <2>2
    <3> QED BY <1>10, <3>1 DEF Cut
  <2>3. ASSUME to + x < d PROVE FALSE
    <3>1. (to + x) + 1 \in 1 .. d /\ to + x # Len(a)
      BY <1>2, <2>1, <2>3
    <3> QED BY <1>11, <3>1 DEF Cut
  <2> QED BY <1>2, <2>1, <2>2, <2>3
<1>13. tail(to) \in Seq(Char) /\ Len(tail(to)) = d - to
       /\ \A i \in 1 .. (d - to) : tail(to)[i] = a[to + i]
  BY <1>8, <1>9, <1>12
<1>14. at = m
  <2>1. ASSUME NEW i \in (m + 1) .. d PROVE a[i] # "@"
    <3>1. CASE i <= to
      BY <1>4, <1>6, <3>1 DEF Stops
    <3>2. CASE to < i
      <4>1. i - to \in 1 .. (d - to) /\ to + (i - to) = i
        BY <1>2, <3>2
      <4>2. DOMAIN tail(to) = 1 .. (d - to)
        BY <1>13
      <4> QED BY <1>1, <1>13, <4>1, <4>2 DEF None
    <3> QED BY <1>4, <3>1, <3>2
  <2>2. ASSUME at < m PROVE FALSE
    <3>1. m \in (at + 1) .. d /\ m # 0
      BY <1>2, <1>4, <1>9, <1>12, <2>2
    <3> QED BY <1>7, <3>1 DEF Cut
  <2>3. ASSUME m < at PROVE FALSE
    <3>1. at \in (m + 1) .. d /\ at # 0
      BY <1>2, <1>4, <2>3
    <3> QED BY <2>1, <3>1 DEF Cut
  <2> QED BY <1>2, <1>4, <2>2, <2>3
<1>15. PICK y \in 0 .. (d - to) :
         /\ \A i \in 1 .. y : tail(to)[i] # ":" /\ tail(to)[i] = "."
         /\ y = d - to \/ tail(to)[y + 1] = ":"
  <2>1. PICK y \in 0 .. Len(tail(to)) :
          /\ \A i \in 1 .. y : tail(to)[i] \notin {":"}
          /\ y = Len(tail(to)) \/ tail(to)[y + 1] \in {":"}
          /\ Before(tail(to), {":"}) = SubSeq(tail(to), 1, y)
    BY <1>13, BeforeEnds
  <2>2. /\ DOMAIN SubSeq(tail(to), 1, y) = 1 .. y
        /\ \A i \in 1 .. y : SubSeq(tail(to), 1, y)[i] = tail(to)[i]
    BY <1>13
  <2>3. \A i \in 1 .. y : tail(to)[i] = "."
    BY <1>1, <2>1, <2>2 DEF Only
  <2> QED BY <1>13, <2>1, <2>3
<1>16. \A i \in (to + 1) .. (to + y) : a[i] = "."
  <2> TAKE i \in (to + 1) .. (to + y)
  <2>1. i - to \in 1 .. y /\ i - to \in 1 .. (d - to) /\ to + (i - to) = i
    BY <1>2, <1>15
  <2> QED BY <1>13, <1>15, <2>1
<1>17. p = to + y
  <2>1. to + y \in 0 .. d
    BY <1>2, <1>9, <1>12, <1>15
  <2>2. ASSUME p < to + y PROVE FALSE
    <3>1. p + 1 \in from .. (to + y) /\ p # d
      BY <1>2, <1>4, <1>14, <2>1, <2>2
    <3>2. a[p + 1] # ":"
      <4>1. CASE p + 1 <= to
        BY <1>6, <3>1, <4>1 DEF Stops
      <4>2. CASE to < p + 1
        <5>1. p + 1 \in (to + 1) .. (to + y)
          BY <1>2, <3>1, <4>2
        <5> QED BY <1>16, <5>1
      <4> QED BY <1>2, <4>1, <4>2
    <3> QED BY <3>1, <3>2 DEF Cut
  <2>3. ASSUME to + y < p PROVE FALSE
    <3>1. /\ y + 1 \in 1 .. (d - to) /\ to + (y + 1) = (to + y) + 1
          /\ (to + y) + 1 \in (at + 1) .. p /\ y # d - to
      BY <1>2, <1>4, <1>14, <1>15, <2>3
    <3>2. a[(to + y) + 1] = ":"
      BY <1>13, <1>15, <3>1
    <3> QED BY <3>1, <3>2 DEF Cut
  <2> QED BY <1>2, <2>1, <2>2, <2>3
<1>18. q = to
  <2>1. ASSUME q < to PROVE FALSE
    <3>1. to \in (q + 1) .. p
      BY <1>2, <1>15, <1>17, <2>1
    <3> QED BY <1>6, <3>1 DEF Cut
  <2>2. ASSUME to < q PROVE FALSE
    <3>1. q \in (to + 1) .. (to + y) /\ q # at
      BY <1>2, <1>4, <1>14, <1>17, <2>2
    <3> QED BY <1>16, <3>1 DEF Cut
  <2> QED BY <1>2, <2>1, <2>2
<1> QED BY <1>1, <1>5, <1>14, <1>18

\* The host that is parsed and the one the authority holds are the same.
LEMMA AuthoritySpelt ==
  ASSUME NEW Char, NEW a \in Seq(Char), NEW h, h # <<>>
  PROVE  Holds(a, h) <=> RStrip(HostPart(a), {"."}) = h
<1>1. PICK d, at, p, q :
        Cut(a, d, at, p, q) /\ RStrip(HostPart(a), {"."}) = Lower(SubSeq(a, at + 1, q))
  BY AuthorityParsed
<1>2. ASSUME Holds(a, h) PROVE h = Lower(SubSeq(a, at + 1, q))
  BY <1>1, <1>2, SpellsCut
<1>3. ASSUME h = Lower(SubSeq(a, at + 1, q)) PROVE Holds(a, h)
  BY <1>1, <1>3, CutSpells
<1> QED BY <1>1, <1>2, <1>3

\* What Raises asks for, and how the reference says it.
LEMMA BracketIn ==
  ASSUME NEW Char, NEW a \in Seq(Char)
  PROVE  Contains(Before(a, Delimiters), "[") <=> ~None(Before(a, Delimiters), {"["})
<1>1. PICK n \in 0 .. Len(a) : Before(a, Delimiters) = SubSeq(a, 1, n)
  BY BeforeEnds
<1> DEFINE w == Before(a, Delimiters)
<1>2. w \in Seq(Char)
  BY <1>1
<1> HIDE DEF w
<1>3. DOMAIN w = 1 .. Len(w)
  BY <1>2
<1>4. Contains(w, "[") <=> ~None(w, {"["})
  BY <1>3 DEF Contains, None
<1> QED BY <1>4 DEF w

-----------------------------------------------------------------------------
(* Origins and authorities as urlsplit takes them apart. *)

\* u is a scheme that urlsplit takes for one, ":" at c, "//", and the rest.
SchemeAt(u, c) ==
  /\ c \in 2 .. Len(u) /\ u[c] = ":" /\ u[1] \in Letters
  /\ \A i \in 1 .. (c - 1) : u[i] \in SchemeChars

LEMMA ColonEnds == ":" \notin SchemeChars
<1>1. ":" \in Marks /\ ":" \notin Digits \cup {"+", "-", "."}
  BY DEF Marks, Digits
<1> QED BY <1>1, MarksNoLetters DEF SchemeChars

LEMMA SchemeCut ==
  ASSUME NEW Char, NEW u \in Seq(Char)
  PROVE  /\ HasScheme(u) => \E c : SchemeAt(u, c)
         /\ \A c : SchemeAt(u, c) => HasScheme(u) /\ After(u, {":"}) = SubSeq(u, c + 1, Len(u))
<1>1. PICK n \in 0 .. Len(u) :
        /\ \A i \in 1 .. n : u[i] \notin {":"}
        /\ n = Len(u) \/ u[n + 1] \in {":"}
        /\ Before(u, {":"}) = SubSeq(u, 1, n)
        /\ After(u, {":"}) = IF n = Len(u) THEN <<>> ELSE SubSeq(u, n + 2, Len(u))
  BY BeforeEnds
<1>2. Len(u) \in Nat
  OBVIOUS
<1> DEFINE scheme == SubSeq(u, 1, n)
<1>3. scheme \in Seq(Char) /\ Len(scheme) = n /\ DOMAIN scheme = 1 .. n
      /\ \A i \in 1 .. n : scheme[i] = u[i]
  OBVIOUS
<1>4. scheme = u <=> n = Len(u)
  OBVIOUS
<1>5. scheme = <<>> <=> n = 0
  BY <1>3
<1> HIDE DEF scheme
<1>6. HasScheme(u) <=> /\ n # Len(u) /\ n # 0
                       /\ u[1] \in Letters /\ \A i \in 1 .. n : u[i] \in SchemeChars
  <2>1. HasScheme(u) <=> /\ scheme # u /\ scheme # <<>>
                         /\ scheme[1] \in Letters
                         /\ \A i \in DOMAIN scheme : scheme[i] \in SchemeChars
    BY <1>1 DEF HasScheme, scheme
  <2>2. n # 0 => 1 \in 1 .. n
    OBVIOUS
  <2> QED BY <1>3, <1>4, <1>5, <2>1, <2>2
<1>7. ASSUME HasScheme(u) PROVE SchemeAt(u, n + 1)
  <2>1. n + 1 \in 2 .. Len(u) /\ (n + 1) - 1 = n
    BY <1>2, <1>6, <1>7
  <2> QED BY <1>1, <1>6, <1>7, <2>1 DEF SchemeAt
<1>8. ASSUME NEW c, SchemeAt(u, c) PROVE c = n + 1
  <2>1. c \in 2 .. Len(u) /\ c - 1 \in Nat
    BY <1>8 DEF SchemeAt
  <2>2. ASSUME c < n + 1 PROVE FALSE
    <3>1. c \in 1 .. n
      BY <2>1, <2>2
    <3> QED BY <1>1, <1>8, <3>1 DEF SchemeAt
  <2>3. ASSUME n + 1 < c PROVE FALSE
    <3>1. n + 1 \in 1 .. (c - 1) /\ n # Len(u)
      BY <2>1, <2>3
    <3> QED BY <1>1, <1>8, <3>1, ColonEnds DEF SchemeAt
  <2> QED BY <1>2, <2>1, <2>2, <2>3
<1>9. ASSUME NEW c, SchemeAt(u, c)
      PROVE  HasScheme(u) /\ After(u, {":"}) = SubSeq(u, c + 1, Len(u))
  <2>1. c = n + 1 /\ n # Len(u) /\ n # 0 /\ c - 1 = n /\ c + 1 = n + 2
    BY <1>2, <1>8, <1>9 DEF SchemeAt
  <2> QED BY <1>1, <1>6, <1>9, <2>1 DEF SchemeAt
<1> QED BY <1>7, <1>9

\* The host is read off what follows "//"; without it there is none.
LEMMA NetlocCut ==
  ASSUME NEW Char, NEW url \in Seq(Char), NEW rest \in Seq(Char),
         rest = IF HasScheme(url) THEN After(url, {":"}) ELSE url
  PROVE  /\ IsPrefix(<<"/", "/">>, rest) =>
              /\ Netloc(url) = Before(SubSeq(rest, 3, Len(rest)), Delimiters)
              /\ Hostname(url) = HostPart(SubSeq(rest, 3, Len(rest)))
         /\ ~IsPrefix(<<"/", "/">>, rest) => Hostname(url) = <<>>
<1>1. CASE IsPrefix(<<"/", "/">>, rest)
  <2>1. Netloc(url) = Before(SubSeq(rest, 3, Len(rest)), Delimiters)
    BY <1>1 DEF Netloc
  <2> QED BY <1>1, <2>1 DEF Hostname, HostPart
<1>2. CASE ~IsPrefix(<<"/", "/">>, rest)
  <2>1. Netloc(url) = <<>>
    BY <1>2 DEF Netloc
  <2> DEFINE at == SelectLastInSeq(<<>>, LAMBDA c : c = "@")
  <2>2. <<>> \in Seq(Char) /\ Len(<<>>) = 0
    OBVIOUS
  <2>3. at \in 0 .. Len(<<>>)
    BY <2>2, UserEnds
  <2>4. Hostname(url) = Lower(Before(SubSeq(<<>>, at + 1, Len(<<>>)), {":"}))
    BY <2>1 DEF Hostname
  <2> HIDE DEF at
  <2>5. SubSeq(<<>>, at + 1, Len(<<>>)) = <<>>
    BY <2>3
  <2>6. ASSUME NEW w \in Seq(Char), Len(w) = 0 PROVE Before(w, {":"}) = <<>>
    <3>1. PICK n \in 0 .. Len(w) : Before(w, {":"}) = SubSeq(w, 1, n)
      BY BeforeEnds
    <3> QED BY <2>6, <3>1
  <2>7. Before(<<>>, {":"}) = <<>>
    BY <2>2, <2>6
  <2>8. Lower(<<>>) \in Seq(Char \cup SmallLetters) /\ Len(Lower(<<>>)) = 0
    BY <2>2, LowerKeeps
  <2>9. ASSUME NEW w, NEW S, w \in Seq(S), Len(w) = 0 PROVE w = <<>>
    BY <2>9
  <2>10. Hostname(url) = Lower(<<>>)
    BY <2>4, <2>5, <2>7
  <2>11. Lower(<<>>) = <<>>
    BY <2>8, <2>9
  <2> QED BY <1>2, <2>10, <2>11
<1> QED BY <1>1, <1>2

LEMMA PrefixIs ==
  ASSUME NEW Char, NEW v \in Seq(Char)
  PROVE  /\ IsPrefix(<<"/", "/">>, v) <=> 2 <= Len(v) /\ v[1] = "/" /\ v[2] = "/"
         /\ IsPrefix(<<":", "/", "/">>, v)
              <=> 3 <= Len(v) /\ v[1] = ":" /\ v[2] = "/" /\ v[3] = "/"
<1>1. ASSUME NEW S, NEW w \in Seq(S), NEW l, l = Len(w), l <= Len(v)
      PROVE  IsPrefix(w, v) <=> \A i \in 1 .. l : w[i] = v[i]
  <2>1. SubSeq(w, 1, l) = w
    BY <1>1
  <2>2. SubSeq(v, 1, l) \in Seq(Char) /\ Len(SubSeq(v, 1, l)) = l
        /\ \A i \in 1 .. l : SubSeq(v, 1, l)[i] = v[i]
    BY <1>1
  <2>3. w = SubSeq(v, 1, l) <=> \A i \in 1 .. l : w[i] = v[i]
    <3> DEFINE x == SubSeq(v, 1, l)
    <3> HIDE DEF x
    <3>1. x \in Seq(S \cup Char) /\ w \in Seq(S \cup Char) /\ Len(x) = Len(w)
      BY <1>1, <2>2 DEF x
    <3>2. w = x <=> \A i \in 1 .. l : w[i] = x[i]
      BY <1>1, <3>1, SeqEqual
    <3> QED BY <2>2, <3>2 DEF x
  <2> QED BY <1>1, <2>1, <2>3 DEF IsPrefix
<1>2. ASSUME NEW w, IsPrefix(w, v) PROVE Len(w) <= Len(v)
  BY <1>2 DEF IsPrefix
<1>3. <<"/", "/">> \in Seq({":", "/"}) /\ Len(<<"/", "/">>) = 2
      /\ <<":", "/", "/">> \in Seq({":", "/"}) /\ Len(<<":", "/", "/">>) = 3
  OBVIOUS
<1>4. IsPrefix(<<"/", "/">>, v) <=> 2 <= Len(v) /\ v[1] = "/" /\ v[2] = "/"
  <2> DEFINE w == <<"/", "/">>
  <2>1. w[1] = "/" /\ w[2] = "/"
    OBVIOUS
  <2> HIDE DEF w
  <2>2. 2 <= Len(v) => (IsPrefix(w, v) <=> \A i \in 1 .. 2 : w[i] = v[i])
    BY <1>1, <1>3 DEF w
  <2>3. IsPrefix(w, v) => 2 <= Len(v)
    BY <1>2, <1>3 DEF w
  <2>4. (\A i \in 1 .. 2 : w[i] = v[i]) <=> w[1] = v[1] /\ w[2] = v[2]
    OBVIOUS
  <2> QED BY <2>1, <2>2, <2>3, <2>4 DEF w
<1>5. IsPrefix(<<":", "/", "/">>, v) <=> 3 <= Len(v) /\ v[1] = ":" /\ v[2] = "/" /\ v[3] = "/"
  <2> DEFINE w == <<":", "/", "/">>
  <2>1. w[1] = ":" /\ w[2] = "/" /\ w[3] = "/"
    OBVIOUS
  <2> HIDE DEF w
  <2>2. 3 <= Len(v) => (IsPrefix(w, v) <=> \A i \in 1 .. 3 : w[i] = v[i])
    BY <1>1, <1>3 DEF w
  <2>3. IsPrefix(w, v) => 3 <= Len(v)
    BY <1>2, <1>3 DEF w
  <2>4. (\A i \in 1 .. 3 : w[i] = v[i]) <=> w[1] = v[1] /\ w[2] = v[2] /\ w[3] = v[3]
    OBVIOUS
  <2> QED BY <2>1, <2>2, <2>3, <2>4 DEF w
<1> QED BY <1>4, <1>5

LEMMA AuthorityHostname ==
  ASSUME NEW Char, NEW u \in Seq(Char)
  PROVE  /\ Netloc(<<"/", "/">> \o u) = Before(u, Delimiters)
         /\ Hostname(<<"/", "/">> \o u) = HostPart(u)
<1> DEFINE Wider == Char \cup {":", "/"}
           url == <<"/", "/">> \o u
<1>1. <<"/", "/">> \in Seq(Wider) /\ u \in Seq(Wider)
  OBVIOUS
<1>2. url \in Seq(Wider) /\ Len(url) = Len(u) + 2 /\ url[1] = "/" /\ url[2] = "/"
  BY <1>1
<1>3. SubSeq(url, 3, Len(url)) = u
  BY <1>1
<1> HIDE DEF url, Wider
<1>4. ~HasScheme(url)
  <2> SUFFICES ASSUME NEW c, SchemeAt(url, c) PROVE FALSE
    BY <1>2, SchemeCut
  <2>1. url[1] \in Letters
    BY DEF SchemeAt
  <2>2. "/" \notin Letters
    BY MarksNoLetters DEF Marks, Delimiters
  <2> QED BY <1>2, <2>1, <2>2
<1>5. IsPrefix(<<"/", "/">>, url)
  <2>1. 2 <= Len(url)
    BY <1>1, <1>2
  <2> QED BY <1>2, <2>1, PrefixIs
<1>6. /\ Netloc(url) = Before(SubSeq(url, 3, Len(url)), Delimiters)
      /\ Hostname(url) = HostPart(SubSeq(url, 3, Len(url)))
  BY <1>2, <1>4, <1>5, NetlocCut
<1> QED BY <1>3, <1>6 DEF url

\* core/origins.py, authority_host: of every text and every host, the Host header is read as
\* that host exactly where it spells it, unless it is the one that names nothing.  A header
\* urlsplit refuses spells no host.
THEOREM AuthorityMatching ==
  ASSUME NEW v \in Seq(Text), NEW h, h # <<>>
  PROVE  h \in AuthorityHost(v) <=> SpellsAuthority(Strip(v), h) /\ ~NamesNothing(v)
<1> DEFINE u == Strip(v)
<1>1. u \in Seq(Text)
  BY StripTyped
<1>2. AuthorityHost(v) =
        IF NamesNothing(v) \/ Raises(<<"/", "/">> \o u) \/ Hostname(<<"/", "/">> \o u) = <<>>
        THEN {} ELSE {RStrip(Hostname(<<"/", "/">> \o u), {"."})}
  BY DEF AuthorityHost
<1> HIDE DEF u
<1>3. /\ Hostname(<<"/", "/">> \o u) = HostPart(u)
      /\ Raises(<<"/", "/">> \o u) <=> ~None(Before(u, Delimiters), {"["})
  BY <1>1, AuthorityHostname, BracketIn DEF Raises
<1>4. SpellsAuthority(u, h) <=> /\ RStrip(HostPart(u), {"."}) = h
                               /\ None(Before(u, Delimiters), {"["})
  BY <1>1, AuthoritySpelt DEF SpellsAuthority
<1>5. HostPart(u) = <<>> => RStrip(HostPart(u), {"."}) = <<>>
  <2>1. ASSUME NEW w \in Seq(Text), Len(w) = 0 PROVE RStrip(w, {"."}) = <<>>
    <3>1. PICK n \in 0 .. Len(w) : RStrip(w, {"."}) = SubSeq(w, 1, n)
      BY RStripEnds
    <3> QED BY <2>1, <3>1
  <2>2. <<>> \in Seq(Text) /\ Len(<<>>) = 0
    OBVIOUS
  <2> QED BY <2>1, <2>2
<1>6. h \in AuthorityHost(v) <=> SpellsAuthority(u, h) /\ ~NamesNothing(v)
  BY <1>2, <1>3, <1>4, <1>5
<1> QED BY <1>6 DEF u

\* Where "://" follows a scheme.
LEMMA OriginCut ==
  ASSUME NEW Char, NEW u \in Seq(Char), NEW c \in 1 .. Len(u)
  PROVE  LET scheme == SubSeq(u, 1, c - 1)
             rest == SubSeq(u, c + 1, Len(u))
         IN  /\ IsPrefix(<<":", "/", "/">>, SubSeq(u, c, Len(u)))
                  <=> u[c] = ":" /\ IsPrefix(<<"/", "/">>, rest)
             /\ u[c] = ":" =>
                  (SchemeAt(u, c) <=> /\ scheme # <<>> /\ scheme[1] \in Letters
                                      /\ Only(scheme, SchemeChars))
             /\ rest \in Seq(Char)
             /\ IsPrefix(<<"/", "/">>, rest) =>
                  SubSeq(rest, 3, Len(rest)) = SubSeq(u, c + 3, Len(u))
<1> DEFINE scheme == SubSeq(u, 1, c - 1)
           from == SubSeq(u, c, Len(u))
           rest == SubSeq(u, c + 1, Len(u))
<1>1. Len(u) \in Nat /\ c \in Nat /\ c - 1 \in Nat
  OBVIOUS
<1>2. from \in Seq(Char) /\ Len(from) = Len(u) - c + 1
      /\ \A i \in 1 .. (Len(u) - c + 1) : from[i] = u[c + i - 1]
  OBVIOUS
<1>3. rest \in Seq(Char) /\ Len(rest) = Len(u) - c
      /\ \A i \in 1 .. (Len(u) - c) : rest[i] = u[c + i]
  OBVIOUS
<1>4. scheme \in Seq(Char) /\ Len(scheme) = c - 1 /\ DOMAIN scheme = 1 .. (c - 1)
      /\ \A i \in 1 .. (c - 1) : scheme[i] = u[i]
  OBVIOUS
<1>5. 3 <= Len(rest) + 1 => SubSeq(rest, 3, Len(rest)) = SubSeq(u, c + 3, Len(u))
  BY <1>1
<1> HIDE DEF scheme, from, rest
<1>6. IsPrefix(<<":", "/", "/">>, from)
        <=> 3 <= Len(from) /\ from[1] = ":" /\ from[2] = "/" /\ from[3] = "/"
  BY <1>2, PrefixIs
<1>7. IsPrefix(<<"/", "/">>, rest) <=> 2 <= Len(rest) /\ rest[1] = "/" /\ rest[2] = "/"
  BY <1>3, PrefixIs
<1>8. IsPrefix(<<":", "/", "/">>, from) <=> u[c] = ":" /\ IsPrefix(<<"/", "/">>, rest)
  <2>1. 3 <= Len(from) <=> 2 <= Len(rest)
    BY <1>1, <1>2, <1>3
  <2>2. 2 <= Len(rest) => /\ from[1] = u[c] /\ from[2] = u[c + 1] /\ from[3] = u[c + 2]
                          /\ rest[1] = u[c + 1] /\ rest[2] = u[c + 2]
    <3> SUFFICES ASSUME 2 <= Len(rest)
                 PROVE  /\ from[1] = u[c] /\ from[2] = u[c + 1] /\ from[3] = u[c + 2]
                        /\ rest[1] = u[c + 1] /\ rest[2] = u[c + 2]
      OBVIOUS
    <3>1. /\ 1 \in 1 .. (Len(u) - c + 1) /\ 2 \in 1 .. (Len(u) - c + 1)
          /\ 3 \in 1 .. (Len(u) - c + 1) /\ 1 \in 1 .. (Len(u) - c) /\ 2 \in 1 .. (Len(u) - c)
          /\ c + 1 - 1 = c /\ c + 2 - 1 = c + 1 /\ c + 3 - 1 = c + 2
      BY <1>1, <1>3
    <3>2. from[1] = u[c + 1 - 1] /\ from[2] = u[c + 2 - 1] /\ from[3] = u[c + 3 - 1]
      BY <1>2, <3>1
    <3> QED BY <1>3, <3>1, <3>2
  <2> QED BY <1>6, <1>7, <2>1, <2>2
<1>9. u[c] = ":" => (SchemeAt(u, c) <=> /\ scheme # <<>> /\ scheme[1] \in Letters
                                        /\ Only(scheme, SchemeChars))
  <2>1. scheme # <<>> <=> c \in 2 .. Len(u)
    BY <1>1, <1>4
  <2>2. c \in 2 .. Len(u) => scheme[1] = u[1]
    BY <1>1, <1>4
  <2>3. Only(scheme, SchemeChars) <=> \A i \in 1 .. (c - 1) : u[i] \in SchemeChars
    BY <1>4 DEF Only
  <2> QED BY <2>1, <2>2, <2>3 DEF SchemeAt
<1>10. IsPrefix(<<"/", "/">>, rest) => SubSeq(rest, 3, Len(rest)) = SubSeq(u, c + 3, Len(u))
  BY <1>3, <1>5, <1>7
<1> QED BY <1>3, <1>8, <1>9, <1>10 DEF scheme, from, rest

\* A value with a ":" in it does not spell null.
LEMMA NotNull ==
  ASSUME NEW Char, NEW u \in Seq(Char), NEW c \in 1 .. Len(u), u[c] = ":"
  PROVE  Lower(u) # <<"n", "u", "l", "l">>
<1> SUFFICES ASSUME Lower(u) = <<"n", "u", "l", "l">> PROVE FALSE
  OBVIOUS
<1>1. ":" \in Marks
  BY DEF Marks
<1>2. Len(Lower(u)) = Len(u) /\ Lower(u)[c] = ":"
  BY <1>1, LowerKeeps
<1>3. Len(u) = 4
  BY <1>2
<1>4. c = 1 \/ c = 2 \/ c = 3 \/ c = 4
  BY <1>3
<1> QED BY <1>2, <1>4

\* core/origins.py, origin_host: of every text and every host, the Origin or Referer is read
\* as that host exactly where it spells an origin of it: no text slips another host past the
\* parsing, and none is refused that spells the host.
THEOREM OriginMatching ==
  ASSUME NEW v \in Seq(Text), NEW h, h # <<>>
  PROVE  h \in OriginHost(v) <=> SpellsOrigin(v, h)
<1> DEFINE u == Strip(v)
           rest(c) == SubSeq(u, c + 1, Len(u))
           after(c) == SubSeq(u, c + 3, Len(u))
           scheme(c) == SubSeq(u, 1, c - 1)
<1>1. u \in Seq(Text)
  BY StripTyped
<1>2. h \in OriginHost(v) <=> /\ ~NamesNothing(v) /\ HasScheme(u) /\ ~Raises(u)
                              /\ Hostname(u) # <<>> /\ RStrip(Hostname(u), {"."}) = h
  BY DEF OriginHost
<1>3. SpellsOrigin(v, h) <=>
        \E c \in 1 .. Len(u) :
          /\ IsPrefix(<<":", "/", "/">>, SubSeq(u, c, Len(u)))
          /\ scheme(c) # <<>> /\ scheme(c)[1] \in Letters /\ Only(scheme(c), SchemeChars)
          /\ SpellsAuthority(after(c), h)
  BY DEF SpellsOrigin
<1>4. NamesNothing(v) <=> u = <<>> \/ Lower(u) = <<"n", "u", "l", "l">>
  BY DEF NamesNothing
<1> HIDE DEF u
<1>5. Len(u) \in Nat
  BY <1>1
<1>6. ASSUME NEW c \in 1 .. Len(u) PROVE after(c) \in Seq(Text)
  BY <1>1, <1>5
<1> HIDE DEF rest, after, scheme
<1>7. ASSUME NEW c \in 1 .. Len(u)
      PROVE  /\ IsPrefix(<<":", "/", "/">>, SubSeq(u, c, Len(u)))
                  <=> u[c] = ":" /\ IsPrefix(<<"/", "/">>, rest(c))
             /\ u[c] = ":" =>
                  (SchemeAt(u, c) <=> /\ scheme(c) # <<>> /\ scheme(c)[1] \in Letters
                                      /\ Only(scheme(c), SchemeChars))
             /\ rest(c) \in Seq(Text)
             /\ IsPrefix(<<"/", "/">>, rest(c)) =>
                  SubSeq(rest(c), 3, Len(rest(c))) = after(c)
  BY <1>1, OriginCut DEF rest, after, scheme
<1>8. SpellsOrigin(v, h) <=>
        \E c \in 1 .. Len(u) : /\ SchemeAt(u, c) /\ IsPrefix(<<"/", "/">>, rest(c))
                               /\ SpellsAuthority(after(c), h)
  <2>1. ASSUME NEW c \in 1 .. Len(u)
        PROVE  (/\ IsPrefix(<<":", "/", "/">>, SubSeq(u, c, Len(u)))
                /\ scheme(c) # <<>> /\ scheme(c)[1] \in Letters /\ Only(scheme(c), SchemeChars))
                 <=> SchemeAt(u, c) /\ IsPrefix(<<"/", "/">>, rest(c))
    <3>1. SchemeAt(u, c) => u[c] = ":"
      BY DEF SchemeAt
    <3> QED BY <1>7, <3>1, Zenon
  <2> QED BY <1>3, <2>1
<1>9. ASSUME NEW c \in 1 .. Len(u), SchemeAt(u, c)
      PROVE  /\ HasScheme(u) /\ ~NamesNothing(v)
             /\ IsPrefix(<<"/", "/">>, rest(c)) =>
                  /\ Hostname(u) = HostPart(after(c))
                  /\ Raises(u) <=> ~None(Before(after(c), Delimiters), {"["})
             /\ ~IsPrefix(<<"/", "/">>, rest(c)) => Hostname(u) = <<>>
  <2>1. HasScheme(u) /\ rest(c) = After(u, {":"})
    BY <1>1, <1>9, SchemeCut DEF rest
  <2>2. ~NamesNothing(v)
    <3>1. u[c] = ":"
      BY <1>9 DEF SchemeAt
    <3>2. u # <<>>
      BY <1>1
    <3> QED BY <1>1, <1>4, <3>1, <3>2, NotNull
  <2>3. /\ IsPrefix(<<"/", "/">>, rest(c)) =>
              /\ Netloc(u) = Before(SubSeq(rest(c), 3, Len(rest(c))), Delimiters)
              /\ Hostname(u) = HostPart(SubSeq(rest(c), 3, Len(rest(c))))
        /\ ~IsPrefix(<<"/", "/">>, rest(c)) => Hostname(u) = <<>>
    <3>1. rest(c) = IF HasScheme(u) THEN After(u, {":"}) ELSE u
      BY <2>1
    <3>2. rest(c) \in Seq(Text)
      BY <1>7
    <3> QED BY <1>1, <3>1, <3>2, NetlocCut
  <2>4. IsPrefix(<<"/", "/">>, rest(c)) => SubSeq(rest(c), 3, Len(rest(c))) = after(c)
    BY <1>7
  <2>5. Contains(Before(after(c), Delimiters), "[")
          <=> ~None(Before(after(c), Delimiters), {"["})
    BY <1>6, BracketIn
  <2>6. IsPrefix(<<"/", "/">>, rest(c)) => (Raises(u) <=> ~None(Before(after(c), Delimiters), {"["}))
    BY <2>3, <2>4, <2>5 DEF Raises
  <2> QED BY <2>1, <2>2, <2>3, <2>4, <2>6, Zenon
<1>10. ASSUME NEW c \in 1 .. Len(u)
       PROVE  /\ SpellsAuthority(after(c), h) <=>
                   /\ RStrip(HostPart(after(c)), {"."}) = h
                   /\ None(Before(after(c), Delimiters), {"["})
              /\ HostPart(after(c)) = <<>> => RStrip(HostPart(after(c)), {"."}) # h
  <2>1. ASSUME NEW w \in Seq(Text), Len(w) = 0 PROVE RStrip(w, {"."}) = <<>>
    <3>1. PICK n \in 0 .. Len(w) : RStrip(w, {"."}) = SubSeq(w, 1, n)
      BY RStripEnds
    <3> QED BY <2>1, <3>1
  <2>2. <<>> \in Seq(Text) /\ Len(<<>>) = 0
    OBVIOUS
  <2> QED BY <1>6, <2>1, <2>2, AuthoritySpelt DEF SpellsAuthority
<1>11. ASSUME SpellsOrigin(v, h) PROVE h \in OriginHost(v)
  BY <1>2, <1>8, <1>9, <1>10, <1>11
<1>12. ASSUME h \in OriginHost(v) PROVE SpellsOrigin(v, h)
  <2>1. PICK c : SchemeAt(u, c)
    BY <1>1, <1>2, <1>12, SchemeCut
  <2>2. c \in 1 .. Len(u)
    BY <1>5, <2>1 DEF SchemeAt
  <2> QED BY <1>2, <1>8, <1>9, <1>10, <1>12, <2>1, <2>2
<1> QED BY <1>11, <1>12

-----------------------------------------------------------------------------
(* The host an origin spells is written in it. *)

\* Stripping leaves a part of the value.
LEMMA StripIsPart ==
  ASSUME NEW Char, NEW v \in Seq(Char)
  PROVE  \E m \in 0 .. Len(v) : \E n \in m .. Len(v) : Strip(v) = SubSeq(v, m + 1, n)
<1> DEFINE w == RStrip(v, Whitespace)
           rev == Reverse(w)
<1>1. PICK n \in 0 .. Len(v) : w = SubSeq(v, 1, n)
  BY RStripEnds
<1> HIDE DEF w
<1>2. w \in Seq(Char) /\ Len(w) = n /\ \A i \in 1 .. n : w[i] = v[i]
  BY <1>1
<1>3. rev \in Seq(Char) /\ Len(rev) = n /\ \A i \in 1 .. n : rev[i] = w[n - i + 1]
  BY <1>2 DEF Reverse
<1> HIDE DEF rev
<1>4. PICK k \in 0 .. n : RStrip(rev, Whitespace) = SubSeq(rev, 1, k)
  <2>1. rev \in Seq(Char)
    BY <1>3
  <2>2. PICK k \in 0 .. Len(rev) : RStrip(rev, Whitespace) = SubSeq(rev, 1, k)
    BY <2>1, RStripEnds
  <2> QED BY <1>3, <2>2
<1> DEFINE cut == SubSeq(rev, 1, k)
           m == n - k
<1>5. cut \in Seq(Char) /\ Len(cut) = k /\ \A i \in 1 .. k : cut[i] = rev[i]
  BY <1>3
<1> HIDE DEF cut
<1>6. Strip(v) = Reverse(cut)
  BY <1>4 DEF Strip, cut, rev, w
<1>7. Reverse(cut) \in Seq(Char) /\ Len(Reverse(cut)) = k
      /\ \A i \in 1 .. k : Reverse(cut)[i] = cut[k - i + 1]
  BY <1>5 DEF Reverse
<1>8. m \in 0 .. Len(v) /\ n \in m .. Len(v) /\ n - m = k
  OBVIOUS
<1>9. SubSeq(v, m + 1, n) \in Seq(Char) /\ Len(SubSeq(v, m + 1, n)) = k
      /\ \A i \in 1 .. k : SubSeq(v, m + 1, n)[i] = v[m + i]
  BY <1>8
<1>10. ASSUME NEW i \in 1 .. k PROVE Reverse(cut)[i] = v[m + i]
  <2>1. k - i + 1 \in 1 .. k /\ k - i + 1 \in 1 .. n /\ n - (k - i + 1) + 1 = m + i
        /\ m + i \in 1 .. n
    OBVIOUS
  <2> QED BY <1>2, <1>3, <1>5, <1>7, <2>1
<1> HIDE DEF m
<1>11. Reverse(cut) = SubSeq(v, m + 1, n)
  BY <1>7, <1>9, <1>10, SeqEqual
<1> QED BY <1>6, <1>8, <1>11

LEMMA OriginHolds ==
  ASSUME NEW Char, NEW v \in Seq(Char), NEW h, SpellsOrigin(v, h)
  PROVE  \E i, j \in 1 .. Len(v) : h = Lower(SubSeq(v, i, j))
<1> DEFINE u == Strip(v)
<1>1. PICK m \in 0 .. Len(v) : \E n \in m .. Len(v) : u = SubSeq(v, m + 1, n)
  BY StripIsPart
<1>2. PICK n \in m .. Len(v) : u = SubSeq(v, m + 1, n)
  BY <1>1
<1>3. PICK c \in 1 .. Len(u) : /\ IsPrefix(<<":", "/", "/">>, SubSeq(u, c, Len(u)))
                               /\ SpellsAuthority(SubSeq(u, c + 3, Len(u)), h)
  BY DEF SpellsOrigin
<1>4. u \in Seq(Char) /\ Len(u) = n - m
  BY <1>2
<1> HIDE DEF u
<1> DEFINE a == SubSeq(u, c + 3, Len(u))
<1>5. c + 2 <= Len(u)
  <2> DEFINE w == SubSeq(u, c, Len(u))
  <2>1. w \in Seq(Char) /\ Len(w) = Len(u) - c + 1
    BY <1>4
  <2> HIDE DEF w
  <2>2. 3 <= Len(w)
    BY <1>3, <2>1, PrefixIs DEF w
  <2> QED BY <1>4, <2>1, <2>2
<1>6. a \in Seq(Char) /\ Len(a) = Len(u) - c - 2
  BY <1>4, <1>5
<1> HIDE DEF a
<1>7. PICK from \in 1 .. Len(a), to \in 1 .. Len(a) :
        h # <<>> /\ Lower(SubSeq(a, from, to)) = h
  BY <1>3 DEF SpellsAuthority, Holds, a
<1>8. CASE from <= to
  <2> DEFINE k == m + c + 2
  <2>1. SubSeq(a, from, to) = SubSeq(u, c + 2 + from, c + 2 + to)
    BY <1>4, <1>5, <1>6, <1>8 DEF a
  <2>2. SubSeq(u, c + 2 + from, c + 2 + to) = SubSeq(v, k + from, k + to)
    BY <1>2, <1>4, <1>5, <1>6, <1>8
  <2>3. k + from \in 1 .. Len(v) /\ k + to \in 1 .. Len(v)
    BY <1>4, <1>5, <1>6, <1>8
  <2> HIDE DEF k
  <2> QED BY <1>7, <2>1, <2>2, <2>3
<1>9. CASE to < from
  <2>1. SubSeq(a, from, to) = <<>>
    BY <1>6, <1>9
  <2>2. \E i, j \in 1 .. Len(v) : SubSeq(v, i, j) = <<>>
    <3>1. 2 \in 1 .. Len(v) /\ 1 \in 1 .. Len(v) /\ SubSeq(v, 2, 1) = <<>>
      BY <1>2, <1>4, <1>5
    <3> QED BY <3>1
  <2> QED BY <1>7, <2>1, <2>2
<1> QED BY <1>8, <1>9
=============================================================================
