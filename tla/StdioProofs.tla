------------------------------ MODULE StdioProofs ------------------------------
(***************************************************************************)
(* What a program may rely on of its files, for every stdin, every program *)
(* and however the host cuts reads and writes.                             *)
(***************************************************************************)
EXTENDS Stdio, TLAPS, WellFoundedInduction

-----------------------------------------------------------------------------
(* Numbers and sequences. *)

(* A nonempty set of naturals has a least element. *)
LEMMA LeastOf ==
    ASSUME NEW S \in SUBSET Nat, S # {}
    PROVE  \E x \in S : \A y \in S : x <= y
<1> DEFINE R == {ss \in Nat \X Nat : ss[1] < ss[2]}
<1>1. IsWellFoundedOn(R, Nat)
  BY NatLessThanWellFounded, Zenon DEF OpToRel
<1>2. \E x \in S : \A y \in S : ~ (<<y, x>> \in R)
  <2> HIDE DEF R
  <2> QED BY <1>1, WFMin
<1>3. ASSUME NEW x \in S, NEW y \in S, ~ (<<y, x>> \in R) PROVE x <= y
  BY <1>3
<1> QED BY <1>2, <1>3

LEMMA CatIs ==
    ASSUME NEW S, NEW s \in Seq(S), NEW t \in Seq(S)
    PROVE  /\ s \o t \in Seq(S) /\ Len(s \o t) = Len(s) + Len(t)
           /\ \A x \in 1 .. Len(s) : (s \o t)[x] = s[x]
           /\ \A x \in 1 .. Len(t) : (s \o t)[Len(s) + x] = t[x]
  OBVIOUS

LEMMA CutIs ==
    ASSUME NEW S, NEW s \in Seq(S), NEW n \in 0 .. Len(s)
    PROVE  /\ SubSeq(s, 1, n) \in Seq(S) /\ Len(SubSeq(s, 1, n)) = n
           /\ SubSeq(s, n + 1, Len(s)) \in Seq(S) /\ Len(SubSeq(s, n + 1, Len(s))) = Len(s) - n
           /\ \A x \in 1 .. n : SubSeq(s, 1, n)[x] = s[x]
           /\ \A x \in 1 .. Len(s) - n : SubSeq(s, n + 1, Len(s))[x] = s[n + x]
  OBVIOUS

LEMMA EqualSequences ==
    ASSUME NEW S, NEW s \in Seq(S), NEW t \in Seq(S), Len(s) = Len(t),
           \A x \in 1 .. Len(s) : s[x] = t[x]
    PROVE  s = t
  OBVIOUS

(* what moves from the front of one sequence to the end of another *)
LEMMA Moved ==
    ASSUME NEW S, NEW s \in Seq(S), NEW t \in Seq(S), NEW n \in 0 .. Len(t)
    PROVE  (s \o SubSeq(t, 1, n)) \o SubSeq(t, n + 1, Len(t)) = s \o t
<1>1. PICK a \in Seq(S) : a = SubSeq(t, 1, n)
  BY CutIs
<1>2. PICK b \in Seq(S) : b = SubSeq(t, n + 1, Len(t))
  BY CutIs
<1>3. /\ Len(a) = n /\ Len(b) = Len(t) - n /\ Len(s) \in Nat /\ Len(t) \in Nat
      /\ \A x \in 1 .. n : a[x] = t[x]
      /\ \A x \in 1 .. Len(t) - n : b[x] = t[n + x]
  BY <1>1, <1>2, CutIs
<1>4. PICK c \in Seq(S) : c = s \o a
  BY CatIs
<1>5. /\ Len(c) = Len(s) + n /\ \A x \in 1 .. Len(s) : c[x] = s[x]
      /\ \A x \in 1 .. n : c[Len(s) + x] = a[x]
  BY <1>3, <1>4, CatIs
<1>6. PICK l \in Seq(S) : l = c \o b
  BY CatIs
<1>7. /\ Len(l) = Len(c) + Len(b) /\ \A x \in 1 .. Len(c) : l[x] = c[x]
      /\ \A x \in 1 .. Len(b) : l[Len(c) + x] = b[x]
  BY <1>6, CatIs
<1>8. PICK r \in Seq(S) : r = s \o t
  BY CatIs
<1>9. /\ Len(r) = Len(s) + Len(t) /\ \A x \in 1 .. Len(s) : r[x] = s[x]
      /\ \A x \in 1 .. Len(t) : r[Len(s) + x] = t[x]
  BY <1>8, CatIs
<1>10. Len(l) = Len(r) /\ Len(l) = Len(s) + Len(t)
  BY <1>3, <1>5, <1>7, <1>9
<1>11. ASSUME NEW x \in 1 .. Len(l) PROVE l[x] = r[x]
  <2>1. CASE x <= Len(s)
    BY <2>1, <1>3, <1>5, <1>7, <1>9
  <2>2. CASE Len(s) < x /\ x <= Len(s) + n
    <3>1. PICK y \in 1 .. n : x = Len(s) + y
      <4>1. x - Len(s) \in 1 .. n /\ x = Len(s) + (x - Len(s))
        BY <2>2, <1>3
      <4> QED BY <4>1
    <3>2. x \in 1 .. Len(c) /\ y \in 1 .. Len(t)
      BY <3>1, <1>3, <1>5
    <3>3. l[x] = c[x] /\ c[x] = a[y] /\ a[y] = t[y] /\ r[x] = t[y]
      BY <3>1, <3>2, <1>3, <1>5, <1>7, <1>9
    <3> QED BY <3>3
  <2>3. CASE Len(s) + n < x
    <3>1. PICK y \in 1 .. Len(t) - n : x = Len(s) + n + y
      <4>1. x - Len(s) - n \in 1 .. Len(t) - n /\ x = Len(s) + n + (x - Len(s) - n)
        BY <2>3, <1>3, <1>10
      <4> QED BY <4>1
    <3>2. y \in 1 .. Len(b) /\ x = Len(c) + y /\ n + y \in 1 .. Len(t) /\ x = Len(s) + (n + y)
      BY <3>1, <1>3, <1>5
    <3>3. l[x] = b[y] /\ b[y] = t[n + y] /\ r[x] = t[n + y]
      BY <3>2, <1>3, <1>7, <1>9
    <3> QED BY <3>3
  <2> QED BY <2>1, <2>2, <2>3, <1>3
<1>12. l = r
  BY <1>10, <1>11, EqualSequences
<1> QED BY <1>1, <1>2, <1>4, <1>6, <1>8, <1>12

-----------------------------------------------------------------------------
(* split.py *)

Places(s) == 1 .. Len(s) + MaxContent + 2

(* what split.py finds at k, when c is what it finds behind *)
Found(s, c, k) ==
    IF k > Len(s) THEN <<>>
    ELSE IF ~IsHeader(s, k) THEN <<[name |-> "error", buf |-> <<>>]>>
    ELSE <<[name |-> s[k].name, buf |-> Slice(s, k + 2, s[k + 1].len)]>> \o c[k + 2 + s[k + 1].len]

LEMMA FoundAhead ==
    ASSUME StdioAssumption, NEW s, Len(s) \in Nat, NEW m \in Places(s), NEW c, NEW d,
           \A k \in Places(s) : k > m => c[k] = d[k]
    PROVE  Found(s, c, m) = Found(s, d, m)
<1>1. CASE m > Len(s) \/ ~IsHeader(s, m)
  BY <1>1 DEF Found
<1>2. CASE ~(m > Len(s)) /\ IsHeader(s, m)
  <2>1. PICK n \in 0 .. MaxContent + 1 : s[m + 1] = LenCell(n)
    BY <1>2 DEF IsHeader
  <2>2. s[m + 1].len = n /\ m < Len(s) /\ m \in Nat /\ MaxContent \in Nat /\ n \in Nat
    BY <2>1, <1>2 DEF IsHeader, LenCell, Places, StdioAssumption
  <2>3. m + 2 + n \in Places(s) /\ m + 2 + n > m
    BY <2>2 DEF Places
  <2>4. c[m + 2 + n] = d[m + 2 + n]
    BY <2>3
  <2> QED BY <2>2, <2>4 DEF Found
<1> QED BY <1>1, <1>2

LEMMA SplitIs ==
    ASSUME StdioAssumption, NEW s, Len(s) \in Nat
    PROVE  \E c : c = [k \in Places(s) |-> Found(s, c, k)] /\ Split(s) = c[1]
<1> DEFINE N == Len(s) + MaxContent + 2
           Right(c, m) == c = [k \in Places(s) |-> c[k]] /\ \A k \in Places(s) : k > N - m => c[k] = Found(s, c, k)
           Wrong == {m \in 0 .. N : ~ \E c : Right(c, m)}
<1>1. N \in Nat /\ Places(s) = 1 .. N
  BY DEF StdioAssumption, Places
<1>2. Wrong = {}
  <2> SUFFICES ASSUME Wrong # {} PROVE FALSE
    OBVIOUS
  <2>1. Wrong \in SUBSET Nat
    BY <1>1
  <2>2. PICK m \in Wrong : \A y \in Wrong : m <= y
    <3> HIDE DEF Wrong
    <3> QED BY <2>1, LeastOf
  <2> HIDE DEF Right
  <2>3. m # 0
    <3>1. PICK c : c = [k \in Places(s) |-> 0]
      OBVIOUS
    <3>2. Right(c, 0)
      BY <1>1, <3>1 DEF Right
    <3> QED BY <3>2, <2>2
  <2>4. m \in 1 .. N /\ m - 1 \in 0 .. N /\ m - 1 \notin Wrong
    BY <2>2, <2>3, <1>1
  <2>5. PICK c : Right(c, m - 1)
    BY <2>4
  <2>6. PICK p \in Places(s) : p = N - m + 1
    BY <2>4, <1>1
  <2>7. PICK d : d = [k \in Places(s) |-> IF k = p THEN Found(s, c, p) ELSE c[k]]
    OBVIOUS
  <2>8. ASSUME NEW k \in Places(s), k > N - m PROVE d[k] = Found(s, d, k)
    <3>1. \A x \in Places(s) : x > k => c[x] = d[x]
      BY <2>6, <2>7, <2>8, <1>1
    <3>2. Found(s, c, k) = Found(s, d, k)
      BY <3>1, FoundAhead
    <3>3. k # p => c[k] = Found(s, c, k)
      <4>1. k # p => k > N - (m - 1)
        BY <2>4, <2>6, <2>8, <1>1
      <4> QED BY <4>1, <2>5 DEF Right
    <3> QED BY <2>7, <3>2, <3>3
  <2>9. d = [k \in Places(s) |-> d[k]]
    BY <2>7
  <2>10. Right(d, m)
    BY <2>8, <2>9 DEF Right
  <2> QED BY <2>2, <2>10
<1>3. N \in 0 .. N
  BY <1>1
<1>4. PICK c : Right(c, N)
  BY <1>2, <1>3
<1>5. c = [k \in Places(s) |-> Found(s, c, k)]
  <2>1. \A k \in Places(s) : c[k] = Found(s, c, k)
    BY <1>1, <1>4
  <2>2. c = [k \in Places(s) |-> c[k]]
    BY <1>4
  <2> QED BY <2>1, <2>2
<1> DEFINE cut == CHOOSE f : f = [k \in Places(s) |-> Found(s, f, k)]
<1>6. cut = [k \in Places(s) |-> Found(s, cut, k)]
  BY <1>5
<1>7. Split(s) = cut[1]
  BY DEF Split, Places, Found
<1> QED BY <1>6, <1>7

-----------------------------------------------------------------------------
(* The stream: the closed files, one behind the other, each at its place. *)

Content == Cells \cup {NameCell(n) : n \in FileNames} \cup {LenCell(n) : n \in 0 .. MaxContent}
ClosedFiles == [name : FileNames, buf : Seq(Cells)]

LaidOut(s, cl, at) ==
    /\ at \in [1 .. Len(cl) + 1 -> Nat] /\ at[1] = 1 /\ at[Len(cl) + 1] = Len(s) + 1
    /\ \A i \in 1 .. Len(cl) : /\ Len(cl[i].buf) <= MaxContent
                               /\ at[i] \in 1 .. Len(s) /\ at[i] + 1 + Len(cl[i].buf) <= Len(s)
                               /\ at[i + 1] = at[i] + 2 + Len(cl[i].buf)
                               /\ s[at[i]] = NameCell(cl[i].name)
                               /\ s[at[i] + 1] = LenCell(Len(cl[i].buf))
                               /\ \A x \in 1 .. Len(cl[i].buf) : s[at[i] + 1 + x] = cl[i].buf[x]

Composed(s, cl) == \E at : LaidOut(s, cl, at)

LEMMA SubIs ==
    ASSUME NEW S, NEW s \in Seq(S), NEW a \in Nat \ {0}, NEW b \in Int, b <= Len(s), a <= b + 1
    PROVE  /\ SubSeq(s, a, b) \in Seq(S) /\ Len(SubSeq(s, a, b)) = b - a + 1
           /\ \A x \in 1 .. b - a + 1 : SubSeq(s, a, b)[x] = s[a + x - 1]
  OBVIOUS

LEMMA ElementAhead ==
    ASSUME NEW S, NEW cl \in Seq(S), NEW i \in 1 .. Len(cl)
    PROVE  <<cl[i]>> \o SubSeq(cl, i + 1, Len(cl)) = SubSeq(cl, i, Len(cl))
<1>1. PICK n \in Nat : n = Len(cl)
  OBVIOUS
<1>2. PICK one \in Seq(S) : one = <<cl[i]>>
  <2>1. cl[i] \in S
    OBVIOUS
  <2>2. <<cl[i]>> \in Seq(S)
    BY <2>1
  <2> QED BY <2>2
<1>3. Len(one) = 1 /\ one[1] = cl[i]
  BY <1>2
<1>4. /\ i + 1 \in Nat \ {0} /\ i \in Nat \ {0} /\ n \in Int /\ n <= Len(cl) /\ i + 1 <= n + 1 /\ i <= n + 1
      /\ n - (i + 1) + 1 = n - i /\ n - i \in Nat
  BY <1>1
<1>5. PICK rest \in Seq(S) : rest = SubSeq(cl, i + 1, n)
  BY <1>1, <1>4, SubIs
<1>6. Len(rest) = n - i /\ \A x \in 1 .. n - i : rest[x] = cl[i + 1 + x - 1]
  BY <1>1, <1>4, <1>5, SubIs
<1>7. PICK l \in Seq(S) : l = one \o rest
  BY CatIs
<1>8. Len(l) = 1 + (n - i) /\ l[1] = cl[i] /\ \A x \in 1 .. n - i : l[1 + x] = rest[x]
  <2>1. 1 \in 1 .. Len(one) /\ Len(rest) = n - i
    BY <1>3, <1>6
  <2>2. /\ Len(l) = Len(one) + Len(rest) /\ \A x \in 1 .. Len(one) : l[x] = one[x]
        /\ \A x \in 1 .. Len(rest) : l[Len(one) + x] = rest[x]
    BY <1>7, CatIs
  <2> QED BY <2>1, <2>2, <1>3
<1>9. PICK r \in Seq(S) : r = SubSeq(cl, i, n)
  BY <1>1, <1>4, SubIs
<1>10. Len(r) = n - i + 1 /\ \A x \in 1 .. n - i + 1 : r[x] = cl[i + x - 1]
  BY <1>9, <1>1, <1>4, SubIs
<1>11. ASSUME NEW x \in 1 .. Len(l) PROVE l[x] = r[x]
  <2>1. CASE x = 1
    <3>1. 1 \in 1 .. n - i + 1 /\ i + 1 - 1 = i
      BY <1>4
    <3> QED BY <2>1, <3>1, <1>8, <1>10
  <2>2. CASE x # 1
    <3>1. PICK y \in 1 .. n - i : y = x - 1
      BY <2>2, <1>4, <1>8
    <3>2. 1 + y = x /\ i + 1 + y - 1 = i + x - 1 /\ x \in 1 .. n - i + 1
      BY <3>1, <1>4, <1>8
    <3>3. l[x] = rest[y]
      BY <3>2, <1>8
    <3>4. rest[y] = cl[i + x - 1]
      BY <3>2, <1>6
    <3>5. r[x] = cl[i + x - 1]
      BY <3>2, <1>10
    <3> QED BY <3>3, <3>4, <3>5
  <2> QED BY <2>1, <2>2
<1>12. Len(l) = Len(r)
  BY <1>8, <1>10, <1>4
<1>13. l = r
  BY <1>11, <1>12, EqualSequences
<1> QED BY <1>1, <1>2, <1>5, <1>7, <1>9, <1>13

LEMMA OneSplit ==
    ASSUME StdioAssumption, NEW s \in Seq(Content), NEW cl \in Seq(ClosedFiles), NEW at, LaidOut(s, cl, at)
    PROVE  \A i \in 1 .. Len(cl) : \A c : Found(s, c, at[i]) = <<cl[i]>> \o c[at[i + 1]]
<1> TAKE i \in 1 .. Len(cl)
<1> TAKE c
<1>1. PICK f \in ClosedFiles : f = cl[i]
  OBVIOUS
<1>2. PICK p \in 1 .. Len(s) : p = at[i]
  BY DEF LaidOut
<1>3. PICK n \in Nat : n = Len(f.buf)
  BY <1>1 DEF ClosedFiles
<1>0. p \in Nat /\ Len(s) \in Nat
  OBVIOUS
<1>4. /\ n <= MaxContent /\ p + 1 + n <= Len(s) /\ at[i + 1] = p + 2 + n
      /\ s[p] = NameCell(f.name) /\ s[p + 1] = LenCell(n)
      /\ \A x \in 1 .. n : s[p + 1 + x] = f.buf[x]
  BY <1>1, <1>2, <1>3 DEF LaidOut
<1>5. s[p].name = f.name /\ s[p + 1].len = n
  BY <1>4 DEF NameCell, LenCell
<1>6. IsHeader(s, p) /\ ~(p > Len(s)) /\ Len(s) \in Nat /\ MaxContent \in Nat
  <2>1. f.name \in FileNames
    BY <1>1 DEF ClosedFiles
  <2>2. Len(s) \in Nat /\ MaxContent \in Nat
    BY DEF StdioAssumption
  <2>3. p < Len(s)
    <3>1. p + 1 + n <= Len(s) /\ p \in Nat /\ n \in Nat
      BY <1>0, <1>4
    <3> QED BY <3>1, <2>2
  <2>4. n \in 0 .. MaxContent + 1
    BY <1>3, <1>4, <2>2
  <2> QED BY <1>4, <2>1, <2>2, <2>3, <2>4 DEF IsHeader
<1>7. Slice(s, p + 2, n) = f.buf
  <2>0. p + 2 + n - 1 <= Len(s) /\ p + 2 \in Nat \ {0} /\ p + 2 + n - 1 \in Int /\ p + 2 <= p + 2 + n - 1 + 1 /\ p + 2 + n - 1 - (p + 2) + 1 = n
    <3>1. p + 1 + n <= Len(s) /\ p \in Nat /\ n \in Nat /\ Len(s) \in Nat
      BY <1>0, <1>4
    <3> QED BY <3>1
  <2>1. Slice(s, p + 2, n) = SubSeq(s, p + 2, p + 2 + n - 1)
    <3>1. ~(p + 2 + n - 1 > Len(s))
      BY <2>0, <1>6
    <3> QED BY <3>1 DEF Slice
  <2>2. PICK t : t = SubSeq(s, p + 2, p + 2 + n - 1)
    OBVIOUS
  <2>3. t \in Seq(Content) /\ Len(t) = n /\ \A x \in 1 .. n : t[x] = s[p + 1 + x]
    <3>1. t \in Seq(Content) /\ Len(t) = n /\ \A x \in 1 .. n : t[x] = s[p + 2 + x - 1]
      <4>1. PICK a \in Nat \ {0} : a = p + 2
        BY <2>0
      <4>2. PICK b \in Int : b = p + 2 + n - 1
        BY <2>0
      <4>3. b <= Len(s) /\ a <= b + 1 /\ b - a + 1 = n
        BY <2>0, <4>1, <4>2
      <4>4. t \in Seq(Content) /\ Len(t) = n /\ \A x \in 1 .. n : t[x] = s[a + x - 1]
        BY <2>2, <4>1, <4>2, <4>3, SubIs
      <4> QED BY <4>1, <4>4
    <3>2. \A x \in 1 .. n : p + 2 + x - 1 = p + 1 + x
      OBVIOUS
    <3> QED BY <3>1, <3>2
  <2>4. f.buf \in Seq(Content) /\ \A x \in 1 .. n : t[x] = f.buf[x]
    <3>1. f.buf \in Seq(Cells) /\ Cells \subseteq Content
      BY DEF ClosedFiles, Content
    <3>2. f.buf \in Seq(Content)
      BY <3>1
    <3> QED BY <3>2, <2>3, <1>4
  <2>5. t = f.buf
    BY <2>3, <2>4, <1>3, EqualSequences
  <2> QED BY <2>1, <2>2, <2>5
<1>8. [name |-> f.name, buf |-> f.buf] = f
  BY DEF ClosedFiles
<1>9. Found(s, c, p) = <<[name |-> s[p].name, buf |-> Slice(s, p + 2, s[p + 1].len)]>> \o c[p + 2 + s[p + 1].len]
  BY <1>6 DEF Found
<1>10. Found(s, c, p) = <<f>> \o c[p + 2 + n]
  BY <1>5, <1>7, <1>8, <1>9
<1> QED BY <1>1, <1>2, <1>4, <1>10

(* split.py finds each file, from the last to the first *)
LEMMA SplitsLaidOut ==
    ASSUME StdioAssumption, NEW s \in Seq(Content), NEW cl \in Seq(ClosedFiles), NEW at, LaidOut(s, cl, at)
    PROVE  Split(s) = cl
<1>1. PICK n \in Nat : n = Len(cl)
  OBVIOUS
<1>2. Len(s) \in Nat /\ MaxContent \in Nat
  BY DEF StdioAssumption
<1>3. PICK c : c = [k \in Places(s) |-> Found(s, c, k)] /\ Split(s) = c[1]
  BY <1>2, SplitIs
<1>4. \A k \in Places(s) : c[k] = Found(s, c, k)
  BY <1>3
<1>5. at \in [1 .. n + 1 -> Nat] /\ at[1] = 1 /\ at[n + 1] = Len(s) + 1 /\ \A i \in 1 .. n : at[i] \in 1 .. Len(s)
  BY <1>1 DEF LaidOut
<1>9. \A i \in 1 .. Len(cl) : \A d : Found(s, d, at[i]) = <<cl[i]>> \o d[at[i + 1]]
  BY OneSplit, Zenon
<1> DEFINE Wrong == {m \in 0 .. n : c[at[n + 1 - m]] # SubSeq(cl, n + 1 - m, n)}
<1>6. Wrong = {}
  <2>1. Wrong \in SUBSET Nat
    OBVIOUS
  <2>0. \A y : y \in Wrong <=> y \in 0 .. n /\ c[at[n + 1 - y]] # SubSeq(cl, n + 1 - y, n)
    OBVIOUS
  <2> HIDE DEF Wrong
  <2> SUFFICES ASSUME Wrong # {} PROVE FALSE
    OBVIOUS
  <2>2. PICK m \in Wrong : \A y \in Wrong : m <= y
    BY <2>1, LeastOf
  <2>3. m # 0
    <3>1. c[at[n + 1]] = <<>>
      <4>1. Len(s) + 1 \in Places(s) /\ Len(s) + 1 > Len(s)
        <5>1. \A e, x \in Nat : e + 1 \in 1 .. e + x + 2 /\ e + 1 > e
          OBVIOUS
        <5> QED BY <1>2, <5>1 DEF Places
      <4>2. Found(s, c, Len(s) + 1) = <<>>
        BY <4>1 DEF Found
      <4> QED BY <4>1, <4>2, <1>4, <1>5
    <3>2. SubSeq(cl, n + 1, n) = <<>>
      BY <1>1
    <3>3. n + 1 - 0 = n + 1
      BY <1>1
    <3> QED BY <3>1, <3>2, <3>3, <2>0
  <2>4. PICK i \in 1 .. n : i = n + 1 - m
    <3>1. n + 1 - m \in 1 .. n
      BY <2>0, <2>3, <1>1
    <3> QED BY <3>1
  <2>5. m - 1 \in 0 .. n /\ m - 1 \notin Wrong /\ n + 1 - (m - 1) = i + 1
    <3>1. m \in Nat /\ m <= n
      BY <2>0, <1>1
    <3>2. m - 1 \in 0 .. n /\ n + 1 - (m - 1) = i + 1 /\ ~(m <= m - 1)
      BY <3>1, <2>3, <2>4, <1>1
    <3>3. m - 1 \notin Wrong
      BY <3>2, <2>2
    <3> QED BY <3>2, <3>3
  <2>6. c[at[i + 1]] = SubSeq(cl, i + 1, n)
    BY <2>0, <2>5
  <2>7. c[at[i]] = <<cl[i]>> \o SubSeq(cl, i + 1, n)
    <3>1. Found(s, c, at[i]) = <<cl[i]>> \o c[at[i + 1]]
      BY <1>1, <1>9
    <3>2. at[i] \in Places(s)
      <4>1. at[i] \in 1 .. Len(s)
        BY <1>5
      <4> QED BY <4>1, <1>2 DEF Places
    <3> QED BY <3>1, <3>2, <2>6, <1>4
  <2>8. <<cl[i]>> \o SubSeq(cl, i + 1, n) = SubSeq(cl, i, n)
    BY <1>1, ElementAhead
  <2> QED BY <2>0, <2>4, <2>7, <2>8
<1>7. c[at[1]] = SubSeq(cl, 1, n)
  <2>1. n \in 0 .. n /\ n + 1 - n = 1
    BY <1>1
  <2> QED BY <2>1, <1>6
<1>8. SubSeq(cl, 1, n) = cl
  <2>1. PICK l \in Seq(ClosedFiles) : l = SubSeq(cl, 1, n)
    BY <1>1
  <2>2. Len(l) = n /\ \A x \in 1 .. n : l[x] = cl[x]
    BY <2>1, <1>1
  <2> QED BY <2>1, <2>2, <1>1, EqualSequences
<1> QED BY <1>3, <1>5, <1>7, <1>8

-----------------------------------------------------------------------------
(* The inductive invariant. *)

FileRecord == [name : FileNames \cup {"none"}, out : BOOLEAN, buf : Seq(Cells), cap : Nat, open : BOOLEAN]

Fits(f) ==
    /\ Len(f.buf) <= f.cap /\ f.cap <= MaxSize
    /\ f.out => f.name \in FileNames /\ Len(f.buf) <= MaxContent

FilesFit(fs) == fs \in Seq(FileRecord) /\ \A k \in 1 .. Len(fs) : Fits(fs[k])

FirstReader(fs, k) == ~fs[k].out /\ \A j \in 1 .. k - 1 : fs[j].out

(* Until a file is opened for reading stdin is whole; the first one has what is *)
(* no longer in stdin, or nothing after a failure. *)
StdinKept(fs, rd, inp) ==
    /\ rd \in 0 .. Len(fs) /\ (rd # 0 => rd = Len(fs) /\ ~fs[rd].out)
    /\ inp \in Seq(Cells)
    /\ (\A k \in 1 .. Len(fs) : fs[k].out) => inp = Stdin
    /\ \A k \in 1 .. Len(fs) : FirstReader(fs, k) =>
         IF rd = k THEN fs[k].buf \o inp = Stdin ELSE fs[k].buf = <<>> \/ fs[k].buf = Stdin

(* What was written and what is still to write are the closed files. *)
StreamKept(o, p, cl) == o \in Seq(Content) /\ p \in Seq(Content) /\ cl \in Seq(ClosedFiles) /\ Composed(o \o p, cl)

StdioInv ==
    /\ FilesFit(files) /\ StdinKept(files, reading, input)
    /\ StreamKept(out, pending, closed)
    /\ status = 0 => pending = <<>>

-----------------------------------------------------------------------------
(* Files and lists of files. *)

LEMMA EmptyIs ==
    ASSUME NEW S
    PROVE  /\ <<>> \in Seq(S) /\ Len(<<>>) = 0
           /\ \A s \in Seq(S) : s \o <<>> = s /\ <<>> \o s = s /\ (Len(s) = 0 => s = <<>>)
<1>1. \A T : <<>> \in Seq(T)
  OBVIOUS
<1>2. <<>> \in Seq(S) /\ Len(<<>>) = 0
  BY <1>1
<1>3. ASSUME NEW s \in Seq(S) PROVE s \o <<>> = s /\ <<>> \o s = s /\ (Len(s) = 0 => s = <<>>)
  <2>1. PICK e \in Seq(S) : e = <<>>
    BY <1>2
  <2>2. Len(e) = 0
    BY <2>1
  <2>3. PICK l \in Seq(S) : l = s \o e
    BY CatIs
  <2>4. Len(l) = Len(s) + Len(e) /\ \A x \in 1 .. Len(s) : l[x] = s[x]
    BY <2>3, CatIs
  <2>5. l = s
    BY <2>2, <2>4, EqualSequences
  <2>6. PICK r \in Seq(S) : r = e \o s
    BY CatIs
  <2>7. Len(r) = Len(e) + Len(s) /\ \A x \in 1 .. Len(s) : r[Len(e) + x] = s[x]
    BY <2>6, CatIs
  <2>8. Len(r) = Len(s) /\ \A x \in 1 .. Len(s) : r[x] = s[x]
    BY <2>2, <2>7
  <2>9. r = s
    BY <2>8, EqualSequences
  <2>10. Len(s) = 0 => s = e
    BY <2>2, EqualSequences
  <2> QED BY <2>1, <2>3, <2>5, <2>6, <2>9, <2>10
<1> QED BY <1>2, <1>3

LEMMA ReplacedIs ==
    ASSUME NEW S, NEW fs \in Seq(S), NEW k \in 1 .. Len(fs), NEW g \in S
    PROVE  /\ [fs EXCEPT ![k] = g] \in Seq(S) /\ Len([fs EXCEPT ![k] = g]) = Len(fs)
           /\ \A j \in 1 .. Len(fs) : [fs EXCEPT ![k] = g][j] = IF j = k THEN g ELSE fs[j]
  OBVIOUS

LEMMA AppendedIs ==
    ASSUME NEW S, NEW fs \in Seq(S), NEW g \in S
    PROVE  /\ Append(fs, g) \in Seq(S) /\ Len(Append(fs, g)) = Len(fs) + 1
           /\ \A j \in 1 .. Len(fs) : Append(fs, g)[j] = fs[j]
           /\ Append(fs, g)[Len(fs) + 1] = g
  OBVIOUS

LEMMA ReplacedFits ==
    ASSUME NEW fs, FilesFit(fs), NEW k \in 1 .. Len(fs), NEW g \in FileRecord, Fits(g)
    PROVE  FilesFit([fs EXCEPT ![k] = g])
<1>1. PICK t : t = [fs EXCEPT ![k] = g]
  OBVIOUS
<1>2. /\ t \in Seq(FileRecord) /\ Len(t) = Len(fs)
      /\ \A j \in 1 .. Len(fs) : t[j] = IF j = k THEN g ELSE fs[j]
  BY <1>1, ReplacedIs DEF FilesFit
<1> QED BY <1>1, <1>2 DEF FilesFit

LEMMA AppendedFits ==
    ASSUME NEW fs, FilesFit(fs), NEW g \in FileRecord, Fits(g)
    PROVE  FilesFit(Append(fs, g))
<1>1. PICK t : t = Append(fs, g)
  OBVIOUS
<1>2. /\ t \in Seq(FileRecord) /\ Len(t) = Len(fs) + 1 /\ Len(fs) \in Nat
      /\ \A j \in 1 .. Len(fs) : t[j] = fs[j]
      /\ t[Len(fs) + 1] = g
  BY <1>1, AppendedIs DEF FilesFit
<1>3. ASSUME NEW j \in 1 .. Len(t) PROVE Fits(t[j])
  <2>1. j \in 1 .. Len(fs) \/ j = Len(fs) + 1
    BY <1>2
  <2> QED BY <2>1, <1>2 DEF FilesFit
<1> QED BY <1>1, <1>2, <1>3 DEF FilesFit

(* a file changes that is written, or is open no longer *)
LEMMA ReplacedKeeps ==
    ASSUME NEW fs, FilesFit(fs), NEW inp, StdinKept(fs, 0, inp), NEW k \in 1 .. Len(fs), NEW g \in FileRecord,
           g.out = fs[k].out, g.out \/ g.buf = fs[k].buf
    PROVE  StdinKept([fs EXCEPT ![k] = g], 0, inp)
<1>1. PICK t : t = [fs EXCEPT ![k] = g]
  OBVIOUS
<1>2. /\ t \in Seq(FileRecord) /\ Len(t) = Len(fs) /\ Len(fs) \in Nat
      /\ \A j \in 1 .. Len(fs) : t[j] = IF j = k THEN g ELSE fs[j]
  BY <1>1, ReplacedIs DEF FilesFit
<1>3. \A j \in 1 .. Len(fs) : t[j].out = fs[j].out /\ (t[j].out \/ t[j].buf = fs[j].buf)
  BY <1>2
<1>4. ASSUME NEW j \in 1 .. Len(fs), FirstReader(t, j) PROVE t[j].buf = <<>> \/ t[j].buf = Stdin
  <2>1. ~fs[j].out /\ t[j].buf = fs[j].buf
    BY <1>3, <1>4 DEF FirstReader
  <2>2. \A i \in 1 .. j - 1 : i \in 1 .. Len(fs) /\ fs[i].out
    BY <1>2, <1>3, <1>4 DEF FirstReader
  <2>3. FirstReader(fs, j)
    BY <2>1, <2>2 DEF FirstReader
  <2>4. j # 0
    OBVIOUS
  <2> QED BY <2>1, <2>3, <2>4 DEF StdinKept
<1>5. (\A j \in 1 .. Len(t) : t[j].out) => inp = Stdin
  BY <1>2, <1>3 DEF StdinKept
<1>6. inp \in Seq(Cells) /\ 0 \in 0 .. Len(t)
  BY <1>2 DEF StdinKept
<1>7. \A j \in 1 .. Len(t) : j # 0
  BY <1>2
<1> QED BY <1>1, <1>2, <1>4, <1>5, <1>6, <1>7 DEF StdinKept

-----------------------------------------------------------------------------
(* grow: what it returns is enough, and the least of the doublings that are. *)

LEMMA GrowIs ==
    ASSUME NEW f \in FileRecord, NEW need \in Nat, Grow(f, need) <= MaxSize, StdioAssumption
    PROVE  Grow(f, need) \in Nat /\ need <= Grow(f, need)
<1> DEFINE caps == {c \in {f.cap * 2 ^ k : k \in 0 .. need} : c >= need}
<1>1. f.cap \in Nat /\ MaxSize \in Nat
  BY DEF FileRecord, StdioAssumption
<1>2. Grow(f, need) = IF caps = {} \/ need < Len(f.buf) THEN MaxSize + 1
                      ELSE CHOOSE c \in caps : \A d \in caps : c <= d
  BY DEF Grow
<1>3. \A c \in caps : c \in Nat /\ need <= c
  <2>1. ASSUME NEW k \in 0 .. need, f.cap * 2 ^ k >= need PROVE f.cap * 2 ^ k \in Nat
    <3>1. 2 ^ k \in Int
      OBVIOUS
    <3>2. PICK p \in Int : p = 2 ^ k
      BY <3>1
    <3>3. f.cap * p \in Int
      BY <1>1, <3>2
    <3> QED BY <2>1, <3>2, <3>3
  <2> QED BY <2>1
<1>4. caps # {}
  <2> HIDE DEF caps
  <2> QED BY <1>1, <1>2
<1>5. Grow(f, need) = CHOOSE c \in caps : \A d \in caps : c <= d
  <2> HIDE DEF caps
  <2>1. ~(MaxSize + 1 <= MaxSize)
    BY <1>1
  <2> QED BY <1>2, <1>4, <2>1
<1>6. caps \in SUBSET Nat
  <2> HIDE DEF caps
  <2> QED BY <1>3
<1>7. \E c \in caps : \A d \in caps : c <= d
  <2> HIDE DEF caps
  <2> QED BY <1>4, <1>6, LeastOf
<1>8. Grow(f, need) \in caps
  <2> HIDE DEF caps
  <2> QED BY <1>5, <1>7
<1> HIDE DEF caps
<1> QED BY <1>3, <1>8

LEMMA RoomIs ==
    ASSUME StdioAssumption, NEW f \in FileRecord, Fits(f), NEW need \in Nat,
           NeedsRoom(f, need) => Grow(f, need) <= MaxSize
    PROVE  /\ WithRoom(f, need) \in FileRecord
           /\ need <= WithRoom(f, need).cap /\ WithRoom(f, need).cap <= MaxSize
           /\ WithRoom(f, need).buf = f.buf /\ WithRoom(f, need).out = f.out /\ WithRoom(f, need).name = f.name
<1>1. CASE NeedsRoom(f, need)
  <2>1. PICK c \in Nat : c = Grow(f, need)
    BY <1>1, GrowIs
  <2>2. need <= c /\ c <= MaxSize /\ WithRoom(f, need) = [f EXCEPT !.cap = c]
    BY <1>1, <2>1, GrowIs DEF WithRoom
  <2> QED BY <2>2 DEF FileRecord
<1>2. CASE ~NeedsRoom(f, need)
  <2>1. f.cap \in Nat /\ need <= f.cap
    BY <1>2 DEF NeedsRoom, FileRecord
  <2> QED BY <1>2, <2>1 DEF WithRoom, Fits
<1> QED BY <1>1, <1>2

LEMMA FilledIs ==
    ASSUME NEW f \in FileRecord, NEW b \in Seq(Cells)
    PROVE  /\ [f EXCEPT !.buf = b] \in FileRecord
           /\ [f EXCEPT !.buf = b].buf = b /\ [f EXCEPT !.buf = b].cap = f.cap
           /\ [f EXCEPT !.buf = b].out = f.out /\ [f EXCEPT !.buf = b].name = f.name
  BY DEF FileRecord

-----------------------------------------------------------------------------
(* Each action. *)

LEMMA FirstStdio ==
    ASSUME StdioAssumption, StdioInit
    PROVE  StdioInv
<1>1. <<>> \in Seq(FileRecord) /\ <<>> \in Seq(Content) /\ <<>> \in Seq(ClosedFiles) /\ Len(<<>>) = 0
  BY EmptyIs
<1>2. FilesFit(<<>>)
  BY <1>1 DEF FilesFit
<1>3. StdinKept(<<>>, 0, Stdin)
  BY <1>1 DEF StdinKept, StdioAssumption
<1>4. <<>> \o <<>> = <<>>
  BY <1>1, EmptyIs
<1>5. PICK at : at = [i \in 1 .. 1 |-> 1]
  OBVIOUS
<1>6. at \in [1 .. 1 -> Nat] /\ at[1] = 1
  BY <1>5
<1>7. LaidOut(<<>>, <<>>, at)
  <2>1. 1 .. Len(<<>>) = {} /\ Len(<<>>) + 1 = 1
    BY <1>1
  <2> QED BY <1>6, <2>1 DEF LaidOut
<1>8. Composed(<<>>, <<>>)
  BY <1>7 DEF Composed
<1>9. StreamKept(<<>>, <<>>, <<>>)
  BY <1>1, <1>4, <1>8 DEF StreamKept
<1> QED BY <1>2, <1>3, <1>9 DEF StdioInit, StdioInv

LEMMA NewIs ==
    ASSUME StdioAssumption, NEW name \in FileNames \cup {"none"}, NEW o \in BOOLEAN, o => name \in FileNames
    PROVE  New(name, o) \in FileRecord /\ Fits(New(name, o)) /\ New(name, o).out = o /\ New(name, o).buf = <<>>
<1>1. PICK e : e = <<>>
  OBVIOUS
<1>2. e \in Seq(Cells) /\ Len(e) = 0
  BY <1>1, EmptyIs
<1>3. New(name, o) = [name |-> name, out |-> o, buf |-> e, cap |-> InitCap, open |-> TRUE]
  BY <1>1 DEF New
<1>4. InitCap \in Nat /\ InitCap <= MaxSize /\ 0 <= InitCap /\ 0 <= MaxContent
  BY DEF StdioAssumption
<1> QED BY <1>1, <1>2, <1>3, <1>4 DEF FileRecord, Fits

LEMMA OpenedKeeps ==
    ASSUME NEW fs, FilesFit(fs), NEW inp, StdinKept(fs, 0, inp), NEW g \in FileRecord, g.buf = <<>>,
           NEW rd, rd = IF g.out THEN 0 ELSE Len(fs) + 1
    PROVE  StdinKept(Append(fs, g), rd, inp)
<1>1. PICK t : t = Append(fs, g)
  OBVIOUS
<1>2. /\ t \in Seq(FileRecord) /\ Len(t) = Len(fs) + 1 /\ Len(fs) \in Nat
      /\ \A j \in 1 .. Len(fs) : t[j] = fs[j]
      /\ t[Len(fs) + 1] = g
  BY <1>1, AppendedIs DEF FilesFit
<1>3. inp \in Seq(Cells)
  BY DEF StdinKept
<1>4. rd \in 0 .. Len(t) /\ (rd # 0 => rd = Len(t) /\ ~t[rd].out) /\ \A j \in 1 .. Len(fs) : rd # j
  BY <1>2 DEF FileRecord
<1>5. (\A j \in 1 .. Len(fs) : t[j].out) => inp = Stdin
  BY <1>2 DEF StdinKept
<1>6. (\A j \in 1 .. Len(t) : t[j].out) => inp = Stdin
  BY <1>2, <1>5
<1>7. ASSUME NEW j \in 1 .. Len(t), FirstReader(t, j)
      PROVE  IF rd = j THEN t[j].buf \o inp = Stdin ELSE t[j].buf = <<>> \/ t[j].buf = Stdin
  <2>1. CASE j \in 1 .. Len(fs)
    <3>1. \A i \in 1 .. j - 1 : i \in 1 .. Len(fs)
      BY <2>1, <1>2
    <3>2. FirstReader(fs, j)
      BY <2>1, <3>1, <1>2, <1>7 DEF FirstReader
    <3>3. fs[j].buf = <<>> \/ fs[j].buf = Stdin
      <4>1. j # 0
        BY <2>1, <1>2
      <4> QED BY <2>1, <3>2, <4>1 DEF StdinKept
    <3> QED BY <2>1, <3>3, <1>2, <1>4
  <2>2. CASE j = Len(fs) + 1
    <3>1. \A i \in 1 .. Len(fs) : t[i].out
      BY <2>2, <1>2, <1>7 DEF FirstReader
    <3>2. inp = Stdin
      BY <3>1, <1>5
    <3>3. t[j].buf = <<>> /\ ~g.out
      BY <2>2, <1>2, <1>7 DEF FirstReader
    <3>4. t[j].buf \o inp = inp
      BY <3>3, <1>3, EmptyIs
    <3> QED BY <3>2, <3>3, <3>4
  <2> QED BY <2>1, <2>2, <1>2
<1> QED BY <1>1, <1>3, <1>4, <1>6, <1>7 DEF StdinKept

LEMMA fopenWriteKeeps ==
    ASSUME StdioAssumption, StdioInv, NEW name \in FileNames, fopenWrite(name)
    PROVE  StdioInv'
<1>1. PICK g : g = New(name, TRUE)
  OBVIOUS
<1>2. g \in FileRecord /\ Fits(g) /\ g.out = TRUE /\ g.buf = <<>>
  BY <1>1, NewIs
<1>3. FilesFit(files) /\ StdinKept(files, 0, input) /\ reading = 0
  BY DEF StdioInv, fopenWrite, Running
<1>4. files' = Append(files, g) /\ UNCHANGED <<input, reading, pending, out, closed, status>>
  BY <1>1 DEF fopenWrite
<1>5. FilesFit(files')
  BY <1>2, <1>3, <1>4, AppendedFits
<1>6. StdinKept(files', 0, input)
  BY <1>2, <1>3, <1>4, OpenedKeeps
<1> QED BY <1>3, <1>4, <1>5, <1>6 DEF StdioInv

LEMMA fopenReadKeeps ==
    ASSUME StdioAssumption, StdioInv, fopenRead
    PROVE  StdioInv'
<1>1. PICK g : g = New("none", FALSE)
  OBVIOUS
<1>2. g \in FileRecord /\ Fits(g) /\ g.out = FALSE /\ g.buf = <<>>
  BY <1>1, NewIs
<1>3. FilesFit(files) /\ StdinKept(files, 0, input)
  BY DEF StdioInv, fopenRead, Running
<1>4. files' = Append(files, g) /\ reading' = Len(files) + 1 /\ UNCHANGED <<input, pending, out, closed, status>>
  BY <1>1 DEF fopenRead
<1>5. FilesFit(files')
  BY <1>2, <1>3, <1>4, AppendedFits
<1>6. StdinKept(files', reading', input)
  BY <1>2, <1>3, <1>4, OpenedKeeps
<1> QED BY <1>4, <1>5, <1>6 DEF StdioInv

LEMMA ExitsKeep ==
    ASSUME StdioInv, NEW code, Exits(code), code # 0 \/ pending = <<>>
    PROVE  StdioInv'
  BY DEF StdioInv, Exits

LEMMA GrowFailsKeeps ==
    ASSUME StdioInv, NEW f, NEW need, GrowFails(f, need)
    PROVE  StdioInv'
<1>1. PICK code : code \in {IF Grow(f, need) > MaxSize THEN 121 ELSE 122, 120} /\ Exits(code)
  BY DEF GrowFails
<1>2. code # 0
  BY <1>1
<1> QED BY <1>1, <1>2, ExitsKeep

LEMMA fwriteKeeps ==
    ASSUME StdioAssumption, StdioInv, NEW k \in DOMAIN files, NEW data \in FilePieces, fwrite(k, data)
    PROVE  StdioInv'
<1>1. FilesFit(files) /\ files \in Seq(FileRecord) /\ k \in 1 .. Len(files)
  BY DEF StdioInv, FilesFit
<1>2. PICK f \in FileRecord : f = files[k]
  BY <1>1
<1>3. PICK d \in Seq(Cells) : d = data
  BY DEF StdioAssumption
<1>4. f.buf \in Seq(Cells) /\ Fits(f)
  BY <1>1, <1>2 DEF FileRecord, FilesFit
<1>5. PICK need \in Nat : need = Len(f.buf) + Len(d)
  BY <1>4
<1>6. Running /\ f.out /\ need <= MaxContent
  BY <1>2, <1>3, <1>5 DEF fwrite
<1>7. CASE GrowFails(f, need)
  BY <1>7, GrowFailsKeeps
<1>8. CASE /\ NeedsRoom(f, need) => Grow(f, need) <= MaxSize
           /\ files' = [files EXCEPT ![k] = [WithRoom(f, need) EXCEPT !.buf = @ \o d]]
           /\ UNCHANGED <<input, reading, pending, out, closed, status>>
  <2>1. PICK h \in FileRecord : /\ h = WithRoom(f, need) /\ need <= h.cap /\ h.cap <= MaxSize
                               /\ h.buf = f.buf /\ h.out = f.out /\ h.name = f.name
    BY <1>4, <1>8, RoomIs
  <2>2. PICK b \in Seq(Cells) : b = f.buf \o d
    BY <1>4, CatIs
  <2>3. Len(b) = need
    BY <2>2, <1>4, <1>5, CatIs
  <2>4. PICK g : g = [h EXCEPT !.buf = b]
    OBVIOUS
  <2>5. g \in FileRecord /\ g.buf = b /\ g.cap = h.cap /\ g.out = f.out /\ g.name = f.name
    BY <2>1, <2>4, FilledIs
  <2>6. [WithRoom(f, need) EXCEPT !.buf = @ \o d] = g
    BY <2>1, <2>2, <2>4
  <2>7. files' = [files EXCEPT ![k] = g]
    BY <1>8, <2>6
  <2>8. Fits(g)
    BY <2>1, <2>3, <2>5, <1>4, <1>6 DEF Fits
  <2>9. FilesFit(files')
    BY <2>5, <2>7, <2>8, <1>1, ReplacedFits
  <2>10. reading = 0 /\ StdinKept(files, 0, input) /\ g.out = files[k].out /\ g.out
    BY <1>2, <1>6, <2>5 DEF StdioInv, Running
  <2>11. StdinKept(files', 0, input)
    BY <2>5, <2>7, <2>10, <1>1, ReplacedKeeps
  <2> QED BY <1>8, <2>9, <2>10, <2>11 DEF StdioInv
<1> QED BY <1>2, <1>3, <1>5, <1>7, <1>8 DEF fwrite

LEMMA WriteSomeKeeps ==
    ASSUME StdioInv, WriteSome
    PROVE  StdioInv'
<1>1. PICK w \in 1 .. Len(pending) :
        /\ out' = out \o SubSeq(pending, 1, w)
        /\ pending' = SubSeq(pending, w + 1, Len(pending))
  BY DEF WriteSome
<1>2. status = RUNNING /\ UNCHANGED <<input, files, reading, closed, status>>
  BY DEF WriteSome
<1>3. StreamKept(out, pending, closed)
  BY DEF StdioInv
<1>4. PICK p \in Seq(Content) : p = pending
  BY <1>3 DEF StreamKept
<1>5. PICK o \in Seq(Content) : o = out
  BY <1>3 DEF StreamKept
<1>6. w \in 0 .. Len(p)
  BY <1>4
<1>7. PICK a \in Seq(Content) : a = SubSeq(p, 1, w)
  BY <1>6, CutIs
<1>8. SubSeq(p, w + 1, Len(p)) \in Seq(Content)
  BY <1>6, CutIs
<1>9. o \o a \in Seq(Content)
  BY CatIs
<1>10. (o \o SubSeq(p, 1, w)) \o SubSeq(p, w + 1, Len(p)) = o \o p
  BY <1>6, Moved
<1>11. out' \o pending' = out \o pending
  BY <1>1, <1>4, <1>5, <1>10
<1>12. out' \in Seq(Content) /\ pending' \in Seq(Content)
  BY <1>1, <1>4, <1>5, <1>7, <1>8, <1>9
<1>13. StreamKept(out', pending', closed)
  BY <1>3, <1>11, <1>12 DEF StreamKept
<1>14. status' # 0
  BY <1>2 DEF RUNNING
<1> QED BY <1>2, <1>13, <1>14 DEF StdioInv

LEMMA StreamIs ==
    ASSUME NEW f \in ClosedFiles, Len(f.buf) <= MaxContent
    PROVE  /\ Stream(f) \in Seq(Content) /\ Len(Stream(f)) = 2 + Len(f.buf)
           /\ Stream(f)[1] = NameCell(f.name) /\ Stream(f)[2] = LenCell(Len(f.buf))
           /\ \A x \in 1 .. Len(f.buf) : Stream(f)[2 + x] = f.buf[x]
<1>1. PICK b \in Seq(Content) : b = f.buf
  <2>1. f.buf \in Seq(Cells) /\ Cells \subseteq Content
    BY DEF ClosedFiles, Content
  <2> QED BY <2>1
<1>2. PICK n \in Content : n = NameCell(f.name)
  BY DEF ClosedFiles, Content
<1>3. PICK l \in Content : l = LenCell(Len(b))
  <2>1. Len(b) \in 0 .. MaxContent
    BY <1>1
  <2> QED BY <2>1 DEF Content
<1>4. PICK h \in Seq(Content) : h = <<n, l>>
  <2>1. <<n, l>> \in Seq(Content)
    OBVIOUS
  <2> QED BY <2>1
<1>5. Len(h) = 2 /\ h[1] = n /\ h[2] = l
  BY <1>4
<1>6. PICK t \in Seq(Content) : t = h \o b
  BY CatIs
<1>7. /\ Len(t) = Len(h) + Len(b) /\ \A x \in 1 .. Len(h) : t[x] = h[x]
      /\ \A x \in 1 .. Len(b) : t[Len(h) + x] = b[x]
  BY <1>6, CatIs
<1>8. Stream(f) = t
  BY <1>1, <1>2, <1>3, <1>4, <1>6 DEF Stream, FileHeader
<1>9. 1 \in 1 .. Len(h) /\ 2 \in 1 .. Len(h)
  BY <1>5
<1> QED BY <1>1, <1>2, <1>3, <1>5, <1>7, <1>8, <1>9

LEMMA OneMore ==
    ASSUME StdioAssumption, NEW s \in Seq(Content), NEW cl \in Seq(ClosedFiles), Composed(s, cl),
           NEW f \in ClosedFiles, Len(f.buf) <= MaxContent
    PROVE  Composed(s \o Stream(f), Append(cl, f))
<1>1. PICK at : LaidOut(s, cl, at)
  BY DEF Composed
<1>2. PICK t \in Seq(Content) : t = Stream(f)
  BY StreamIs
<1>3. PICK n \in Nat : n = Len(cl)
  OBVIOUS
<1>4. PICK m \in Nat : m = Len(f.buf)
  BY DEF ClosedFiles
<1>5. /\ Len(t) = 2 + m /\ t[1] = NameCell(f.name) /\ t[2] = LenCell(m)
      /\ \A x \in 1 .. m : t[2 + x] = f.buf[x]
  BY <1>2, <1>4, StreamIs
<1>6. PICK r \in Seq(Content) : r = s \o t
  BY CatIs
<1>7. PICK e \in Nat : e = Len(s)
  OBVIOUS
<1>8. /\ Len(r) = e + 2 + m /\ \A x \in 1 .. e : r[x] = s[x]
      /\ \A x \in 1 .. 2 + m : r[e + x] = t[x]
  <2>1. /\ Len(r) = Len(s) + Len(t) /\ \A x \in 1 .. Len(s) : r[x] = s[x]
        /\ \A x \in 1 .. Len(t) : r[Len(s) + x] = t[x]
    BY <1>6, CatIs
  <2>2. Len(t) = 2 + m /\ Len(s) = e /\ e + (2 + m) = e + 2 + m
    BY <1>5, <1>7
  <2> QED BY <2>1, <2>2
<1>9. PICK new \in Seq(ClosedFiles) : new = Append(cl, f)
  BY AppendedIs
<1>10. Len(new) = n + 1 /\ (\A i \in 1 .. n : new[i] = cl[i]) /\ new[n + 1] = f
  BY <1>3, <1>9, AppendedIs
<1>11. PICK to : to = [i \in 1 .. n + 2 |-> IF i = n + 2 THEN e + 3 + m ELSE at[i]]
  OBVIOUS
<1>12. /\ at \in [1 .. n + 1 -> Nat] /\ at[1] = 1 /\ at[n + 1] = e + 1
       /\ \A i \in 1 .. n : /\ Len(cl[i].buf) <= MaxContent
                            /\ at[i] \in 1 .. e /\ at[i] + 1 + Len(cl[i].buf) <= e
                            /\ at[i + 1] = at[i] + 2 + Len(cl[i].buf)
                            /\ s[at[i]] = NameCell(cl[i].name)
                            /\ s[at[i] + 1] = LenCell(Len(cl[i].buf))
                            /\ \A x \in 1 .. Len(cl[i].buf) : s[at[i] + 1 + x] = cl[i].buf[x]
  BY <1>1, <1>3, <1>7 DEF LaidOut
<1>13. /\ to \in [1 .. n + 2 -> Nat] /\ to[n + 2] = e + 3 + m
       /\ \A i \in 1 .. n + 1 : to[i] = at[i]
  <2>1. \A i \in 1 .. n + 2 : i # n + 2 => i \in 1 .. n + 1
    BY <1>3
  <2> QED BY <1>11, <1>12, <2>1
<1>14. ASSUME NEW i \in 1 .. n
       PROVE  /\ Len(new[i].buf) <= MaxContent
              /\ to[i] \in 1 .. Len(r) /\ to[i] + 1 + Len(new[i].buf) <= Len(r)
              /\ to[i + 1] = to[i] + 2 + Len(new[i].buf)
              /\ r[to[i]] = NameCell(new[i].name)
              /\ r[to[i] + 1] = LenCell(Len(new[i].buf))
              /\ \A x \in 1 .. Len(new[i].buf) : r[to[i] + 1 + x] = new[i].buf[x]
  <2>1. PICK g \in ClosedFiles : g = cl[i] /\ g = new[i]
    BY <1>3, <1>10
  <2>2. PICK l \in Nat : l = Len(g.buf)
    BY DEF ClosedFiles
  <2>3. PICK a \in 1 .. e : a = at[i]
    BY <1>12
  <2>4. /\ l <= MaxContent /\ a + 1 + l <= e /\ at[i + 1] = a + 2 + l
        /\ s[a] = NameCell(g.name) /\ s[a + 1] = LenCell(l)
        /\ \A x \in 1 .. l : s[a + 1 + x] = g.buf[x]
    BY <1>12, <2>1, <2>2, <2>3
  <2>5. to[i] = a /\ to[i + 1] = at[i + 1]
    <3>1. i \in 1 .. n + 1 /\ i + 1 \in 1 .. n + 1
      OBVIOUS
    <3> QED BY <3>1, <2>3, <1>13
  <2>6. a \in 1 .. Len(r) /\ a + 1 + l <= Len(r) /\ a + 1 \in 1 .. e /\ \A x \in 1 .. l : a + 1 + x \in 1 .. e
    BY <2>4, <1>8
  <2>7. r[a] = s[a] /\ r[a + 1] = s[a + 1] /\ \A x \in 1 .. l : r[a + 1 + x] = s[a + 1 + x]
    BY <2>6, <1>8
  <2> QED BY <2>1, <2>2, <2>4, <2>5, <2>6, <2>7
<1>15. /\ to[n + 1] = e + 1 /\ m <= MaxContent
       /\ e + 1 \in 1 .. Len(r) /\ e + 1 + 1 + m <= Len(r) /\ e + 3 + m = e + 1 + 2 + m
       /\ r[e + 1] = NameCell(f.name) /\ r[e + 1 + 1] = LenCell(m)
       /\ \A x \in 1 .. m : r[e + 1 + 1 + x] = f.buf[x]
  <2>1. to[n + 1] = e + 1
    <3>1. n + 1 \in 1 .. n + 1
      OBVIOUS
    <3> QED BY <3>1, <1>12, <1>13
  <2>2. r[e + 1] = t[1] /\ r[e + 2] = t[2]
    <3>1. 1 \in 1 .. 2 + m /\ 2 \in 1 .. 2 + m
      OBVIOUS
    <3> QED BY <3>1, <1>8
  <2>3. ASSUME NEW x \in 1 .. m PROVE r[e + 1 + 1 + x] = f.buf[x]
    <3>1. PICK y \in 1 .. 2 + m : y = 2 + x
      OBVIOUS
    <3>2. e + y = e + 1 + 1 + x
      BY <3>1
    <3>3. r[e + y] = t[y] /\ t[y] = f.buf[x]
      BY <3>1, <1>5, <1>8
    <3> QED BY <3>2, <3>3
  <2>4. e + 1 + 1 = e + 2 /\ e + 3 + m = e + 1 + 2 + m
    OBVIOUS
  <2>5. Len(r) = e + 2 + m
    BY <1>8
  <2>6. e + 1 \in 1 .. Len(r) /\ e + 1 + 1 + m <= Len(r)
    BY <2>5
  <2>7. m <= MaxContent
    BY <1>4
  <2>8. r[e + 1] = NameCell(f.name) /\ r[e + 1 + 1] = LenCell(m)
    BY <2>2, <2>4, <1>5
  <2> QED BY <2>1, <2>3, <2>4, <2>6, <2>7, <2>8
<1>16. ASSUME NEW i \in 1 .. Len(new)
       PROVE  /\ Len(new[i].buf) <= MaxContent
              /\ to[i] \in 1 .. Len(r) /\ to[i] + 1 + Len(new[i].buf) <= Len(r)
              /\ to[i + 1] = to[i] + 2 + Len(new[i].buf)
              /\ r[to[i]] = NameCell(new[i].name)
              /\ r[to[i] + 1] = LenCell(Len(new[i].buf))
              /\ \A x \in 1 .. Len(new[i].buf) : r[to[i] + 1 + x] = new[i].buf[x]
  <2>1. CASE i \in 1 .. n
    BY <2>1, <1>14
  <2>2. CASE i = n + 1
    <3>1. new[i] = f /\ Len(new[i].buf) = m /\ to[i] = e + 1 /\ to[i + 1] = e + 3 + m
      <4>1. i + 1 = n + 2
        BY <2>2
      <4> QED BY <2>2, <4>1, <1>4, <1>10, <1>13, <1>15
    <3> QED BY <3>1, <1>15
  <2> QED BY <2>1, <2>2, <1>10
<1>17. to \in [1 .. Len(new) + 1 -> Nat] /\ to[1] = 1 /\ to[Len(new) + 1] = Len(r) + 1
  <2>1. Len(new) + 1 = n + 2 /\ 1 \in 1 .. n + 1 /\ e + 3 + m = Len(r) + 1
    BY <1>8, <1>10
  <2> QED BY <2>1, <1>12, <1>13
<1>18. LaidOut(r, new, to)
  BY <1>16, <1>17 DEF LaidOut
<1> QED BY <1>2, <1>6, <1>9, <1>18 DEF Composed

LEMMA fcloseKeeps ==
    ASSUME StdioAssumption, StdioInv, NEW k \in DOMAIN files, fclose(k)
    PROVE  StdioInv'
<1>1. FilesFit(files) /\ files \in Seq(FileRecord) /\ k \in 1 .. Len(files)
  BY DEF StdioInv, FilesFit
<1>2. PICK f \in FileRecord : f = files[k]
  BY <1>1
<1>3. f.buf \in Seq(Cells) /\ Fits(f)
  BY <1>1, <1>2 DEF FileRecord, FilesFit
<1>4. PICK g \in FileRecord : g = [f EXCEPT !.open = FALSE]
  BY DEF FileRecord
<1>5. g.out = f.out /\ g.buf = f.buf /\ g.cap = f.cap /\ g.name = f.name
  BY <1>4 DEF FileRecord
<1>6. files' = [files EXCEPT ![k] = g]
  BY <1>2, <1>4 DEF fclose
<1>7. status = RUNNING /\ pending = <<>> /\ reading = 0 /\ UNCHANGED <<input, reading, out, status>>
  BY DEF fclose, Running
<1>8. FilesFit(files')
  BY <1>1, <1>3, <1>5, <1>6, ReplacedFits DEF Fits
<1>9. StdinKept(files, 0, input) /\ g.out = files[k].out /\ g.buf = files[k].buf
  BY <1>2, <1>5, <1>7 DEF StdioInv
<1>10. StdinKept(files', 0, input)
  BY <1>1, <1>6, <1>9, ReplacedKeeps
<1>11. StreamKept(out, pending, closed)
  BY DEF StdioInv
<1>12. StreamKept(out', pending', closed')
  <2>1. CASE ~f.out
    <3>1. UNCHANGED <<out, pending, closed>>
      BY <2>1, <1>2, <1>7 DEF fclose
    <3> QED BY <3>1, <1>11
  <2>2. CASE f.out
    <3>1. PICK c : c = [name |-> f.name, buf |-> f.buf]
      OBVIOUS
    <3>2. c \in ClosedFiles /\ Len(c.buf) <= MaxContent /\ c.name = f.name /\ c.buf = f.buf
      BY <2>2, <3>1, <1>3 DEF ClosedFiles, Fits
    <3>3. Stream(f) = Stream(c)
      BY <3>2 DEF Stream, FileHeader
    <3>4. pending' = Stream(c) /\ closed' = Append(closed, c) /\ out' = out
      BY <2>2, <3>1, <3>3, <1>2, <1>7 DEF fclose
    <3>5. PICK o \in Seq(Content) : o = out
      BY <1>11 DEF StreamKept
    <3>6. PICK cl \in Seq(ClosedFiles) : cl = closed
      BY <1>11 DEF StreamKept
    <3>7. o \o <<>> = o
      BY EmptyIs
    <3>8. Composed(o, cl)
      BY <3>5, <3>6, <3>7, <1>7, <1>11 DEF StreamKept
    <3>9. Composed(o \o Stream(c), Append(cl, c))
      BY <3>2, <3>8, OneMore
    <3>10. Stream(c) \in Seq(Content) /\ Append(cl, c) \in Seq(ClosedFiles)
      BY <3>2, StreamIs, AppendedIs
    <3> QED BY <3>4, <3>5, <3>6, <3>9, <3>10 DEF StreamKept
  <2> QED BY <2>1, <2>2
<1>13. status' # 0
  BY <1>7 DEF RUNNING
<1> QED BY <1>7, <1>8, <1>10, <1>12, <1>13 DEF StdioInv

(* what the first reader has, and is still to come *)
Continues(fs, rd, g, to, rest) ==
    FirstReader(fs, rd) => IF to = rd THEN g.buf \o rest = Stdin ELSE g.buf = <<>> \/ g.buf = Stdin

(* The FILE that reads stdin is the last and the only one that changes. *)
LEMMA ReaderKeeps ==
    ASSUME NEW fs, FilesFit(fs), NEW inp, NEW rd \in 1 .. Len(fs), StdinKept(fs, rd, inp), NEW g \in FileRecord,
           g.out = fs[rd].out, NEW rest \in Seq(Cells), NEW to \in {0, rd}, Continues(fs, rd, g, to, rest)
    PROVE  StdinKept([fs EXCEPT ![rd] = g], to, rest)
<1>1. PICK t : t = [fs EXCEPT ![rd] = g]
  OBVIOUS
<1>2. /\ t \in Seq(FileRecord) /\ Len(t) = Len(fs) /\ Len(fs) \in Nat
      /\ \A j \in 1 .. Len(fs) : t[j] = IF j = rd THEN g ELSE fs[j]
  BY <1>1, ReplacedIs DEF FilesFit
<1>3. rd # 0 /\ rd = Len(fs) /\ ~fs[rd].out
  <2>1. rd # 0
    BY <1>2
  <2> QED BY <2>1 DEF StdinKept
<1>4. \A j \in 1 .. Len(fs) : t[j].out = fs[j].out /\ (j # rd => t[j].buf = fs[j].buf)
  BY <1>2
<1>5. ~t[rd].out /\ rd \in 1 .. Len(t)
  BY <1>2, <1>3
<1>6. to \in 0 .. Len(t) /\ (to # 0 => to = Len(t) /\ ~t[to].out)
  BY <1>2, <1>3, <1>5
<1>7. ASSUME NEW j \in 1 .. Len(t), FirstReader(t, j)
      PROVE  IF to = j THEN t[j].buf \o rest = Stdin ELSE t[j].buf = <<>> \/ t[j].buf = Stdin
  <2>1. FirstReader(fs, j)
    <3>1. \A i \in 1 .. j - 1 : i \in 1 .. Len(fs)
      BY <1>2
    <3> QED BY <3>1, <1>2, <1>4, <1>7 DEF FirstReader
  <2>2. CASE j = rd
    BY <2>1, <2>2, <1>2 DEF Continues
  <2>3. CASE j # rd
    <3>1. j # 0
      BY <1>2
    <3>2. to # j
      BY <2>3, <3>1
    <3>3. fs[j].buf = <<>> \/ fs[j].buf = Stdin
      BY <2>1, <2>3, <1>2 DEF StdinKept
    <3> QED BY <2>3, <3>2, <3>3, <1>2, <1>4
  <2> QED BY <2>2, <2>3
<1> QED BY <1>1, <1>5, <1>6, <1>7 DEF StdinKept

LEMMA SlurpFailsKeeps ==
    ASSUME StdioAssumption, StdioInv, SlurpFails
    PROVE  StdioInv'
<1>1. /\ status = RUNNING /\ reading # 0
      /\ UNCHANGED <<input, pending, out, closed, status>> /\ reading' = 0
  BY DEF SlurpFails
<1>2. FilesFit(files) /\ files \in Seq(FileRecord) /\ StdinKept(files, reading, input)
  BY DEF StdioInv, FilesFit
<1>3. PICK rd \in 1 .. Len(files) : rd = reading
  <2>1. reading \in 0 .. Len(files) /\ Len(files) \in Nat
    BY <1>2 DEF StdinKept
  <2> QED BY <2>1, <1>1
<1>4. PICK f \in FileRecord : f = files[rd]
  BY <1>2
<1>5. PICK e \in Seq(Cells) : e = <<>>
  BY EmptyIs
<1>6. PICK g \in FileRecord : g = [f EXCEPT !.open = FALSE, !.buf = e]
  BY DEF FileRecord
<1>7. g.out = f.out /\ g.buf = e /\ g.cap = f.cap /\ g.name = f.name
  BY <1>6 DEF FileRecord
<1>8. files' = [files EXCEPT ![rd] = g]
  BY <1>3, <1>4, <1>5, <1>6 DEF SlurpFails
<1>9. Fits(g)
  <2>1. Fits(f)
    BY <1>2, <1>4 DEF FilesFit
  <2>2. Len(e) = 0 /\ g.cap \in Nat /\ MaxContent \in Nat
    BY <1>5, EmptyIs DEF FileRecord, StdioAssumption
  <2> QED BY <2>1, <2>2, <1>7 DEF Fits
<1>10. FilesFit(files')
  BY <1>2, <1>8, <1>9, ReplacedFits
<1>11. PICK inp \in Seq(Cells) : inp = input
  BY <1>2 DEF StdinKept
<1>12. 0 \in {0, rd} /\ 0 # rd
  OBVIOUS
<1>13. StdinKept(files', 0, inp)
  <2>1. Continues(files, rd, g, 0, inp)
    BY <1>5, <1>7, <1>12 DEF Continues
  <2>2. StdinKept(files, rd, inp) /\ g.out = files[rd].out
    BY <1>2, <1>3, <1>4, <1>7, <1>11
  <2> QED BY <1>2, <1>8, <1>12, <2>1, <2>2, ReaderKeeps
<1> QED BY <1>1, <1>10, <1>11, <1>13 DEF StdioInv, RUNNING

LEMMA SlurpReadKeeps ==
    ASSUME StdioAssumption, StdioInv, SlurpRead
    PROVE  StdioInv'
<1>1. status = RUNNING /\ reading # 0
  BY DEF SlurpRead
<1>2. FilesFit(files) /\ files \in Seq(FileRecord) /\ StdinKept(files, reading, input)
  BY DEF StdioInv, FilesFit
<1>3. PICK rd \in 1 .. Len(files) : rd = reading
  <2>1. reading \in 0 .. Len(files) /\ Len(files) \in Nat
    BY <1>2 DEF StdinKept
  <2> QED BY <2>1, <1>1
<1>4. PICK f \in FileRecord : f = files[rd]
  BY <1>2
<1>5. PICK inp \in Seq(Cells) : inp = input
  BY <1>2 DEF StdinKept
<1>6. f.buf \in Seq(Cells) /\ f.cap \in Nat /\ Fits(f) /\ ~f.out /\ Len(f.buf) \in Nat /\ Len(inp) \in Nat
  <2>1. Fits(f) /\ f.buf \in Seq(Cells) /\ f.cap \in Nat
    BY <1>2, <1>4 DEF FilesFit, FileRecord
  <2>2. ~f.out
    BY <1>1, <1>2, <1>3, <1>4 DEF StdinKept
  <2> QED BY <2>1, <2>2
<1>7. PICK need \in Nat : need = IF Len(f.buf) = f.cap THEN f.cap + 1 ELSE f.cap
  BY <1>6
<1>8. CASE GrowFails(f, need)
  BY <1>8, GrowFailsKeeps
<1>9. CASE /\ NeedsRoom(f, need) => Grow(f, need) <= MaxSize
           /\ LET g == WithRoom(f, need)
                  room == g.cap - Len(g.buf)
                  most == IF Len(inp) < room THEN Len(inp) ELSE room
              IN \E n \in (IF most = 0 THEN {0} ELSE 1 .. most) :
                   /\ files' = [files EXCEPT ![rd] = [g EXCEPT !.buf = @ \o SubSeq(inp, 1, n)]]
                   /\ input' = SubSeq(inp, n + 1, Len(inp))
                   /\ reading' = IF n = 0 THEN 0 ELSE rd
           /\ UNCHANGED <<pending, out, closed, status>>
  <2>1. PICK h \in FileRecord : /\ h = WithRoom(f, need) /\ need <= h.cap /\ h.cap <= MaxSize
                               /\ h.buf = f.buf /\ h.out = f.out /\ h.name = f.name
    BY <1>6, <1>9, RoomIs
  <2>2. PICK room \in Int : room = h.cap - Len(f.buf)
    BY <1>6 DEF FileRecord
  <2>3. room > 0
    BY <2>1, <2>2, <1>6, <1>7 DEF Fits, FileRecord
  <2>4. PICK most \in Nat : most = IF Len(inp) < room THEN Len(inp) ELSE room
    BY <2>2, <2>3, <1>6
  <2>5. PICK n \in (IF most = 0 THEN {0} ELSE 1 .. most) :
          /\ files' = [files EXCEPT ![rd] = [h EXCEPT !.buf = @ \o SubSeq(inp, 1, n)]]
          /\ input' = SubSeq(inp, n + 1, Len(inp))
          /\ reading' = IF n = 0 THEN 0 ELSE rd
    BY <1>9, <2>1, <2>2, <2>4
  <2>6. n \in 0 .. Len(inp) /\ n <= room /\ (n = 0 => Len(inp) = 0)
    <3>1. most <= Len(inp) /\ most <= room /\ (most = 0 => Len(inp) = 0)
      BY <2>3, <2>4, <1>6
    <3>2. CASE most = 0
      <4>1. n = 0
        BY <2>5, <3>2
      <4> QED BY <4>1, <3>1, <3>2, <2>3, <1>6
    <3>3. CASE most # 0
      <4>1. n \in 1 .. most
        BY <2>5, <3>3
      <4> QED BY <4>1, <3>1, <1>6
    <3> QED BY <3>2, <3>3
  <2>7. PICK a \in Seq(Cells) : a = SubSeq(inp, 1, n)
    BY <2>6, CutIs
  <2>8. PICK rest \in Seq(Cells) : rest = SubSeq(inp, n + 1, Len(inp))
    BY <2>6, CutIs
  <2>9. Len(a) = n /\ Len(rest) = Len(inp) - n
    BY <2>6, <2>7, <2>8, CutIs
  <2>10. PICK b \in Seq(Cells) : b = f.buf \o a
    BY <1>6, CatIs
  <2>11. Len(b) = Len(f.buf) + n
    BY <2>9, <2>10, <1>6, CatIs
  <2>12. PICK g : g = [h EXCEPT !.buf = b]
    OBVIOUS
  <2>13. g \in FileRecord /\ g.buf = b /\ g.cap = h.cap /\ g.out = f.out /\ g.name = f.name
    BY <2>1, <2>12, FilledIs
  <2>14. files' = [files EXCEPT ![rd] = g]
    BY <2>1, <2>5, <2>7, <2>10, <2>12
  <2>15. Fits(g)
    <3>1. Len(b) <= h.cap
      <4>1. h.cap \in Nat
        BY DEF FileRecord
      <4>2. PICK l \in Nat : l = Len(f.buf)
        BY <1>6
      <4>3. n \in Nat /\ n <= h.cap - l /\ Len(b) = l + n
        BY <4>2, <2>2, <2>6, <2>11
      <4> QED BY <4>1, <4>3
    <3> QED BY <3>1, <2>1, <2>13, <1>6 DEF Fits
  <2>16. FilesFit(files')
    BY <1>2, <2>13, <2>14, <2>15, ReplacedFits
  <2>17. PICK to \in {0, rd} : to = reading'
    BY <2>5
  <2>18. b \o rest = f.buf \o inp
    BY <2>6, <2>7, <2>8, <2>10, <1>6, Moved
  <2>19. ASSUME FirstReader(files, rd)
         PROVE  IF to = rd THEN g.buf \o rest = Stdin ELSE g.buf = <<>> \/ g.buf = Stdin
    <3>1. f.buf \o inp = Stdin
      BY <2>19, <1>2, <1>3, <1>4, <1>5 DEF StdinKept
    <3>2. CASE to = rd
      BY <3>1, <3>2, <2>13, <2>18
    <3>3. CASE to # rd
      <4>1. n = 0
        BY <3>3, <2>5, <2>17
      <4>2. Len(rest) = 0
        BY <4>1, <2>6, <2>9
      <4>3. rest = <<>>
        BY <4>2, EmptyIs
      <4>4. b \o <<>> = b
        BY EmptyIs
      <4>5. b = Stdin
        BY <4>3, <4>4, <3>1, <2>18
      <4> QED BY <4>5, <3>3, <2>13
    <3> QED BY <3>2, <3>3
  <2>20. StdinKept(files, rd, inp) /\ g.out = files[rd].out
    BY <1>2, <1>3, <1>4, <1>5, <2>13
  <2>21. StdinKept([files EXCEPT ![rd] = g], to, rest)
    <3>1. FilesFit(files) /\ g \in FileRecord
      BY <1>2, <2>13
    <3>2. Continues(files, rd, g, to, rest)
      BY <2>19 DEF Continues
    <3> QED BY <3>1, <3>2, <2>20, ReaderKeeps
  <2>22. StdinKept(files', reading', input')
    BY <2>5, <2>8, <2>14, <2>17, <2>21
  <2>23. UNCHANGED <<pending, out, closed, status>>
    BY <1>9
  <2> QED BY <2>16, <2>22, <2>23, <1>1 DEF StdioInv, RUNNING
<1> QED BY <1>3, <1>4, <1>5, <1>7, <1>8, <1>9 DEF SlurpRead, StopsReading

-----------------------------------------------------------------------------
(* What a program and its user may rely on. *)

LEMMA StdioStep ==
    ASSUME StdioAssumption, StdioInv, [StdioNext]_stdioVars
    PROVE  StdioInv'
<1>1. CASE \E name \in FileNames : fopenWrite(name)
  BY <1>1, fopenWriteKeeps
<1>2. CASE fopenRead
  BY <1>2, fopenReadKeeps
<1>3. CASE SlurpRead
  BY <1>3, SlurpReadKeeps
<1>4. CASE SlurpFails
  BY <1>4, SlurpFailsKeeps
<1>5. CASE \E k \in DOMAIN files : fclose(k)
  BY <1>5, fcloseKeeps
<1>6. CASE \E k \in DOMAIN files : \E data \in FilePieces : fwrite(k, data)
  BY <1>6, fwriteKeeps
<1>7. CASE WriteSome
  BY <1>7, WriteSomeKeeps
<1>8. CASE WriteFails
  <2>1. Exits(120) /\ 120 # 0
    BY <1>8 DEF WriteFails
  <2> QED BY <2>1, ExitsKeep
<1>9. CASE Exit
  <2>1. Exits(0) /\ pending = <<>>
    BY <1>9 DEF Exit, Running
  <2> QED BY <2>1, ExitsKeep
<1>10. CASE UNCHANGED stdioVars
  BY <1>10 DEF stdioVars, StdioInv
<1> QED BY <1>1, <1>2, <1>3, <1>4, <1>5, <1>6, <1>7, <1>8, <1>9, <1>10 DEF StdioNext

(***************************************************************************)
(* The inductive invariant: the FILEs and their capacities, stdin and its  *)
(* first reader, the stream and the files that it is made of.              *)
(***************************************************************************)
THEOREM StdioInvariance ==
    ASSUME StdioAssumption
    PROVE  StdioSpec => []StdioInv
<1>1. StdioInit => StdioInv
  BY FirstStdio
<1>2. StdioInv /\ [StdioNext]_stdioVars => StdioInv'
  BY StdioStep
<1> QED BY <1>1, <1>2, PTL DEF StdioSpec

(***************************************************************************)
(* split.py gives every closed file back, the first reader has all of      *)
(* stdin, and no buffer is written past its capacity (fwrite, fclose,      *)
(* fopen, grow, write_all and split.py), whatever the files hold, however  *)
(* the host cuts reads and writes, and wherever it fails.                  *)
(***************************************************************************)
THEOREM StdioKeepsFiles ==
    ASSUME StdioAssumption
    PROVE  StdioSpec => []FilesKept
<1>1. ASSUME StdioInv PROVE SplitGivesFiles
  <2> SUFFICES ASSUME status = 0 PROVE Split(out) = closed
    BY DEF SplitGivesFiles
  <2>1. pending = <<>> /\ StreamKept(out, pending, closed)
    BY <1>1 DEF StdioInv
  <2>2. PICK o \in Seq(Content) : o = out
    BY <2>1 DEF StreamKept
  <2>3. PICK cl \in Seq(ClosedFiles) : cl = closed
    BY <2>1 DEF StreamKept
  <2>4. o \o <<>> = o
    BY EmptyIs
  <2>5. Composed(o, cl)
    BY <2>1, <2>2, <2>3, <2>4 DEF StreamKept
  <2>6. PICK at : LaidOut(o, cl, at)
    BY <2>5 DEF Composed
  <2>7. Split(o) = cl
    BY <2>6, SplitsLaidOut
  <2> QED BY <2>2, <2>3, <2>7
<1>2. StdioInv => ReaderHoldsInput
  BY DEF StdioInv, FilesFit, StdinKept, FirstReader, ReaderHoldsInput
<1>3. StdioInv => BuffersFit
  BY DEF StdioInv, FilesFit, Fits, BuffersFit
<1>4. StdioInv => FilesKept
  BY <1>1, <1>2, <1>3 DEF FilesKept
<1> QED BY <1>4, StdioInvariance, PTL
=============================================================================
