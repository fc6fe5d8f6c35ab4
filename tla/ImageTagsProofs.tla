-------------------------- MODULE ImageTagsProofs ---------------------------
(***************************************************************************)
(* Proofs about ImageTags, for any tokens and any order of them, any       *)
(* number of images, tags and forms, any posts and any limit.              *)
(***************************************************************************)
EXTENDS ImageTags, FiniteSetTheorems, SequenceTheorems, WellFoundedInduction, TLAPS

\* What ParseImageTag makes of a text.
Version == [core : ToSet(Cores), pre : {pre \in Seq(Token) : Len(pre) <= 1}]

Combined == [prefix : Seq(Token), version : Version]
-----------------------------------------------------------------------------
\* The elements of a sequence.
LEMMA ToSetOf ==
  ASSUME NEW S, NEW s \in Seq(S)
  PROVE  /\ DOMAIN s = 1..Len(s) /\ Len(s) \in Nat
         /\ ToSet(s) \subseteq S
         /\ \A i \in 1..Len(s) : s[i] \in ToSet(s)
  BY LenProperties DEF ToSet

\* Two orders without a common element make one order.
LEMMA ConcatOrder ==
  ASSUME NEW S, NEW s \in Seq(S), NEW t \in Seq(S), IsInjective(s), IsInjective(t),
         ToSet(s) \intersect ToSet(t) = {}
  PROVE  /\ s \o t \in Seq(S) /\ IsInjective(s \o t)
         /\ ToSet(s \o t) = ToSet(s) \union ToSet(t)
<1>1. /\ Len(s) \in Nat /\ Len(t) \in Nat /\ DOMAIN s = 1..Len(s) /\ DOMAIN t = 1..Len(t)
  BY LenProperties
<1>2. /\ s \o t \in Seq(S) /\ DOMAIN (s \o t) = 1..(Len(s) + Len(t))
      /\ \A i \in 1..(Len(s) + Len(t)) :
           (s \o t)[i] = IF i <= Len(s) THEN s[i] ELSE t[i - Len(s)]
  BY ConcatProperties, LenProperties
<1>3. PICK u : u = s \o t
  BY Zenon
<1>4. \A i \in 1..Len(s) : i \in DOMAIN u /\ u[i] = s[i]
  BY <1>1, <1>2, <1>3
<1>5. \A i \in 1..Len(t) : Len(s) + i \in DOMAIN u /\ u[Len(s) + i] = t[i]
  BY <1>1, <1>2, <1>3
<1>6. \A i \in DOMAIN u : \/ i \in 1..Len(s) /\ u[i] = s[i]
                          \/ i - Len(s) \in 1..Len(t) /\ u[i] = t[i - Len(s)]
  BY <1>1, <1>2, <1>3
<1>7. ToSet(u) = ToSet(s) \union ToSet(t)
  BY <1>1, <1>4, <1>5, <1>6 DEF ToSet
<1>8. IsInjective(u)
  <2> SUFFICES ASSUME NEW i \in DOMAIN u, NEW j \in DOMAIN u, u[i] = u[j] PROVE i = j
    BY DEF IsInjective
  <2>1. i \in Int /\ j \in Int
    BY <1>1, <1>2, <1>3
  <2>2. CASE i \in 1..Len(s) /\ u[i] = s[i] /\ j \in 1..Len(s) /\ u[j] = s[j]
    BY <1>1, <2>2, Zenon DEF IsInjective
  <2>3. CASE /\ i - Len(s) \in 1..Len(t) /\ u[i] = t[i - Len(s)]
             /\ j - Len(s) \in 1..Len(t) /\ u[j] = t[j - Len(s)]
    <3>1. i - Len(s) = j - Len(s)
      BY <1>1, <2>3, Zenon DEF IsInjective
    <3> QED
      BY <1>1, <2>1, <3>1
  <2>4. ASSUME NEW k \in 1..Len(s), NEW l \in 1..Len(t) PROVE s[k] # t[l]
    BY <1>1, Zenon DEF ToSet
  <2> QED
    BY <1>6, <2>2, <2>3, <2>4
<1> QED
  BY <1>2, <1>3, <1>7, <1>8

\* An order puts two of its elements one way and not the other.
LEMMA BeforeTotal ==
  ASSUME NEW S, NEW o \in Seq(S), IsInjective(o), NEW x \in ToSet(o), NEW y \in ToSet(o)
  PROVE  /\ x # y => (Before(o, x, y) <=> ~Before(o, y, x))
         /\ x = y => ~Before(o, x, y)
<1>1. DOMAIN o = 1..Len(o) /\ Len(o) \in Nat
  BY LenProperties
<1>2. PICK i \in DOMAIN o : o[i] = x
  BY DEF ToSet
<1>3. PICK j \in DOMAIN o : o[j] = y
  BY DEF ToSet
<1>4. \A k, l \in DOMAIN o : o[k] = o[l] => k = l
  BY DEF IsInjective
<1>5. Before(o, x, y) <=> i < j
  BY <1>1, <1>2, <1>3, <1>4 DEF Before
<1>6. Before(o, y, x) <=> j < i
  BY <1>1, <1>2, <1>3, <1>4 DEF Before
<1>7. i \in Int /\ j \in Int
  BY <1>1
<1> QED
  BY <1>2, <1>3, <1>4, <1>5, <1>6, <1>7

\* The two orders of tokens order the same tokens.
LEMMA Orders ==
  /\ Bytes \in Seq(Token) /\ IsInjective(Bytes)
  /\ Cores \in Seq(Token) /\ IsInjective(Cores)
  /\ LET Pre == Cores \o <<"-">> \o Letters
     IN  Pre \in Seq(Token) /\ IsInjective(Pre) /\ ToSet(Pre) = Token
<1> DEFINE H == <<"-">>
           U == {"-"} \union ToSet(Cores) \union ToSet(Letters)
<1>1. H \in Seq(U) /\ IsInjective(H) /\ ToSet(H) = {"-"}
  <2>1. H \in Seq(U) /\ Len(H) = 1 /\ H[1] = "-" /\ DOMAIN H = 1..1
    OBVIOUS
  <2> HIDE DEF H
  <2> QED
    BY <2>1 DEF IsInjective, ToSet
<1>2. Cores \in Seq(U) /\ Letters \in Seq(U)
  BY ConstantsAssumption, SeqMonotonic
<1> HIDE DEF H
<1>3. /\ H \o Cores \in Seq(U) /\ IsInjective(H \o Cores)
      /\ ToSet(H \o Cores) = {"-"} \union ToSet(Cores)
  <2>1. ToSet(H) \intersect ToSet(Cores) = {}
    BY <1>1, ConstantsAssumption
  <2>2. IsInjective(Cores)
    BY ConstantsAssumption
  <2> HIDE DEF U
  <2> QED
    BY <1>1, <1>2, <2>1, <2>2, ConcatOrder
<1>4. /\ (H \o Cores) \o Letters \in Seq(U) /\ IsInjective((H \o Cores) \o Letters)
      /\ ToSet((H \o Cores) \o Letters) = U
  <2>1. ToSet(H \o Cores) \intersect ToSet(Letters) = {}
    BY <1>3, ConstantsAssumption
  <2>2. IsInjective(Letters)
    BY ConstantsAssumption
  <2>3. ToSet(H \o Cores) \union ToSet(Letters) = U
    BY <1>3
  <2> HIDE DEF U
  <2> QED
    <3>1. PICK w : w = H \o Cores
      BY Zenon
    <3>2. w \in Seq(U) /\ IsInjective(w)
      BY <1>3, <3>1
    <3>3. ToSet(w) \intersect ToSet(Letters) = {} /\ ToSet(w) \union ToSet(Letters) = U
      BY <2>1, <2>3, <3>1
    <3>4. /\ w \o Letters \in Seq(U) /\ IsInjective(w \o Letters)
          /\ ToSet(w \o Letters) = ToSet(w) \union ToSet(Letters)
      BY <1>2, <2>2, <3>2, <3>3, ConcatOrder
    <3> QED
      BY <3>1, <3>3, <3>4
<1>5. /\ Cores \o H \in Seq(U) /\ IsInjective(Cores \o H)
      /\ ToSet(Cores \o H) = {"-"} \union ToSet(Cores)
  <2>1. ToSet(Cores) \intersect ToSet(H) = {} /\ ToSet(Cores) \union ToSet(H) = {"-"} \union ToSet(Cores)
    BY <1>1, ConstantsAssumption
  <2>2. IsInjective(Cores)
    BY ConstantsAssumption
  <2> HIDE DEF U
  <2> QED
    BY <1>1, <1>2, <2>1, <2>2, ConcatOrder
<1>6. /\ (Cores \o H) \o Letters \in Seq(U) /\ IsInjective((Cores \o H) \o Letters)
      /\ ToSet((Cores \o H) \o Letters) = U
  <2>1. ToSet(Cores \o H) \intersect ToSet(Letters) = {}
    BY <1>5, ConstantsAssumption
  <2>2. IsInjective(Letters)
    BY ConstantsAssumption
  <2>3. ToSet(Cores \o H) \union ToSet(Letters) = U
    BY <1>5
  <2> HIDE DEF U
  <2> QED
    <3>1. PICK w : w = Cores \o H
      BY Zenon
    <3>2. w \in Seq(U) /\ IsInjective(w)
      BY <1>5, <3>1
    <3>3. ToSet(w) \intersect ToSet(Letters) = {} /\ ToSet(w) \union ToSet(Letters) = U
      BY <2>1, <2>3, <3>1
    <3>4. /\ w \o Letters \in Seq(U) /\ IsInjective(w \o Letters)
          /\ ToSet(w \o Letters) = ToSet(w) \union ToSet(Letters)
      BY <1>2, <2>2, <3>2, <3>3, ConcatOrder
    <3> QED
      BY <3>1, <3>3, <3>4
<1>7. Bytes = (H \o Cores) \o Letters
  BY DEF Bytes, H
<1>8. Token = U
  BY <1>4, <1>7 DEF Token
<1>9. Cores \o <<"-">> \o Letters = (Cores \o H) \o Letters
  BY DEF H
<1> HIDE DEF U
<1> QED
  BY <1>2, <1>4, <1>6, <1>7, <1>8, <1>9, ConstantsAssumption, Zenon
-----------------------------------------------------------------------------
\* A text that is cut in two parses in one way at most.
LEMMA CutOne ==
  ASSUME NEW s, NEW n, NEW v \in Cut(s, n), NEW w \in Cut(s, n)
  PROVE  v = w
  BY Zenon DEF Cut, Parse

\* What concatenation yields, part by part.
LEMMA Joined ==
  ASSUME NEW S, NEW s \in Seq(S), NEW t \in Seq(S)
  PROVE  /\ s \o t \in Seq(S) /\ Len(s \o t) = Len(s) + Len(t)
         /\ \A i \in 1..Len(s) : (s \o t)[i] = s[i]
         /\ \A i \in 1..Len(t) : (s \o t)[Len(s) + i] = t[i]
<1>0. Len(s) \in Nat /\ Len(t) \in Nat
  BY LenProperties
<1>1. /\ s \o t \in Seq(S) /\ Len(s \o t) = Len(s) + Len(t)
      /\ \A i \in 1..(Len(s) + Len(t)) : (s \o t)[i] = IF i <= Len(s) THEN s[i] ELSE t[i - Len(s)]
  BY ConcatProperties
<1>2. ASSUME NEW i \in 1..Len(s) PROVE (s \o t)[i] = s[i]
  <2>1. i \in 1..(Len(s) + Len(t)) /\ i <= Len(s)
    BY <1>0
  <2> QED
    BY <1>1, <2>1
<1>3. ASSUME NEW i \in 1..Len(t) PROVE (s \o t)[Len(s) + i] = t[i]
  <2>1. /\ Len(s) + i \in 1..(Len(s) + Len(t)) /\ ~(Len(s) + i <= Len(s))
        /\ Len(s) + i - Len(s) = i
    BY <1>0
  <2> QED
    BY <1>1, <2>1
<1> QED
  BY <1>1, <1>2, <1>3

LEMMA JoinedThree ==
  ASSUME NEW S, NEW a \in Seq(S), NEW c \in S, NEW d \in S, NEW e \in S,
         NEW n \in Nat, Len(a) = n
  PROVE  LET z == (a \o <<c>>) \o (<<d>> \o <<e>>)
         IN  /\ z \in Seq(S) /\ Len(z) = n + 3
             /\ \A i \in 1..n : z[i] = a[i]
             /\ z[n + 1] = c /\ z[n + 2] = d /\ z[n + 3] = e
<1>1. PICK h : h = <<c>>
  BY Zenon
<1>2. h \in Seq(S) /\ Len(h) = 1 /\ h[1] = c
  BY <1>1
<1>3. PICK y : y = <<d>> \o <<e>>
  BY Zenon
<1>4. y \in Seq(S) /\ Len(y) = 2 /\ y[1] = d /\ y[2] = e
  BY <1>3
<1>5. PICK x : x = a \o h
  BY Zenon
<1>6. /\ x \in Seq(S) /\ Len(x) = n + 1
      /\ \A i \in 1..n : x[i] = a[i]
      /\ x[n + 1] = c
  <2>1. /\ a \o h \in Seq(S) /\ Len(a \o h) = n + 1
        /\ \A i \in 1..n : (a \o h)[i] = a[i]
        /\ \A i \in 1..1 : (a \o h)[n + i] = h[i]
    <3>1. /\ a \o h \in Seq(S) /\ Len(a \o h) = Len(a) + Len(h)
          /\ \A i \in 1..Len(a) : (a \o h)[i] = a[i]
          /\ \A i \in 1..Len(h) : (a \o h)[Len(a) + i] = h[i]
      BY <1>2, Joined
    <3>2. Len(a) = n /\ Len(h) = 1
      BY <1>2
    <3> QED
      BY <3>1, <3>2, Zenon
  <2> QED
    BY <1>2, <1>5, <2>1
<1>7. PICK k \in Nat : k = n + 1
  OBVIOUS
<1>8. Len(x) = k
  BY <1>6, <1>7
<1>9. /\ x \o y \in Seq(S) /\ Len(x \o y) = k + 2
      /\ \A i \in 1..k : (x \o y)[i] = x[i]
      /\ \A i \in 1..2 : (x \o y)[k + i] = y[i]
  <2>s. x \in Seq(S) /\ y \in Seq(S)
    BY <1>4, <1>6
  <2>1. /\ x \o y \in Seq(S) /\ Len(x \o y) = Len(x) + Len(y)
        /\ \A i \in 1..Len(x) : (x \o y)[i] = x[i]
        /\ \A i \in 1..Len(y) : (x \o y)[Len(x) + i] = y[i]
    BY <2>s, Joined
  <2> QED
    BY <1>4, <1>8, <2>1, Zenon
<1>10. PICK z : z = x \o y
  BY Zenon
<1>11. k + 1 = n + 2 /\ k + 2 = n + 3 /\ n + 1 \in 1..k /\ 1..n \subseteq 1..k
  BY <1>7
<1>12. z[n + 2] = d /\ z[n + 3] = e
  <2>1. z[k + 1] = y[1] /\ z[k + 2] = y[2]
    BY <1>9, <1>10
  <2> QED
    BY <1>4, <1>11, <2>1
<1>13. z[n + 1] = c /\ \A i \in 1..n : z[i] = a[i]
  BY <1>6, <1>9, <1>10, <1>11
<1>14. z = (a \o <<c>>) \o (<<d>> \o <<e>>)
  BY <1>1, <1>3, <1>5, <1>10, Zenon
<1> QED
  BY <1>9, <1>10, <1>11, <1>12, <1>13, <1>14, Zenon

\* And the two parts make the text again.
LEMMA CutString ==
  ASSUME NEW s \in Seq(Token), NEW n \in 0..Len(s), NEW v \in Cut(s, n)
  PROVE  v \in Combined /\ String(v) = s
<1> DEFINE r == SubSeq(s, n + 1, Len(s))
           a == SubSeq(s, 1, n)
<1>1. Len(s) \in Nat /\ \A i \in 1..Len(s) : s[i] \in Token
  BY LenProperties, ElementOfSeq
<1>n. n \in Nat
  BY <1>1
<1>2. /\ a \in Seq(Token) /\ Len(a) = n
      /\ \A i \in 1..n : a[i] = s[i]
  <2>1. \A i \in 1..n : s[i] \in Token
    BY <1>1
  <2>2. /\ a \in Seq(Token) /\ Len(a) = IF 1 <= n THEN n - 1 + 1 ELSE 0
        /\ \A i \in 1..(n - 1 + 1) : a[i] = s[1 + i - 1]
    BY <1>1, <2>1, SubSeqProperties
  <2> QED
    BY <1>1, <2>2
<1>3. /\ r \in Seq(Token) /\ Len(r) = Len(s) - n
      /\ \A i \in 1..(Len(s) - n) : r[i] = s[n + i]
  <2>1. \A i \in (n + 1)..Len(s) : s[i] \in Token
    BY <1>1
  <2>2. /\ r \in Seq(Token) /\ Len(r) = IF n + 1 <= Len(s) THEN Len(s) - (n + 1) + 1 ELSE 0
        /\ \A i \in 1..(Len(s) - (n + 1) + 1) : r[i] = s[n + 1 + i - 1]
    BY <1>1, <2>1, SubSeqProperties
  <2> QED
    BY <1>1, <2>2
<1>l. Len(s) = n + Len(r)
  BY <1>1, <1>n, <1>3
<1>4. /\ Len(r) \in {1, 3} /\ r[1] \in ToSet(Cores) /\ (Len(r) = 3 => r[2] = "-")
      /\ v = [prefix |-> a, version |-> [core |-> r[1], pre |-> SubSeq(r, 3, Len(r))]]
  BY DEF Cut, Parse
<1> HIDE DEF r, a
<1>5. PICK pre : pre = SubSeq(r, 3, Len(r))
  BY Zenon
<1>6. v.prefix = a /\ v.version.core = r[1] /\ v.version.pre = pre
  BY <1>4, <1>5
<1>7. CASE Len(r) = 1
  <2>1. pre = <<>>
    BY <1>5, <1>7, SubSeqEmpty
  <2>2. pre \in Seq(Token) /\ Len(pre) = 0
    BY <2>1, EmptySeq
  <2>3. v \in Combined
    BY <1>2, <1>4, <1>5, <2>2 DEF Combined, Version
  <2>4. String(v) = (a \o <<r[1]>>) \o <<>>
    BY <1>6, <2>1 DEF String
  <2>5. r[1] \in Token /\ r[1] = s[n + 1] /\ Len(s) = n + 1
    <3>1. Len(s) = n + 1 /\ Len(s) - n = 1
      BY <1>n, <1>l, <1>7
    <3>2. r[1] = s[n + 1]
      BY <1>3, <3>1
    <3> QED
      BY <1>3, <1>7, <3>1, <3>2, ElementOfSeq
  <2>6. <<r[1]>> \in Seq(Token) /\ Len(<<r[1]>>) = 1 /\ <<r[1]>>[1] = r[1]
    BY <2>5
  <2>7. PICK h : h = <<r[1]>>
    BY Zenon
  <2>8. /\ a \o h \in Seq(Token) /\ Len(a \o h) = n + 1
        /\ \A i \in 1..n : (a \o h)[i] = a[i]
        /\ \A i \in 1..1 : (a \o h)[n + i] = h[i]
    BY <1>n, <1>2, <2>6, <2>7, Joined
  <2>9. \A i \in 1..(n + 1) : (a \o h)[i] = s[i]
    <3>1. (a \o h)[n + 1] = s[n + 1]
      BY <2>5, <2>6, <2>7, <2>8
    <3>2. \A i \in 1..(n + 1) : i \in 1..n \/ i = n + 1
      BY <1>n
    <3> QED
      BY <1>2, <2>8, <3>1, <3>2
  <2>10. a \o h = s
    BY <2>5, <2>8, <2>9, SeqEqual
  <2> QED
    BY <2>3, <2>4, <2>7, <2>8, <2>10, ConcatEmptySeq
<1>8. CASE Len(r) = 3
  <2>1. r[1] \in Token /\ r[2] = "-" /\ "-" \in Token /\ r[3] \in Token
    <3>1. \A i \in 1..3 : r[i] \in Token
      BY <1>3, <1>8, ElementOfSeq, Zenon
    <3>2. r[1] \in Token /\ r[2] \in Token /\ r[3] \in Token
      BY <3>1
    <3> QED
      BY <1>4, <1>8, <3>2
  <2>2. pre = <<r[3]>>
    <3>1. /\ pre \in Seq(Token) /\ Len(pre) = 1 /\ pre[1] = r[3]
      <4>1. \A i \in 3..3 : r[i] \in Token
        BY <2>1
      <4>2. /\ pre \in Seq(Token) /\ Len(pre) = IF 3 <= 3 THEN 3 - 3 + 1 ELSE 0
            /\ \A i \in 1..(3 - 3 + 1) : pre[i] = r[3 + i - 1]
        BY <1>5, <1>8, <4>1, SubSeqProperties
      <4> QED
        BY <4>2
    <3> QED
      BY <3>1, <2>1
  <2>3. pre \in Seq(Token) /\ Len(pre) = 1 /\ pre # <<>>
    BY <2>1, <2>2
  <2>4. v \in Combined
    <3>l. 1 <= 1
      OBVIOUS
    <3>1. pre \in {p \in Seq(Token) : Len(p) <= 1}
      BY <2>3, <3>l, Zenon
    <3> QED
      BY <1>2, <1>4, <1>5, <3>1 DEF Combined, Version
  <2>5. PICK z : z = (a \o <<r[1]>>) \o (<<"-">> \o <<r[3]>>)
    BY Zenon
  <2>6. String(v) = z
    BY <1>6, <2>2, <2>3, <2>5, Zenon DEF String
  <2>7. /\ z \in Seq(Token) /\ Len(z) = n + 3
        /\ \A i \in 1..n : z[i] = a[i]
        /\ z[n + 1] = r[1] /\ z[n + 2] = "-" /\ z[n + 3] = r[3]
    <3>1. a \in Seq(Token) /\ Len(a) = n
      BY <1>2
    <3> QED
      BY <1>n, <2>1, <2>5, <3>1, JoinedThree
  <2>12. Len(s) = n + 3 /\ s[n + 1] = r[1] /\ s[n + 2] = "-" /\ s[n + 3] = r[3]
    <3>1. Len(s) = n + 3 /\ Len(s) - n = 3
      BY <1>n, <1>l, <1>8
    <3>2. \A i \in 1..3 : r[i] = s[n + i]
      BY <1>3, <3>1
    <3>3. r[1] = s[n + 1] /\ r[2] = s[n + 2] /\ r[3] = s[n + 3]
      BY <3>2
    <3> QED
      BY <2>1, <3>1, <3>3
  <2>13. \A i \in 1..(n + 3) : z[i] = s[i]
    <3>1. \A i \in 1..(n + 3) : i \in 1..n \/ i = n + 1 \/ i = n + 2 \/ i = n + 3
      BY <1>n
    <3> QED
      BY <1>2, <2>7, <2>12, <3>1, Zenon
  <2>14. z = s
    BY <2>7, <2>12, <2>13, SeqEqual, Zenon
  <2> QED
    BY <2>4, <2>6, <2>14
<1> QED
  BY <1>4, <1>7, <1>8

\* ParseImageTag takes the text as one cut of it.
LEMMA ParseCut ==
  ASSUME NEW s \in Seq(Token)
  PROVE  ParseImageTag(s) = {} \/ \E n \in 0..Len(s) : ParseImageTag(s) = Cut(s, n)
<1> DEFINE vCut == IF s # <<>> /\ s[1] = "v" THEN Cut(s, 1) ELSE {}
           first == {i \in Hyphens(s) : \A j \in Hyphens(s) : i <= j}
           hyphenCut == UNION {Cut(s, i) : i \in first}
<1>1. Len(s) \in Nat /\ DOMAIN s = 1..Len(s)
  BY LenProperties
<1>2. \/ ParseImageTag(s) = Cut(s, 0)
      \/ ParseImageTag(s) = vCut /\ vCut # {}
      \/ ParseImageTag(s) = hyphenCut
  BY Zenon DEF ParseImageTag
<1>3. CASE ParseImageTag(s) = vCut /\ vCut # {}
  <2>1. s # <<>> /\ vCut = Cut(s, 1)
    BY <1>3
  <2>2. 1 \in 0..Len(s)
    BY <1>1, <2>1, EmptySeq
  <2> QED
    BY <1>3, <2>1, <2>2
<1>4. CASE ParseImageTag(s) = hyphenCut
  <2>1. CASE first = {}
    BY <1>4, <2>1
  <2>2. CASE first # {}
    <3>1. PICK i : i \in first
      BY <2>2
    <3>2. i \in 0..Len(s) /\ \A j \in first : j = i
      BY <1>1, <3>1 DEF Hyphens
    <3>3. hyphenCut = Cut(s, i)
      BY <3>1, <3>2
    <3> QED
      BY <1>4, <3>2, <3>3
  <2> QED
    BY <2>1, <2>2
<1> QED
  BY <1>1, <1>2, <1>3, <1>4

\* So a text parses in one way at most, which is written as the text.
LEMMA ParseOne ==
  ASSUME NEW s \in Seq(Token), NEW v \in ParseImageTag(s)
  PROVE  /\ v \in Combined /\ String(v) = s
         /\ \A w \in ParseImageTag(s) : w = v
<1>1. PICK n \in 0..Len(s) : ParseImageTag(s) = Cut(s, n)
  BY ParseCut
<1> QED
  BY <1>1, CutOne, CutString
-----------------------------------------------------------------------------
\* Two sequences begin with the same k elements.
LEMMA Agree ==
  ASSUME NEW S, NEW s \in Seq(S), NEW t \in Seq(S), NEW k \in Nat, k <= Len(s), k <= Len(t)
  PROVE  SubSeq(s, 1, k) = SubSeq(t, 1, k) <=> \A i \in 1..k : s[i] = t[i]
<1>1. /\ Len(s) \in Nat /\ \A i \in 1..Len(s) : s[i] \in S
      /\ Len(t) \in Nat /\ \A i \in 1..Len(t) : t[i] \in S
  BY LenProperties, ElementOfSeq
<1>2. ASSUME NEW u \in Seq(S), k <= Len(u), Len(u) \in Nat, \A i \in 1..Len(u) : u[i] \in S
      PROVE  /\ SubSeq(u, 1, k) \in Seq(S) /\ Len(SubSeq(u, 1, k)) = k
             /\ \A i \in 1..k : SubSeq(u, 1, k)[i] = u[i]
  <2>1. \A i \in 1..k : u[i] \in S
    BY <1>2
  <2>2. /\ SubSeq(u, 1, k) \in Seq(S)
        /\ Len(SubSeq(u, 1, k)) = IF 1 <= k THEN k - 1 + 1 ELSE 0
        /\ \A i \in 1..(k - 1 + 1) : SubSeq(u, 1, k)[i] = u[1 + i - 1]
    BY <1>2, <2>1, SubSeqProperties
  <2> QED
    BY <2>2
<1>3. PICK a, b : a = SubSeq(s, 1, k) /\ b = SubSeq(t, 1, k)
  BY Zenon
<1>4. /\ a \in Seq(S) /\ Len(a) = k /\ \A i \in 1..k : a[i] = s[i]
      /\ b \in Seq(S) /\ Len(b) = k /\ \A i \in 1..k : b[i] = t[i]
  BY <1>1, <1>2, <1>3
<1>5. (\A i \in 1..k : a[i] = b[i]) => a = b
  BY <1>4, SeqEqual, Zenon
<1> QED
  BY <1>3, <1>4, <1>5, Zenon

\* The first place where two texts differ, the end of one of them included.
FirstDifference(s, t, k) ==
  /\ k \in Nat \ {0} /\ k <= Len(s) + 1 /\ k <= Len(t) + 1
  /\ \A i \in 1..(k - 1) : s[i] = t[i]
  /\ k <= Len(s) /\ k <= Len(t) => s[k] # t[k]

LEMMA HasFirstDifference ==
  ASSUME NEW s \in Seq(Token), NEW t \in Seq(Token)
  PROVE  \E k : FirstDifference(s, t, k)
<1> DEFINE K == {k \in Nat : k > 0 /\ (k > Len(s) \/ k > Len(t) \/ s[k] # t[k])}
<1>1. Len(s) \in Nat /\ Len(t) \in Nat
  BY LenProperties
<1>2. Len(s) + 1 \in K /\ Len(t) + 1 \in K
  BY <1>1
<1>3. PICK k \in K : \A l \in K : ~ (<<l, k>> \in OpToRel(<, Nat))
  <2>1. K \subseteq Nat /\ K # {}
    BY <1>2
  <2> HIDE DEF K
  <2> QED
    BY <2>1, WFMin, NatLessThanWellFounded, Zenon
<1>4. \A l \in K : ~ (l < k)
  BY <1>3, Zenon DEF OpToRel
<1>5. k <= Len(s) + 1 /\ k <= Len(t) + 1 /\ k \in Nat \ {0}
  BY <1>1, <1>2, <1>4
<1>6. \A i \in 1..(k - 1) : s[i] = t[i]
  <2> TAKE i \in 1..(k - 1)
  <2>1. i < k /\ i \in Nat /\ i > 0
    BY <1>5
  <2>2. i \notin K
    BY <1>4, <2>1
  <2> QED
    BY <2>1, <2>2
<1>7. k <= Len(s) /\ k <= Len(t) => s[k] # t[k]
  <2>1. k > Len(s) \/ k > Len(t) \/ s[k] # t[k]
    BY <1>3, Zenon
  <2>2. ASSUME NEW m \in Nat, NEW l \in Nat, m > l, m <= l PROVE FALSE
    BY <2>2
  <2> QED
    BY <1>1, <1>5, <2>1, <2>2
<1> QED
  BY <1>5, <1>6, <1>7 DEF FirstDifference

\* It decides which of the texts is less.
LEMMA StringLessMeans ==
  ASSUME NEW s \in Seq(Token), NEW t \in Seq(Token), NEW k, FirstDifference(s, t, k)
  PROVE  StringLess(s, t) <=> /\ k <= Len(t)
                              /\ k <= Len(s) => Before(Bytes, s[k], t[k])
<1>1. /\ Len(s) \in Nat /\ DOMAIN s = 1..Len(s) /\ Len(t) \in Nat /\ DOMAIN t = 1..Len(t)
  BY LenProperties
<1>2. /\ k \in Nat \ {0} /\ k <= Len(s) + 1 /\ k <= Len(t) + 1
      /\ \A i \in 1..(k - 1) : s[i] = t[i]
      /\ k <= Len(s) /\ k <= Len(t) => s[k] # t[k]
  BY DEF FirstDifference
<1>3. ASSUME NEW l \in Nat, l <= Len(s), l <= Len(t)
      PROVE  SubSeq(s, 1, l) = SubSeq(t, 1, l) <=> \A i \in 1..l : s[i] = t[i]
  BY <1>3, Agree
<1>4. IsStrictPrefix(s, t) <=> k = Len(s) + 1 /\ k <= Len(t)
  <2>1. ASSUME IsStrictPrefix(s, t) PROVE k = Len(s) + 1 /\ k <= Len(t)
    <3>1. Len(s) <= Len(t) /\ s # t /\ SubSeq(s, 1, Len(s)) = SubSeq(t, 1, Len(s))
      BY <2>1 DEF IsStrictPrefix, IsPrefix
    <3>2. \A i \in 1..Len(s) : s[i] = t[i]
      BY <1>1, <1>3, <3>1
    <3>3. Len(s) # Len(t)
      BY <3>1, <3>2, SeqEqual
    <3>4. ~(k <= Len(s))
      <4> SUFFICES ASSUME k <= Len(s) PROVE FALSE
        OBVIOUS
      <4>1. k \in 1..Len(s) /\ k <= Len(t)
        BY <1>1, <1>2, <3>1
      <4> QED
        BY <1>2, <3>2, <4>1
    <3>5. ASSUME NEW m \in Nat, NEW l \in Nat, m <= l, m # l, ~(k <= m), k <= m + 1
          PROVE  k = m + 1 /\ k <= l
      BY <1>2, <3>5
    <3> QED
      BY <1>1, <1>2, <3>1, <3>3, <3>4, <3>5, Zenon
  <2>2. ASSUME k = Len(s) + 1, k <= Len(t) PROVE IsStrictPrefix(s, t)
    <3>0. ASSUME NEW m \in Nat, NEW l \in Nat, k = m + 1, k <= l
          PROVE  m <= l /\ m # l /\ k - 1 = m
      BY <3>0
    <3>1. Len(s) <= Len(t) /\ Len(s) # Len(t) /\ k - 1 = Len(s)
      BY <1>1, <2>2, <3>0, Zenon
    <3>2. \A i \in 1..Len(s) : s[i] = t[i]
      BY <1>2, <3>1
    <3>3. SubSeq(s, 1, Len(s)) = SubSeq(t, 1, Len(s))
      <4>1. Len(s) \in Nat /\ Len(s) <= Len(s)
        BY <1>1
      <4>2. Len(s) <= Len(t)
        BY <3>1
      <4> QED
        BY <1>3, <4>1, <4>2, <3>2, Zenon
    <3> QED
      BY <3>1, <3>3 DEF IsStrictPrefix, IsPrefix
  <2> QED
    BY <2>1, <2>2
<1>5. ASSUME NEW l \in DOMAIN s \intersect DOMAIN t
      PROVE  SubSeq(s, 1, l - 1) = SubSeq(t, 1, l - 1) /\ Before(Bytes, s[l], t[l])
               <=> l = k /\ Before(Bytes, s[l], t[l])
  <2>1. l \in Nat /\ l - 1 \in Nat /\ 1 <= l /\ l <= Len(s) /\ l <= Len(t)
    BY <1>1, <1>5
  <2>2. SubSeq(s, 1, l - 1) = SubSeq(t, 1, l - 1) <=> \A i \in 1..(l - 1) : s[i] = t[i]
    <3>1. l - 1 <= Len(s) /\ l - 1 <= Len(t)
      BY <1>1, <2>1
    <3> QED
      BY <1>3, <2>1, <3>1
  <2>3. CASE l = k
    BY <1>2, <2>2, <2>3
  <2>4. CASE l < k
    <3>1. s[l] = t[l] /\ s[l] \in Token
      BY <1>2, <2>1, <2>4, ElementOfSeq
    <3>2. ~Before(Bytes, s[l], t[l])
      BY <3>1, Orders, BeforeTotal DEF Token
    <3> QED
      BY <2>1, <2>4, <3>2
  <2>5. CASE l > k
    <3>1. k \in 1..(l - 1) /\ s[k] # t[k]
      BY <1>1, <1>2, <2>1, <2>5
    <3> QED
      BY <1>2, <2>1, <2>2, <2>5, <3>1
  <2> QED
    BY <1>2, <2>1, <2>3, <2>4, <2>5
<1>6. StringLess(s, t) <=> \/ k = Len(s) + 1 /\ k <= Len(t)
                           \/ k \in DOMAIN s \intersect DOMAIN t /\ Before(Bytes, s[k], t[k])
  BY <1>4, <1>5 DEF StringLess
<1> QED
  BY <1>1, <1>2, <1>6

\* Of two different texts one is less.
LEMMA StringLessTotal ==
  ASSUME NEW s \in Seq(Token), NEW t \in Seq(Token), s # t
  PROVE  StringLess(s, t) <=> ~StringLess(t, s)
<1>1. PICK k : FirstDifference(s, t, k)
  BY HasFirstDifference
<1>2. FirstDifference(t, s, k)
  BY <1>1, Zenon DEF FirstDifference
<1>3. /\ Len(s) \in Nat /\ Len(t) \in Nat /\ k \in Nat \ {0}
      /\ k <= Len(s) + 1 /\ k <= Len(t) + 1
      /\ \A i \in 1..(k - 1) : s[i] = t[i]
      /\ k <= Len(s) /\ k <= Len(t) => s[k] # t[k]
  BY <1>1, LenProperties DEF FirstDifference
<1>4. /\ StringLess(s, t) <=> k <= Len(t) /\ (k <= Len(s) => Before(Bytes, s[k], t[k]))
      /\ StringLess(t, s) <=> k <= Len(s) /\ (k <= Len(t) => Before(Bytes, t[k], s[k]))
  BY <1>1, <1>2, StringLessMeans
<1>5. k <= Len(s) \/ k <= Len(t)
  <2> SUFFICES ASSUME k = Len(s) + 1, k = Len(t) + 1 PROVE FALSE
    BY <1>3
  <2>1. Len(s) = Len(t) /\ \A i \in 1..Len(s) : s[i] = t[i]
    BY <1>3
  <2> QED
    BY <2>1, SeqEqual
<1>6. CASE k <= Len(s) /\ k <= Len(t)
  <2>1. s[k] \in Token /\ t[k] \in Token /\ s[k] # t[k]
    BY <1>3, <1>6, ElementOfSeq
  <2>2. Before(Bytes, s[k], t[k]) <=> ~Before(Bytes, t[k], s[k])
    BY <2>1, Orders, BeforeTotal DEF Token
  <2> QED
    BY <1>4, <1>6, <2>2
<1> QED
  BY <1>3, <1>4, <1>5, <1>6

\* No text is less than itself.
LEMMA StringLessIrreflexive ==
  ASSUME NEW s \in Seq(Token)
  PROVE  ~StringLess(s, s)
<1>1. PICK k : FirstDifference(s, s, k)
  BY HasFirstDifference
<1>2. ~(k <= Len(s))
  BY <1>1, Zenon DEF FirstDifference
<1> QED
  BY <1>1, <1>2, StringLessMeans

\* Of two different versions one is less.
LEMMA CompareTotal ==
  ASSUME NEW v \in Version, NEW w \in Version, v # w
  PROVE  Compare(v, w) <=> ~Compare(w, v)
<1> DEFINE Pre == Cores \o <<"-">> \o Letters
<1>1. /\ v.core \in ToSet(Cores) /\ v.pre \in Seq(Token) /\ Len(v.pre) <= 1
      /\ w.core \in ToSet(Cores) /\ w.pre \in Seq(Token) /\ Len(w.pre) <= 1
      /\ v.core # w.core \/ v.pre # w.pre
  BY DEF Version
<1>2. Pre \in Seq(Token) /\ IsInjective(Pre) /\ ToSet(Pre) = Token
  BY Orders
<1>3. /\ Compare(v, w) <=>
           \/ Before(Cores, v.core, w.core)
           \/ /\ v.core = w.core
              /\ \/ v.pre # <<>> /\ w.pre = <<>>
                 \/ v.pre # <<>> /\ w.pre # <<>> /\ Before(Pre, v.pre[1], w.pre[1])
      /\ Compare(w, v) <=>
           \/ Before(Cores, w.core, v.core)
           \/ /\ w.core = v.core
              /\ \/ w.pre # <<>> /\ v.pre = <<>>
                 \/ w.pre # <<>> /\ v.pre # <<>> /\ Before(Pre, w.pre[1], v.pre[1])
  BY Zenon DEF Compare
<1> HIDE DEF Pre
<1>4. CASE v.core # w.core
  <2>1. Before(Cores, v.core, w.core) <=> ~Before(Cores, w.core, v.core)
    BY <1>1, <1>4, Orders, BeforeTotal
  <2> QED
    BY <1>3, <1>4, <2>1, Zenon
<1>5. CASE v.core = w.core
  <2>1. ~Before(Cores, v.core, w.core) /\ ~Before(Cores, w.core, v.core)
    BY <1>1, <1>5, Orders, BeforeTotal
  <2>2. v.pre # w.pre
    BY <1>1, <1>5
  <2>3. CASE v.pre = <<>> \/ w.pre = <<>>
    BY <1>3, <1>5, <2>1, <2>2, <2>3, Zenon
  <2>4. CASE v.pre # <<>> /\ w.pre # <<>>
    <3>1. Len(v.pre) = 1 /\ Len(w.pre) = 1
      <4>1. ASSUME NEW s \in Seq(Token), Len(s) <= 1, s # <<>> PROVE Len(s) = 1
        <5>1. Len(s) \in Nat /\ Len(s) # 0
          BY <4>1, EmptySeq, LenProperties
        <5>2. ASSUME NEW m \in Nat, m # 0, m <= 1 PROVE m = 1
          BY <5>2
        <5> QED
          BY <4>1, <5>1, <5>2, Zenon
      <4> QED
        BY <1>1, <2>4, <4>1, Zenon
    <3>2. v.pre[1] \in Token /\ w.pre[1] \in Token
      BY <1>1, <3>1, ElementOfSeq
    <3>3. v.pre[1] # w.pre[1]
      <4> SUFFICES ASSUME v.pre[1] = w.pre[1] PROVE FALSE
        OBVIOUS
      <4>1. \A i \in 1..1 : v.pre[i] = w.pre[i]
        OBVIOUS
      <4> QED
        BY <1>1, <2>2, <3>1, <4>1, SeqEqual, Zenon
    <3>4. Before(Pre, v.pre[1], w.pre[1]) <=> ~Before(Pre, w.pre[1], v.pre[1])
      BY <1>2, <3>2, <3>3, BeforeTotal
    <3> QED
      BY <1>3, <1>5, <2>1, <2>4, <3>4, Zenon
  <2> QED
    BY <2>3, <2>4
<1> QED
  BY <1>4, <1>5

\* Of two different tags one is less, and none is less than itself.
LEMMA LessTotal ==
  ASSUME NEW v \in Combined, NEW w \in Combined
  PROVE  /\ v # w => (Less(v, w) <=> ~Less(w, v))
         /\ ~Less(v, v)
<1>1. /\ v.prefix \in Seq(Token) /\ v.version \in Version
      /\ w.prefix \in Seq(Token) /\ w.version \in Version
      /\ v # w => v.prefix # w.prefix \/ v.version # w.version
  BY DEF Combined
<1>2. ~Less(v, v)
  BY <1>1, StringLessIrreflexive DEF Less
<1>3. CASE v.version # w.version
  <2>1. Compare(v.version, w.version) <=> ~Compare(w.version, v.version)
    BY <1>1, <1>3, CompareTotal
  <2> QED
    BY <1>2, <1>3, <2>1 DEF Less
<1>4. CASE v.version = w.version /\ v # w
  <2>1. StringLess(v.prefix, w.prefix) <=> ~StringLess(w.prefix, v.prefix)
    BY <1>1, <1>4, StringLessTotal
  <2> QED
    BY <1>2, <1>4, <2>1 DEF Less
<1> QED
  BY <1>2, <1>3, <1>4

\* The texts that parse.
Parses(t) == t \in Seq(Token) /\ ParseImageTag(t) # {}

Parsed(t) == CHOOSE v \in ParseImageTag(t) : TRUE

LEMMA ParsedOf ==
  ASSUME NEW t, Parses(t)
  PROVE  ParseImageTag(t) = {Parsed(t)} /\ Parsed(t) \in Combined /\ String(Parsed(t)) = t
<1>1. t \in Seq(Token) /\ Parsed(t) \in ParseImageTag(t)
  BY DEF Parses, Parsed
<1> QED
  BY <1>1, ParseOne

\* Of two different tags that parse one is later, and none is later than itself.
LEMMA LaterTotal ==
  ASSUME NEW t, NEW u, Parses(t), Parses(u)
  PROVE  /\ t # u => (Later(t, u) <=> ~Later(u, t))
         /\ ~Later(t, t)
         /\ Later(u, t) <=> Less(Parsed(t), Parsed(u))
<1>1. PICK v, w : v = Parsed(t) /\ w = Parsed(u)
  OBVIOUS
<1>2. /\ ParseImageTag(t) = {v} /\ v \in Combined /\ String(v) = t
      /\ ParseImageTag(u) = {w} /\ w \in Combined /\ String(w) = u
  BY <1>1, ParsedOf
<1>3. /\ Later(t, u) <=> Less(w, v)
      /\ Later(u, t) <=> Less(v, w)
      /\ Later(t, t) <=> Less(v, v)
  BY <1>2 DEF Later
<1>4. t # u => v # w
  BY <1>2
<1> QED
  BY <1>1, <1>2, <1>3, <1>4, LessTotal
-----------------------------------------------------------------------------
(***************************************************************************)
(* The registry lists finitely many texts for each image.                  *)
(***************************************************************************)
RegistryOK == registry \in [Names -> {T \in SUBSET Seq(Token) : IsFiniteSet(T)}]

LEMMA InitRegistry == Init => RegistryOK
<1>1. \A tags \in Pushed : tags \subseteq Seq(Token) /\ IsFiniteSet(tags)
  BY ConstantsAssumption
<1> QED
  BY <1>1 DEF Init, RegistryOK

LEMMA NextRegistry ==
  ASSUME RegistryOK, [Next]_vars
  PROVE  RegistryOK'
<1>1. CASE UNCHANGED registry
  BY <1>1 DEF RegistryOK
<1>2. ASSUME NEW n \in Names, Push(n) PROVE RegistryOK'
  <2>1. PICK t \in Texts : registry' = [registry EXCEPT ![n] = @ \union {t}]
    BY <1>2, Zenon DEF Push
  <2>2. t \in Seq(Token)
    BY ConstantsAssumption
  <2>3. registry[n] \subseteq Seq(Token) /\ IsFiniteSet(registry[n])
    BY DEF RegistryOK
  <2>4. IsFiniteSet(registry[n] \union {t})
    BY <2>3, FS_AddElement, Zenon
  <2> QED
    BY <2>1, <2>2, <2>3, <2>4 DEF RegistryOK
<1>3. ASSUME NEW n \in Names, Delete(n) PROVE RegistryOK'
  <2>1. PICK t \in registry[n] : registry' = [registry EXCEPT ![n] = @ \ {t}]
    BY <1>3, Zenon DEF Delete
  <2>3. registry[n] \subseteq Seq(Token) /\ IsFiniteSet(registry[n])
    BY DEF RegistryOK
  <2>4. IsFiniteSet(registry[n] \ {t})
    BY <2>3, FS_RemoveElement
  <2> QED
    BY <2>1, <2>3, <2>4 DEF RegistryOK
<1>4. UNCHANGED registry \/ \E n \in Names : Push(n) \/ Delete(n)
  BY Zenon DEF Next, vars, showPodsForm, BadPost, getImageTags
<1> QED
  BY <1>1, <1>2, <1>3, <1>4

LEMMA AlwaysRegistry == Spec => []RegistryOK
  BY InitRegistry, NextRegistry, PTL DEF Spec

(***************************************************************************)
(* Whatever is pushed and deleted, a tag that parses is written again as   *)
(* it was read (ParseImageTag, String).                                    *)
(***************************************************************************)
THEOREM TagsReadBack == Spec => []ReadsBack
<1>1. RegistryOK => ReadsBack
  BY ParseOne DEF RegistryOK, ReadsBack
<1> QED
  BY <1>1, AlwaysRegistry, PTL

(***************************************************************************)
(* Whatever is pushed and deleted, two tags of an image that parse are     *)
(* ordered one way and not the other (Less, Compare, < of strings).        *)
(***************************************************************************)
THEOREM TagsOrdered == Spec => []OneOrder
<1>1. RegistryOK => OneOrder
  <2> SUFFICES ASSUME RegistryOK, NEW n \in Names, NEW t \in registry[n], NEW u \in registry[n],
                      t # u, ParseImageTag(t) # {}, ParseImageTag(u) # {}
               PROVE  Later(t, u) # Later(u, t)
    BY DEF OneOrder
  <2>1. Parses(t) /\ Parses(u)
    BY DEF RegistryOK, Parses
  <2>2. Later(t, u) \in BOOLEAN /\ Later(u, t) \in BOOLEAN
    BY DEF Later
  <2> QED
    BY <2>1, <2>2, LaterTotal
<1> QED
  BY <1>1, AlwaysRegistry, PTL
-----------------------------------------------------------------------------
(***************************************************************************)
(* Sorting. The list l has each tag of V once, earlier versions first.     *)
(***************************************************************************)
Versions(seen) == {t \in seen : ParseImageTag(t) # {}}

Ranking(l, V) ==
  LET N == Cardinality(V)
  IN  /\ N \in Nat /\ l \in Seq(V) /\ Len(l) = N /\ l \in [1..N -> V]
      /\ \A i, j \in 1..N : l[i] = l[j] => i = j
      /\ \A t \in V : \E i \in 1..N : l[i] = t
      /\ \A i, j \in 1..N : Later(l[j], l[i]) <=> i < j

LEMMA Sorted ==
  ASSUME NEW seen, seen \subseteq Seq(Token), IsFiniteSet(seen),
         NEW q \in SortCombinedVersions(seen)
  PROVE  Ranking(CombinedVersionsToStrings(q), Versions(seen))
<1> DEFINE V == Versions(seen)
           N == Cardinality(V)
           l == CombinedVersionsToStrings(q)
<1>1. V \subseteq seen /\ \A t \in V : Parses(t)
  BY DEF Versions, Parses
<1>2. IsFiniteSet(V) /\ N \in Nat /\ Cardinality(1..N) = N
  <2>1. IsFiniteSet(V) /\ N \in Nat
    BY <1>1, FS_Subset, FS_CardinalityType
  <2> HIDE DEF N
  <2>2. N > 0 \/ N = 0
    BY <2>1
  <2>3. Cardinality(1..N) = IF 1 > N THEN 0 ELSE N - 1 + 1
    BY <2>1, FS_Interval
  <2>4. Cardinality(1..N) = N
    BY <2>1, <2>2, <2>3
  <2> QED
    BY <2>1, <2>4
<1>3. PICK p \in SetToSeqs(V) :
        /\ q = [i \in DOMAIN p |-> Parsed(p[i])]
        /\ \A i, j \in DOMAIN q : i < j => ~Less(q[j], q[i])
  BY Zenon DEF SortCombinedVersions, Versions, Parsed
<1>4. p \in [1..N -> V] /\ \A i, j \in 1..N : i # j => p[i] # p[j]
  BY <1>3 DEF SetToSeqs
<1> HIDE DEF N, V
<1>5. \A i \in 1..N : q[i] = Parsed(p[i]) /\ String(q[i]) = p[i]
  <2> TAKE i \in 1..N
  <2>1. p[i] \in V /\ DOMAIN p = 1..N
    BY <1>4
  <2>2. q[i] = Parsed(p[i])
    BY <1>3, <2>1
  <2> QED
    BY <1>1, <2>1, <2>2, ParsedOf
<1>6. DOMAIN q = 1..N
  BY <1>3, <1>4
<1>7. l = p
  BY <1>4, <1>5, <1>6 DEF CombinedVersionsToStrings
<1>8. p \in Seq(V) /\ Len(p) = N
  BY <1>2, <1>4
<1>9. \A t \in V : \E i \in 1..N : p[i] = t
  <2>1. p \in Injection(1..N, V)
    BY <1>4 DEF Injection, IsInjective
  <2>2. p \in Surjection(1..N, V)
    BY <1>2, <2>1, FS_Injection DEF N
  <2> QED
    BY <2>2 DEF Surjection
<1>10. ASSUME NEW i \in 1..N, NEW j \in 1..N PROVE Later(p[j], p[i]) <=> i < j
  <2>1. Parses(p[i]) /\ Parses(p[j])
    BY <1>1, <1>4
  <2>2. Later(p[j], p[i]) <=> Less(q[i], q[j])
    BY <1>5, <2>1, LaterTotal
  <2>3. Later(p[i], p[j]) <=> Less(q[j], q[i])
    BY <1>5, <2>1, LaterTotal
  <2>4. i < j => ~Less(q[j], q[i])
    BY <1>3, <1>6
  <2>5. j < i => ~Less(q[i], q[j])
    BY <1>3, <1>6
  <2>6. i = j => ~Later(p[j], p[i])
    BY <2>1, LaterTotal
  <2>7. i # j => (Later(p[j], p[i]) <=> ~Later(p[i], p[j]))
    BY <1>4, <2>1, LaterTotal
  <2>8. i < j \/ j < i \/ i = j
    OBVIOUS
  <2>9. i < j => i # j /\ ~(j < i)
    OBVIOUS
  <2> QED
    BY <2>2, <2>3, <2>4, <2>5, <2>6, <2>7, <2>8, <2>9
<1> QED
  BY <1>2, <1>4, <1>7, <1>8, <1>9, <1>10 DEF Ranking, N, V
-----------------------------------------------------------------------------
(***************************************************************************)
(* Searching, slicing, turning around and limiting.                        *)
(***************************************************************************)
LEMMA Slice ==
  ASSUME NEW S, NEW s \in Seq(S), NEW a \in Nat, NEW b \in Nat, a <= b, b <= Len(s)
  PROVE  LET w == SubSeq(s, a + 1, b)
         IN  w \in Seq(S) /\ Len(w) = b - a /\ \A i \in 1..(b - a) : w[i] = s[a + i]
<1>1. Len(s) \in Nat /\ \A i \in 1..Len(s) : s[i] \in S
  BY LenProperties, ElementOfSeq
<1>2. \A i \in (a + 1)..b : s[i] \in S
  BY <1>1
<1>3. PICK w : w = SubSeq(s, a + 1, b)
  BY Zenon
<1>4. /\ w \in Seq(S) /\ Len(w) = IF a + 1 <= b THEN b - (a + 1) + 1 ELSE 0
      /\ \A i \in 1..(b - (a + 1) + 1) : w[i] = s[a + 1 + i - 1]
  BY <1>2, <1>3, SubSeqProperties
<1>5. b - (a + 1) + 1 = b - a /\ (IF a + 1 <= b THEN b - (a + 1) + 1 ELSE 0) = b - a
  OBVIOUS
<1>6. \A i \in 1..(b - a) : a + 1 + i - 1 = a + i
  OBVIOUS
<1> QED
  BY <1>3, <1>4, <1>5, <1>6

LEMMA Search ==
  ASSUME NEW V, NEW l, Ranking(l, V), NEW tag
  PROVE  LET k == SearchCombinedVersions(l, tag)
         IN  /\ tag \in V => k \in 1..Cardinality(V) /\ l[k] = tag
             /\ tag \notin V => k = 0
<1> DEFINE N == Cardinality(V)
           I == {i \in 1..N : l[i] = tag}
<1>1. /\ N \in Nat /\ Len(l) = N /\ l \in [1..N -> V]
      /\ \A i, j \in 1..N : l[i] = l[j] => i = j
      /\ \A t \in V : \E i \in 1..N : l[i] = t
  BY DEF Ranking
<1>2. SearchCombinedVersions(l, tag) = IF I # {} THEN Min(I) ELSE 0
  BY <1>1 DEF SearchCombinedVersions, SelectInSeq
<1> HIDE DEF N
<1>3. CASE tag \in V
  <2>1. PICK i \in 1..N : l[i] = tag
    BY <1>1, <1>3
  <2>2. \A j \in I : j = i
    BY <1>1, <2>1
  <2>3. i \in I /\ I = {i} /\ i \in Nat
    BY <1>1, <2>1, <2>2
  <2>4. Min({i}) = i
    BY <2>3 DEF Min
  <2> QED
    BY <1>2, <1>3, <2>1, <2>3, <2>4 DEF N
<1>4. CASE tag \notin V
  <2>1. I = {}
    BY <1>1, <1>4
  <2> QED
    BY <1>2, <1>4, <2>1
<1> QED
  BY <1>3, <1>4

(***************************************************************************)
(* The m tags in c are those that a form may offer, the nearest first.     *)
(***************************************************************************)
Candidates(action, V, tag, m, c) ==
  /\ m \in Nat /\ c \in Seq(V) /\ Len(c) = m
  /\ \A i, j \in 1..m : c[i] = c[j] => i = j
  /\ \A i, j \in 1..m : Onward(action, c[j], c[i]) <=> i < j
  /\ \A u \in V : (\E i \in 1..m : c[i] = u) <=> (tag \in V => Onward(action, u, tag))

LEMMA UpgradeCandidates ==
  ASSUME NEW V, NEW l, Ranking(l, V), NEW tag
  PROVE  \E m : Candidates("upgrade", V, tag, m,
                           SubSeq(l, SearchCombinedVersions(l, tag) + 1, Len(l)))
<1> DEFINE N == Cardinality(V)
<1>1. /\ N \in Nat /\ l \in Seq(V) /\ Len(l) = N
      /\ \A i, j \in 1..N : l[i] = l[j] => i = j
      /\ \A t \in V : \E i \in 1..N : l[i] = t
      /\ \A i, j \in 1..N : Later(l[j], l[i]) <=> i < j
  BY DEF Ranking
<1>2. PICK k : k = SearchCombinedVersions(l, tag)
  OBVIOUS
<1>3. /\ tag \in V => k \in 1..N /\ l[k] = tag
      /\ tag \notin V => k = 0
  BY <1>2, Search
<1> HIDE DEF N
<1>4. k \in Nat /\ k <= N
  BY <1>1, <1>3
<1>5. PICK c : c = SubSeq(l, k + 1, N)
  BY Zenon
<1>6. PICK m : m = N - k
  OBVIOUS
<1>7. m \in Nat /\ \A i \in 1..m : k + i \in 1..N
  BY <1>1, <1>4, <1>6
<1>8. c \in Seq(V) /\ Len(c) = m /\ \A i \in 1..m : c[i] = l[k + i]
  <2>1. N <= Len(l)
    BY <1>1
  <2> QED
    <3>1. c \in Seq(V) /\ Len(c) = N - k /\ \A i \in 1..(N - k) : c[i] = l[k + i]
      BY <1>1, <1>4, <1>5, <2>1, Slice
    <3> QED
      BY <1>6, <3>1, Zenon
<1>9. ASSUME NEW i \in 1..m, NEW j \in 1..m
      PROVE  /\ c[i] = c[j] => i = j
             /\ Onward("upgrade", c[j], c[i]) <=> i < j
  <2>1. k + i \in 1..N /\ k + j \in 1..N /\ c[i] = l[k + i] /\ c[j] = l[k + j]
    BY <1>7, <1>8
  <2>2. (k + i = k + j => i = j) /\ (k + i < k + j <=> i < j)
    BY <1>4, <1>7
  <2>3. Onward("upgrade", c[j], c[i]) <=> Later(c[j], c[i])
    BY DEF Onward
  <2> QED
    BY <1>1, <2>1, <2>2, <2>3
<1>10. ASSUME NEW u \in V
       PROVE  (\E i \in 1..m : c[i] = u) <=> (tag \in V => Onward("upgrade", u, tag))
  <2>1. PICK n \in 1..N : l[n] = u
    BY <1>1
  <2>2. (\E i \in 1..m : c[i] = u) <=> k < n
    <3>1. ASSUME NEW i \in 1..m, c[i] = u PROVE k < n
      <4>1. k + i \in 1..N /\ l[k + i] = l[n]
        BY <1>7, <1>8, <2>1, <3>1
      <4>2. k + i = n
        BY <1>1, <4>1
      <4> QED
        BY <1>4, <1>7, <4>2
    <3>2. ASSUME k < n PROVE \E i \in 1..m : c[i] = u
      <4>1. n - k \in 1..m /\ k + (n - k) = n
        BY <1>1, <1>4, <1>6, <3>2
      <4> QED
        BY <1>8, <2>1, <4>1
    <3> QED
      BY <3>1, <3>2
  <2>3. Onward("upgrade", u, tag) <=> Later(u, tag)
    BY DEF Onward
  <2>4. CASE tag \in V
    <3>1. Later(u, tag) <=> k < n
      BY <1>1, <1>3, <2>1, <2>4
    <3> QED
      BY <2>2, <2>3, <2>4, <3>1
  <2>5. CASE tag \notin V
    <3>1. k < n
      BY <1>1, <1>3, <2>5
    <3> QED
      BY <2>2, <2>5, <3>1
  <2> QED
    BY <2>4, <2>5
<1>11. Candidates("upgrade", V, tag, m, c)
  BY <1>7, <1>8, <1>9, <1>10 DEF Candidates
<1> QED
  BY <1>1, <1>2, <1>5, <1>11

LEMMA DowngradeCandidates ==
  ASSUME NEW V, NEW l, Ranking(l, V), NEW tag
  PROVE  LET k == SearchCombinedVersions(l, tag)
         IN  \E m : Candidates("downgrade", V, tag, m,
                               Reverse(SubSeq(l, 1, IF k = 0 THEN Len(l) ELSE k - 1)))
<1> DEFINE N == Cardinality(V)
<1>1. /\ N \in Nat /\ l \in Seq(V) /\ Len(l) = N
      /\ \A i, j \in 1..N : l[i] = l[j] => i = j
      /\ \A t \in V : \E i \in 1..N : l[i] = t
      /\ \A i, j \in 1..N : Later(l[j], l[i]) <=> i < j
  BY DEF Ranking
<1>2. PICK k : k = SearchCombinedVersions(l, tag)
  OBVIOUS
<1>3. /\ tag \in V => k \in 1..N /\ l[k] = tag
      /\ tag \notin V => k = 0
  BY <1>2, Search
<1> HIDE DEF N
<1>4. PICK m : m = IF k = 0 THEN N ELSE k - 1
  OBVIOUS
<1>5. m \in Nat /\ m <= N /\ (tag \in V => m = k - 1) /\ (tag \notin V => m = N)
  BY <1>1, <1>3, <1>4
<1>6. PICK w : w = SubSeq(l, 1, m)
  BY Zenon
<1>7. w \in Seq(V) /\ Len(w) = m /\ \A i \in 1..m : w[i] = l[i]
  <2>1. PICK z \in Nat : z = 0
    OBVIOUS
  <2>2. z <= m /\ m <= Len(l) /\ z + 1 = 1 /\ m - z = m
    BY <1>1, <1>5, <2>1
  <2>3. w \in Seq(V) /\ Len(w) = m - z /\ \A i \in 1..(m - z) : w[i] = l[z + i]
    <3>1. w = SubSeq(l, z + 1, m)
      BY <1>6, <2>2, Zenon
    <3> QED
      BY <1>1, <1>5, <2>2, <3>1, Slice
  <2>4. \A i \in 1..m : z + i = i
    BY <1>5, <2>1
  <2> QED
    BY <2>2, <2>3, <2>4
<1>8. PICK c : c = Reverse(w)
  OBVIOUS
<1>9. \A i \in 1..m : m - i + 1 \in 1..m /\ m - i + 1 \in 1..N
  BY <1>1, <1>5
<1>10. c \in Seq(V) /\ Len(c) = m /\ \A i \in 1..m : c[i] = l[m - i + 1]
  <2>1. c = [i \in 1..m |-> w[m - i + 1]]
    BY <1>7, <1>8 DEF Reverse
  <2>2. \A i \in 1..m : w[m - i + 1] \in V /\ w[m - i + 1] = l[m - i + 1]
    BY <1>7, <1>9, ElementOfSeq
  <2>3. c \in [1..m -> V]
    BY <2>1, <2>2
  <2> QED
    BY <1>5, <2>1, <2>2, <2>3
<1>11. ASSUME NEW i \in 1..m, NEW j \in 1..m
       PROVE  /\ c[i] = c[j] => i = j
              /\ Onward("downgrade", c[j], c[i]) <=> i < j
  <2>1. /\ m - i + 1 \in 1..N /\ m - j + 1 \in 1..N
        /\ c[i] = l[m - i + 1] /\ c[j] = l[m - j + 1]
    BY <1>9, <1>10
  <2>2. (m - i + 1 = m - j + 1 => i = j) /\ (m - j + 1 < m - i + 1 <=> i < j)
    BY <1>5
  <2>3. Onward("downgrade", c[j], c[i]) <=> Later(c[i], c[j])
    BY DEF Onward
  <2> QED
    BY <1>1, <2>1, <2>2, <2>3
<1>12. ASSUME NEW u \in V
       PROVE  (\E i \in 1..m : c[i] = u) <=> (tag \in V => Onward("downgrade", u, tag))
  <2>1. PICK n \in 1..N : l[n] = u
    BY <1>1
  <2>2. (\E i \in 1..m : c[i] = u) <=> n <= m
    <3>1. ASSUME NEW i \in 1..m, c[i] = u PROVE n <= m
      <4>1. m - i + 1 \in 1..N /\ m - i + 1 \in 1..m /\ l[m - i + 1] = l[n]
        BY <1>9, <1>10, <2>1, <3>1
      <4>2. m - i + 1 = n
        BY <1>1, <4>1
      <4> QED
        BY <1>5, <4>1, <4>2
    <3>2. ASSUME n <= m PROVE \E i \in 1..m : c[i] = u
      <4>1. m - n + 1 \in 1..m /\ m - (m - n + 1) + 1 = n
        BY <1>1, <1>5, <3>2
      <4> QED
        BY <1>10, <2>1, <4>1
    <3> QED
      BY <3>1, <3>2
  <2>3. Onward("downgrade", u, tag) <=> Later(tag, u)
    BY DEF Onward
  <2>4. CASE tag \in V
    <3>1. Later(tag, u) <=> n < k
      BY <1>1, <1>3, <2>1, <2>4
    <3>2. n < k <=> n <= m
      BY <1>1, <1>3, <1>5, <2>4
    <3> QED
      BY <2>2, <2>3, <2>4, <3>1, <3>2
  <2>5. CASE tag \notin V
    <3>1. n <= m
      BY <1>1, <1>5, <2>5
    <3> QED
      BY <2>2, <2>5, <3>1
  <2> QED
    BY <2>4, <2>5
<1>13. Candidates("downgrade", V, tag, m, c)
  BY <1>5, <1>10, <1>11, <1>12 DEF Candidates
<1>14. c = Reverse(SubSeq(l, 1, IF k = 0 THEN Len(l) ELSE k - 1))
  BY <1>1, <1>4, <1>6, <1>8
<1> QED
  BY <1>2, <1>13, <1>14

\* A form offers the first candidates, as many as fit.
LEMMA OfferOf ==
  ASSUME NEW V, NEW l, Ranking(l, V), NEW tag, NEW action \in {"upgrade", "downgrade"}
  PROVE  \E m, c, e :
           /\ Candidates(action, V, tag, m, c)
           /\ e = (IF m > Limit THEN Limit ELSE m)
           /\ Offer(action, l, tag) \in Seq(V) /\ Len(Offer(action, l, tag)) = e
           /\ \A i \in 1..e : Offer(action, l, tag)[i] = c[i]
<1>1. PICK m, c : Candidates(action, V, tag, m, c) /\ Offer(action, l, tag) = LimitCombinedVersions(c)
  <2>1. CASE action = "upgrade"
    <3>1. Offer(action, l, tag)
            = LimitCombinedVersions(SubSeq(l, SearchCombinedVersions(l, tag) + 1, Len(l)))
      BY <2>1 DEF Offer
    <3> QED
      BY <2>1, <3>1, UpgradeCandidates
  <2>2. CASE action = "downgrade"
    <3> DEFINE k == SearchCombinedVersions(l, tag)
    <3>1. Offer(action, l, tag)
            = LimitCombinedVersions(Reverse(SubSeq(l, 1, IF k = 0 THEN Len(l) ELSE k - 1)))
      BY <2>2 DEF Offer
    <3> QED
      BY <2>2, <3>1, DowngradeCandidates
  <2> QED
    BY <2>1, <2>2
<1>2. m \in Nat /\ c \in Seq(V) /\ Len(c) = m
  BY <1>1 DEF Candidates
<1>3. PICK e : e = IF m > Limit THEN Limit ELSE m
  OBVIOUS
<1>4. e \in Nat /\ e <= m
  BY <1>2, <1>3, ConstantsAssumption
<1>5. LimitCombinedVersions(c) = SubSeq(c, 1, e)
  BY <1>2, <1>3 DEF LimitCombinedVersions
<1>6. PICK w : w = SubSeq(c, 1, e)
  BY Zenon
<1>7. w \in Seq(V) /\ Len(w) = e /\ \A i \in 1..e : w[i] = c[i]
  <2>1. PICK z \in Nat : z = 0
    OBVIOUS
  <2>2. z <= e /\ e <= Len(c) /\ z + 1 = 1 /\ e - z = e
    BY <1>2, <1>4, <2>1
  <2>3. w \in Seq(V) /\ Len(w) = e - z /\ \A i \in 1..(e - z) : w[i] = c[z + i]
    <3>1. w = SubSeq(c, z + 1, e)
      BY <1>6, <2>2, Zenon
    <3> QED
      BY <1>2, <1>4, <2>2, <3>1, Slice
  <2>4. \A i \in 1..e : z + i = i
    BY <1>4, <2>1
  <2> QED
    BY <2>2, <2>3, <2>4
<1> QED
  BY <1>1, <1>3, <1>5, <1>6, <1>7

\* What OffersNearest and NothingHidden say of one offer.
Nearest(action, t, offer) ==
  LET onward == {u \in offer.seen : Onward(action, u, t)}
  IN  t \in offer.seen /\ ParseImageTag(t) # {} =>
        /\ ToSet(offer.tags) = {u \in onward :
             Cardinality({w \in onward : Onward(action, u, w)}) < Limit}
        /\ \A j, k \in DOMAIN offer.tags :
             j < k => Onward(action, offer.tags[k], offer.tags[j])

Whole(action, t, offer) ==
  Cardinality(Versions(offer.seen)) <= Limit =>
    \A u \in Versions(offer.seen) \ ToSet(offer.tags) :
      t \in Versions(offer.seen) /\ ~Onward(action, u, t)

\* The elements of T are the first n of c, which are all different.
FirstOf(T, c, n) ==
  /\ \A x : x \in T <=> \E i \in 1..n : c[i] = x
  /\ \A i, k \in 1..n : c[i] = c[k] => i = k

\* As many tags come before the j-th candidate as its place says.
LEMMA CountFirst ==
  ASSUME NEW T, NEW c, NEW n \in Nat, FirstOf(T, c, n)
  PROVE  Cardinality(T) = n
<1> DEFINE f == [i \in 1..n |-> c[i]]
<1>1. f \in Bijection(1..n, T)
  <2>1. f \in [1..n -> T]
    BY DEF FirstOf
  <2>2. \A i, k \in 1..n : f[i] = f[k] => i = k
    BY DEF FirstOf
  <2>3. \A t \in T : \E i \in 1..n : f[i] = t
    BY DEF FirstOf
  <2> HIDE DEF f
  <2> QED
    BY <2>1, <2>2, <2>3 DEF Bijection, Injection, Surjection, IsInjective
<1> HIDE DEF f
<1> QED
  BY <1>1, FS_CountingElements DEF ExistsBijection

LEMMA GoodOffer ==
  ASSUME NEW seen, seen \subseteq Seq(Token), IsFiniteSet(seen),
         NEW q \in SortCombinedVersions(seen), NEW tag, NEW action \in {"upgrade", "downgrade"},
         NEW offer, offer = [seen |-> seen,
                             tags |-> Offer(action, CombinedVersionsToStrings(q), tag)]
  PROVE  Nearest(action, tag, offer) /\ Whole(action, tag, offer)
<1> DEFINE V == Versions(seen)
<1>1. PICK l : l = CombinedVersionsToStrings(q) /\ Ranking(l, V)
  BY Sorted
<1>2. PICK o : o = Offer(action, l, tag) /\ offer = [seen |-> seen, tags |-> o]
  BY <1>1
<1>3. PICK m, c, e :
        /\ Candidates(action, V, tag, m, c)
        /\ e = (IF m > Limit THEN Limit ELSE m)
        /\ o \in Seq(V) /\ Len(o) = e /\ \A i \in 1..e : o[i] = c[i]
  BY <1>1, <1>2, OfferOf
<1>4. /\ m \in Nat /\ c \in Seq(V) /\ Len(c) = m
      /\ \A i, j \in 1..m : c[i] = c[j] => i = j
      /\ \A i, j \in 1..m : Onward(action, c[j], c[i]) <=> i < j
      /\ \A u \in V : (\E i \in 1..m : c[i] = u) <=> (tag \in V => Onward(action, u, tag))
  BY <1>3 DEF Candidates
<1>5. \A i \in 1..m : c[i] \in V
  BY <1>4, ElementOfSeq
<1>6. e \in Nat /\ 1..e \subseteq 1..m /\ DOMAIN o = 1..e
  BY <1>3, <1>4, ConstantsAssumption, LenProperties
<1>7. \A i \in 1..m : i \in 1..e <=> i - 1 < Limit
  BY <1>3, <1>4, ConstantsAssumption
<1>8. ToSet(o) = {c[i] : i \in 1..e}
  BY <1>3, <1>6 DEF ToSet
<1>9. Nearest(action, tag, offer)
  <2> DEFINE onward == {u \in seen : Onward(action, u, tag)}
  <2> SUFFICES ASSUME tag \in seen, ParseImageTag(tag) # {}
               PROVE  /\ ToSet(o) = {u \in onward :
                           Cardinality({w \in onward : Onward(action, u, w)}) < Limit}
                      /\ \A j, k \in DOMAIN o : j < k => Onward(action, o[k], o[j])
    BY <1>2 DEF Nearest
  <2>1. tag \in V
    BY DEF Versions
  <2>2. \A u \in seen : Onward(action, u, tag) => u \in V
    BY DEF Versions, Onward, Later
  <2>3. onward = {c[i] : i \in 1..m}
    <3>1. \A u \in onward : \E i \in 1..m : c[i] = u
      BY <1>4, <2>1, <2>2
    <3>2. \A i \in 1..m : c[i] \in onward
      BY <1>4, <1>5, <2>1, Zenon DEF Versions
    <3> QED
      BY <3>1, <3>2
  <2> HIDE DEF onward
  <2>4. ASSUME NEW j \in 1..m
        PROVE  Cardinality({w \in onward : Onward(action, c[j], w)}) < Limit <=> j \in 1..e
    <3>1. PICK T : T = {w \in onward : Onward(action, c[j], w)}
      BY Zenon
    <3>2. \A x : x \in T <=> \E i \in 1..(j - 1) : c[i] = x
      <4>1. \A i \in 1..m : Onward(action, c[j], c[i]) <=> i \in 1..(j - 1)
        BY <1>4
      <4>2. 1..(j - 1) \subseteq 1..m
        BY <1>4
      <4> QED
        BY <2>3, <3>1, <4>1, <4>2
    <3>3. Cardinality(T) = j - 1
      <4>1. j - 1 \in Nat /\ 1..(j - 1) \subseteq 1..m
        BY <1>4
      <4>2. FirstOf(T, c, j - 1)
        BY <1>4, <3>2, <4>1 DEF FirstOf
      <4> QED
        BY <4>1, <4>2, CountFirst
    <3> QED
      BY <1>7, <3>1, <3>3
  <2>5. ToSet(o) = {u \in onward : Cardinality({w \in onward : Onward(action, u, w)}) < Limit}
    BY <1>6, <1>8, <2>3, <2>4
  <2>6. \A j, k \in DOMAIN o : j < k => Onward(action, o[k], o[j])
    BY <1>3, <1>4, <1>6
  <2> QED
    BY <2>5, <2>6
<1>10. Whole(action, tag, offer)
  <2> SUFFICES ASSUME Cardinality(V) <= Limit, NEW u \in V \ ToSet(o)
               PROVE  tag \in V /\ ~Onward(action, u, tag)
    BY <1>2 DEF Whole
  <2>1. m <= Cardinality(V)
    <3>1. IsFiniteSet(V)
      BY FS_Subset DEF Versions
    <3>2. DOMAIN c = 1..m /\ c \in [1..m -> V]
      BY <1>4, <1>5, LenProperties
    <3>3. c \in Injection(1..m, V)
      BY <1>4, <3>2 DEF Injection, IsInjective
    <3>4. Cardinality(1..m) <= Cardinality(V)
      BY <3>1, <3>3, FS_Injection
    <3>5. Cardinality(1..m) = m
      <4>1. Cardinality(1..m) = IF 1 > m THEN 0 ELSE m - 1 + 1
        BY <1>4, FS_Interval
      <4> QED
        BY <1>4, <4>1
    <3> QED
      BY <3>4, <3>5
  <2>2. e = m
    <3>1. Cardinality(V) \in Nat
      BY <1>1 DEF Ranking
    <3> QED
      BY <1>3, <1>4, <2>1, <3>1, ConstantsAssumption
  <2>3. ~ \E i \in 1..m : c[i] = u
    BY <1>8, <2>2
  <2> QED
    BY <1>4, <2>3
<1> QED
  BY <1>9, <1>10
-----------------------------------------------------------------------------
(***************************************************************************)
(* The forms. What a form was posted does not change while its tags are    *)
(* looked up, and each offer is right for the image it is made for.        *)
(***************************************************************************)
Image == [name : Names, tag : Seq(STRING)]

FormOK(g) ==
  /\ g.action \in {"upgrade", "downgrade", "restart"} /\ g.images \in Seq(Image)
  /\ g.offers \in Seq([seen : SUBSET Seq(Token), tags : Seq(Seq(Token))])
  /\ g.pc = "new" => g.offers = <<>>
  /\ g.pc = "tags" => g.action \in {"upgrade", "downgrade"} /\ Len(g.offers) < Len(g.images)
  /\ \A i \in 1..Len(g.offers) :
       /\ Nearest(g.action, g.images[i].tag, g.offers[i])
       /\ Whole(g.action, g.images[i].tag, g.offers[i])

Form == [pc : {"new", "tags", "done"}, action : {"upgrade", "downgrade", "restart"},
         images : Seq(Image), offers : Seq([seen : SUBSET Seq(Token), tags : Seq(Seq(Token))]),
         resp : {"none", "page", "error", "panic"}]

FormsOK == form \in [Forms -> Form] /\ \A f \in Forms : FormOK(form[f])

LEMMA InitForms == Init => FormsOK
<1>1. NewForm \in Form /\ FormOK(NewForm)
  <2>1. <<>> \in Seq(Image) /\ <<>> \in Seq([seen : SUBSET Seq(Token), tags : Seq(Seq(Token))])
    OBVIOUS
  <2>2. Len(<<>>) = 0 /\ 1..0 = {}
    OBVIOUS
  <2> QED
    BY <2>1, <2>2 DEF NewForm, Form, FormOK
<1> QED
  BY <1>1 DEF Init, FormsOK

\* A step of one form.
LEMMA OneForm ==
  ASSUME FormsOK, NEW f \in Forms, NEW g \in Form, FormOK(g),
         form' = [form EXCEPT ![f] = g]
  PROVE  FormsOK'
  BY DEF FormsOK

LEMMA PostForms ==
  ASSUME FormsOK, NEW f \in Forms, showPodsForm(f)
  PROVE  FormsOK'
<1>1. PICK post \in Posts :
        LET images == SubSeq(post.images, 1, IF Len(post.images) > 2 THEN 2 ELSE Len(post.images))
            ask == images # <<>> /\ post.action \in {"upgrade", "downgrade"}
        IN  form' = [form EXCEPT ![f].pc = IF ask THEN "tags" ELSE "done",
                                 ![f].action = post.action, ![f].images = images,
                                 ![f].resp = IF ask THEN "none" ELSE "page"]
  BY Zenon DEF showPodsForm
<1>2. /\ post.action \in {"upgrade", "downgrade", "restart"} /\ post.images \in Seq(Image)
  BY ConstantsAssumption, Zenon DEF Image
<1>3. PICK b : b = IF Len(post.images) > 2 THEN 2 ELSE Len(post.images)
  OBVIOUS
<1>4. PICK images : images = SubSeq(post.images, 1, b)
  BY Zenon
<1>5. images \in Seq(Image)
  <2>1. Len(post.images) \in Nat /\ \A i \in 1..Len(post.images) : post.images[i] \in Image
    BY <1>2, LenProperties, ElementOfSeq
  <2>2. b \in Nat /\ \A i \in 1..b : post.images[i] \in Image
    BY <1>3, <2>1
  <2> QED
    BY <1>4, <2>2, SubSeqProperties
<1>6. PICK ask \in BOOLEAN : ask <=> images # <<>> /\ post.action \in {"upgrade", "downgrade"}
  BY Zenon
<1>7. PICK g : g = [form[f] EXCEPT !.pc = IF ask THEN "tags" ELSE "done",
                                   !.action = post.action, !.images = images,
                                   !.resp = IF ask THEN "none" ELSE "page"]
  OBVIOUS
<1>8. form[f] \in Form /\ FormOK(form[f]) /\ form[f].pc = "new"
  BY Zenon DEF FormsOK, showPodsForm
<1>9. /\ g \in Form /\ g.offers = form[f].offers /\ g.images = images
      /\ g.action = post.action /\ g.pc = IF ask THEN "tags" ELSE "done"
  BY <1>2, <1>5, <1>7, <1>8, Zenon DEF Form
<1>10. form' = [form EXCEPT ![f] = g]
  BY <1>1, <1>3, <1>4, <1>6, <1>7, Zenon DEF FormsOK
<1>11. FormOK(g)
  <2>1. g.offers = <<>> /\ Len(g.offers) = 0 /\ 1..0 = {}
    BY <1>8, <1>9 DEF FormOK
  <2>2. ask => Len(images) > 0
    BY <1>5, <1>6, EmptySeq, LenProperties
  <2>3. g.offers \in Seq([seen : SUBSET Seq(Token), tags : Seq(Seq(Token))])
    BY <1>9 DEF Form
  <2>4. g.pc = "tags" => g.action \in {"upgrade", "downgrade"} /\ Len(g.offers) < Len(g.images)
    BY <1>6, <1>9, <2>1, <2>2
  <2> QED
    BY <1>2, <1>5, <1>9, <2>1, <2>3, <2>4 DEF FormOK
<1> QED
  BY <1>9, <1>10, <1>11, OneForm, Zenon

LEMMA BadForms ==
  ASSUME FormsOK, NEW f \in Forms, BadPost(f)
  PROVE  FormsOK'
<1>1. PICK resp \in {"error", "panic"} : form' = [form EXCEPT ![f].pc = "done", ![f].resp = resp]
  BY Zenon DEF BadPost
<1>2. PICK g : g = [form[f] EXCEPT !.pc = "done", !.resp = resp]
  OBVIOUS
<1>3. form[f] \in Form /\ FormOK(form[f])
  BY DEF FormsOK
<1>4. /\ g \in Form /\ g.offers = form[f].offers /\ g.images = form[f].images
      /\ g.action = form[f].action /\ g.pc = "done"
  BY <1>2, <1>3, Zenon DEF Form
<1>5. FormOK(g)
  BY <1>3, <1>4 DEF FormOK
<1>6. form' = [form EXCEPT ![f] = g]
  BY <1>1, <1>2, Zenon DEF FormsOK
<1> QED
  BY <1>4, <1>5, <1>6, OneForm, Zenon

LEMMA TagsForms ==
  ASSUME RegistryOK, FormsOK, NEW f \in Forms, getImageTags(f)
  PROVE  FormsOK'
<1> DEFINE Offers == [seen : SUBSET Seq(Token), tags : Seq(Seq(Token))]
<1>1. PICK h : h = form[f]
  OBVIOUS
<1>2. h \in Form /\ FormOK(h) /\ h.pc = "tags"
  BY <1>1 DEF FormsOK, getImageTags
<1>3. /\ h.action \in {"upgrade", "downgrade"} /\ Len(h.offers) < Len(h.images)
      /\ h.images \in Seq(Image) /\ h.offers \in Seq(Offers)
      /\ \A i \in 1..Len(h.offers) : /\ Nearest(h.action, h.images[i].tag, h.offers[i])
                                     /\ Whole(h.action, h.images[i].tag, h.offers[i])
  BY <1>2 DEF FormOK
<1>4. PICK n \in Nat : n = Len(h.offers)
  BY <1>3, LenProperties
<1>5. n + 1 \in 1..Len(h.images) /\ h.images[n + 1] \in Image
  <2>1. Len(h.images) \in Nat
    BY <1>3, LenProperties
  <2>2. n + 1 \in 1..Len(h.images)
    BY <1>3, <1>4, <2>1
  <2> QED
    BY <1>3, <2>2, ElementOfSeq
<1>s. PICK seen \in {registry[h.images[n + 1].name], {}} : \E q \in SortCombinedVersions(seen) :
        form' = [form EXCEPT
                   ![f].offers = Append(@, [seen |-> seen,
                     tags |-> Offer(h.action, CombinedVersionsToStrings(q), h.images[n + 1].tag)]),
                   ![f].pc = IF n + 1 = Len(h.images) THEN "done" ELSE @,
                   ![f].resp = IF n + 1 = Len(h.images) THEN "page" ELSE @]
  BY <1>1, <1>4, Zenon DEF getImageTags
<1>6. PICK q \in SortCombinedVersions(seen) :
        form' = [form EXCEPT
                   ![f].offers = Append(@, [seen |-> seen,
                     tags |-> Offer(h.action, CombinedVersionsToStrings(q), h.images[n + 1].tag)]),
                   ![f].pc = IF n + 1 = Len(h.images) THEN "done" ELSE @,
                   ![f].resp = IF n + 1 = Len(h.images) THEN "page" ELSE @]
  BY <1>s, Zenon
<1>7. seen \subseteq Seq(Token) /\ IsFiniteSet(seen)
  <2>1. h.images[n + 1].name \in Names
    BY <1>5 DEF Image
  <2>2. /\ registry[h.images[n + 1].name] \subseteq Seq(Token)
        /\ IsFiniteSet(registry[h.images[n + 1].name])
    BY <2>1 DEF RegistryOK
  <2>3. IsFiniteSet({}) /\ {} \subseteq Seq(Token)
    BY FS_EmptySet
  <2>4. seen = registry[h.images[n + 1].name] \/ seen = {}
    OBVIOUS
  <2> QED
    BY <2>2, <2>3, <2>4
<1>8. PICK offer : offer = [seen |-> seen,
                     tags |-> Offer(h.action, CombinedVersionsToStrings(q), h.images[n + 1].tag)]
  BY Zenon
<1>9. /\ Nearest(h.action, h.images[n + 1].tag, offer)
      /\ Whole(h.action, h.images[n + 1].tag, offer)
  BY <1>3, <1>7, <1>8, GoodOffer
<1>10. offer \in Offers
  <2>1. Offer(h.action, CombinedVersionsToStrings(q), h.images[n + 1].tag) \in Seq(Versions(seen))
    BY <1>3, <1>7, Sorted, OfferOf
  <2>2. Versions(seen) \subseteq Seq(Token)
    BY <1>7 DEF Versions
  <2>3. Offer(h.action, CombinedVersionsToStrings(q), h.images[n + 1].tag) \in Seq(Seq(Token))
    BY <2>1, <2>2, SeqMonotonic
  <2> QED
    BY <1>7, <1>8, <2>3
<1>11. PICK os : os = Append(h.offers, offer)
  BY Zenon
<1> HIDE DEF Offers
<1>12. /\ os \in Seq(Offers) /\ Len(os) = n + 1 /\ os[n + 1] = offer
       /\ \A i \in 1..n : os[i] = h.offers[i]
  BY <1>3, <1>4, <1>10, <1>11, AppendProperties
<1>13. PICK last \in BOOLEAN : last <=> n + 1 = Len(h.images)
  BY Zenon
<1>14. PICK g : g = [h EXCEPT !.offers = os, !.pc = IF last THEN "done" ELSE @,
                              !.resp = IF last THEN "page" ELSE @]
  OBVIOUS
<1>15. /\ g \in Form /\ g.offers = os /\ g.images = h.images /\ g.action = h.action
       /\ g.pc = IF last THEN "done" ELSE "tags"
  BY <1>2, <1>12, <1>14, Zenon DEF Form, Offers
<1>16. form' = [form EXCEPT ![f] = g]
  BY <1>1, <1>6, <1>8, <1>11, <1>13, <1>14, Zenon DEF FormsOK
<1>17. FormOK(g)
  <2>1. g.pc = "tags" => Len(os) < Len(h.images)
    <3>1. Len(h.images) \in Nat
      BY <1>3, LenProperties
    <3> QED
      BY <1>4, <1>5, <1>12, <1>13, <1>15, <3>1
  <2>2. \A i \in 1..Len(os) : /\ Nearest(h.action, h.images[i].tag, os[i])
                              /\ Whole(h.action, h.images[i].tag, os[i])
    <3>1. \A i \in 1..(n + 1) : i \in 1..n \/ i = n + 1
      OBVIOUS
    <3> QED
      BY <1>3, <1>4, <1>9, <1>12, <3>1
  <2>3. g.pc # "new"
    BY <1>15
  <2> QED
    BY <1>3, <1>12, <1>15, <2>1, <2>2, <2>3 DEF FormOK, Offers
<1> QED
  BY <1>15, <1>16, <1>17, OneForm, Zenon

LEMMA NextForms ==
  ASSUME RegistryOK, FormsOK, [Next]_vars
  PROVE  FormsOK'
<1>1. CASE UNCHANGED form
  BY <1>1 DEF FormsOK
<1>2. UNCHANGED form \/ \E f \in Forms : showPodsForm(f) \/ BadPost(f) \/ getImageTags(f)
  BY DEF Next, vars, Push, Delete
<1> QED
  BY <1>1, <1>2, PostForms, BadForms, TagsForms

LEMMA AlwaysForms == Spec => []FormsOK
  BY InitForms, NextForms, AlwaysRegistry, PTL DEF Spec

(***************************************************************************)
(* A form for a tag that the registry lists offers exactly the Limit       *)
(* versions that come next in its direction, the nearest first, whatever   *)
(* is pushed and deleted while the images are looked up one by one         *)
(* (showPodsForm, getImageTags).                                           *)
(***************************************************************************)
THEOREM NearestOffered == Spec => []OffersNearest
<1>1. FormsOK => OffersNearest
  <2> SUFFICES ASSUME FormsOK, NEW f \in Forms, NEW i \in DOMAIN form[f].offers
               PROVE  Nearest(form[f].action, form[f].images[i].tag, form[f].offers[i])
    BY Zenon DEF OffersNearest, Nearest
  <2>1. FormOK(form[f])
    BY DEF FormsOK
  <2>2. DOMAIN form[f].offers = 1..Len(form[f].offers)
    BY <2>1, LenProperties DEF FormOK
  <2> QED
    BY <2>1, <2>2 DEF FormOK
<1> QED
  BY <1>1, AlwaysForms, PTL

(***************************************************************************)
(* No version is hidden by a running tag that the registry does not list   *)
(* (showPodsForm takes the whole list when the search fails).              *)
(***************************************************************************)
THEOREM AllOffered == Spec => []NothingHidden
<1>1. FormsOK => NothingHidden
  <2> SUFFICES ASSUME FormsOK, NEW f \in Forms, NEW i \in DOMAIN form[f].offers
               PROVE  Whole(form[f].action, form[f].images[i].tag, form[f].offers[i])
    BY DEF NothingHidden, Whole, Versions
  <2>1. FormOK(form[f])
    BY DEF FormsOK
  <2>2. DOMAIN form[f].offers = 1..Len(form[f].offers)
    BY <2>1, LenProperties DEF FormOK
  <2> QED
    BY <2>1, <2>2 DEF FormOK
<1> QED
  BY <1>1, AlwaysForms, PTL
=============================================================================
