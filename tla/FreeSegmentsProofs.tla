--------------------------- MODULE FreeSegmentsProofs ---------------------------
(***************************************************************************)
(* For any number of segments, and of threads that take and release them:  *)
(* the only thing that can go wrong is that a segment comes back to the    *)
(* free list between the read of its next and the compare-and-swap that    *)
(* takes it.  Where this does not happen (NoReturn), no segment has two    *)
(* users, every list is linked in its order and ends, and the free list    *)
(* with its compare-and-swaps is an allocator.  With one thread that takes *)
(* segments (OneTaker) it does not happen; with several it can.            *)
(***************************************************************************)
EXTENDS FreeSegments, FiniteSetTheorems, WellFoundedInduction, TLAPS

-----------------------------------------------------------------------------
(* Induction *)

LEMMA Smallest ==
  ASSUME NEW S \in SUBSET Nat, S # {}
  PROVE  \E m \in S : \A n \in S : m <= n
<1>1. PICK m \in S : \A n \in S : <<n, m>> \notin OpToRel(<, Nat)
  BY WFMin, NatLessThanWellFounded
<1>2. \A n \in S : ~(n < m) BY <1>1 DEF OpToRel
<1> QED BY <1>2

(* The numbers up to N of which something is shown, as a set.              *)
LEMMA Induction ==
  ASSUME NEW N \in Nat, NEW S, 0 \in S, \A n \in 0 .. N - 1 : n \in S => n + 1 \in S
  PROVE  0 .. N \subseteq S
<1> SUFFICES ASSUME NEW k \in 0 .. N, k \notin S PROVE FALSE OBVIOUS
<1> DEFINE T == (0 .. N) \ S
<1>1. PICK m \in T : \A n \in T : m <= n
  <2>1. T \in SUBSET Nat /\ T # {} OBVIOUS
  <2> QED BY <2>1, Smallest
<1>2. m # 0 OBVIOUS
<1>3. m - 1 \in 0 .. N - 1 /\ m - 1 < m BY <1>2
<1>4. m - 1 \in S BY <1>1, <1>3
<1>5. (m - 1) + 1 \in S BY <1>3, <1>4
<1> QED BY <1>5

-----------------------------------------------------------------------------
(* Sequences and links *)

(* Along l, nx leads from each to the next; after the last to x.           *)
LinkedBy(nx, l) == \A i \in 1 .. Len(l) - 1 : nx[l[i]] = l[i + 1]
Leads(nx, l, x) == l # <<>> => nx[l[Len(l)]] = x
First(l, x) == IF l = <<>> THEN x ELSE l[1]

LEMMA SeqFacts ==
  ASSUME NEW S, NEW s \in Seq(S)
  PROVE  /\ DOMAIN s = 1 .. Len(s) /\ Len(s) \in Nat
         /\ \A i \in 1 .. Len(s) : s[i] \in Range(s) /\ s[i] \in S
         /\ \A x \in Range(s) : x \in S /\ \E i \in 1 .. Len(s) : x = s[i]
         /\ s # <<>> <=> Len(s) > 0
         /\ s # <<>> => Last(s) = s[Len(s)] /\ Last(s) \in Range(s) /\ s[1] \in Range(s)
         /\ Head(s) = s[1]
BY DEF Range, Last

LEMMA EmptyFacts == /\ Range(<<>>) = {} /\ IsInjective(<<>>) /\ Len(<<>>) = 0
                    /\ \A S : <<>> \in Seq(S)
                    /\ \A nx : LinkedBy(nx, <<>>)
BY DEF Range, IsInjective, LinkedBy

LEMMA AppendFacts ==
  ASSUME NEW S, NEW s \in Seq(S), NEW x \in S, x \notin Range(s), IsInjective(s)
  PROVE  /\ Append(s, x) \in Seq(S) /\ IsInjective(Append(s, x)) /\ Append(s, x) # <<>>
         /\ Range(Append(s, x)) = Range(s) \cup {x}
         /\ \A nx : /\ LinkedBy(nx, s) /\ Leads(nx, s, x) => LinkedBy(nx, Append(s, x))
                    /\ Leads(nx, Append(s, x), nx[x])
<1> DEFINE a == Append(s, x)
<1>1. /\ a \in Seq(S) /\ Len(a) = Len(s) + 1 /\ Len(s) \in Nat /\ a # <<>>
      /\ DOMAIN a = 1 .. Len(s) + 1 /\ DOMAIN s = 1 .. Len(s)
      /\ \A i \in 1 .. Len(s) : a[i] = s[i]
      /\ a[Len(s) + 1] = x
  OBVIOUS
<1>2. \A i \in 1 .. Len(s) : s[i] \in Range(s) BY SeqFacts
<1> HIDE DEF a
<1>3. IsInjective(a)
  <2> SUFFICES ASSUME NEW i \in 1 .. Len(s) + 1, NEW j \in 1 .. Len(s) + 1, a[i] = a[j] PROVE i = j
    BY <1>1 DEF IsInjective
  <2>1. CASE i \in 1 .. Len(s) /\ j \in 1 .. Len(s) BY <1>1, <2>1 DEF IsInjective
  <2> QED BY <1>1, <1>2, <2>1
<1>4. Range(a) = Range(s) \cup {x}
  <2>1. ASSUME NEW y \in Range(a) PROVE y \in Range(s) \cup {x}
    <3>1. PICK i \in 1 .. Len(s) + 1 : y = a[i] BY <1>1 DEF Range
    <3>2. i \in 1 .. Len(s) \/ i = Len(s) + 1 BY <1>1
    <3> QED BY <1>1, <1>2, <3>1, <3>2
  <2>2. ASSUME NEW y \in Range(s) PROVE y \in Range(a)
    <3>1. PICK i \in 1 .. Len(s) : y = s[i] BY SeqFacts
    <3> QED BY <1>1, <3>1 DEF Range
  <2>3. x \in Range(a) BY <1>1 DEF Range
  <2> QED BY <2>1, <2>2, <2>3
<1>5. ASSUME NEW nx, LinkedBy(nx, s), Leads(nx, s, x) PROVE LinkedBy(nx, a)
  <2> SUFFICES ASSUME NEW i \in 1 .. Len(s) PROVE nx[a[i]] = a[i + 1] BY <1>1 DEF LinkedBy
  <2>1. CASE i = Len(s)
    <3>1. s # <<>> BY <2>1, SeqFacts
    <3> QED BY <1>1, <1>5, <2>1, <3>1 DEF Leads
  <2>2. CASE i # Len(s)
    <3>1. Len(s) \in Nat BY <1>1
    <3>2. i \in 1 .. Len(s) - 1 /\ i + 1 \in 1 .. Len(s) BY <2>2, <3>1
    <3> QED BY <1>1, <1>5, <3>2 DEF LinkedBy
  <2> QED BY <2>1, <2>2
<1>6. \A nx : Leads(nx, a, nx[x])
  <2>1. a[Len(a)] = x BY <1>1
  <2> QED BY <2>1 DEF Leads
<1> QED BY <1>1, <1>3, <1>4, <1>5, <1>6 DEF a

LEMMA TailFacts ==
  ASSUME NEW S, NEW s \in Seq(S), s # <<>>, IsInjective(s)
  PROVE  /\ Tail(s) \in Seq(S) /\ IsInjective(Tail(s))
         /\ Range(Tail(s)) = Range(s) \ {s[1]}
         /\ \A nx, x : LinkedBy(nx, s) /\ Leads(nx, s, x) =>
              /\ LinkedBy(nx, Tail(s)) /\ Leads(nx, Tail(s), x)
              /\ nx[s[1]] = First(Tail(s), x)
<1> DEFINE t == Tail(s)
<1>1. /\ t \in Seq(S) /\ Len(t) = Len(s) - 1 /\ Len(s) \in Nat \ {0}
      /\ DOMAIN t = 1 .. Len(s) - 1 /\ DOMAIN s = 1 .. Len(s)
      /\ \A i \in 1 .. Len(s) - 1 : t[i] = s[i + 1]
  OBVIOUS
<1> HIDE DEF t
<1>2. t = <<>> <=> Len(s) = 1
  <2>1. t \in Seq(S) /\ Len(t) = Len(s) - 1 /\ Len(s) \in Nat \ {0} BY <1>1
  <2>2. t # <<>> <=> Len(t) > 0 BY <2>1, SeqFacts
  <2>3. Len(t) > 0 <=> Len(s) # 1
    <3>1. \A a, b \in Nat : a = b - 1 => (a > 0 <=> b # 1) OBVIOUS
    <3>2. Len(t) \in Nat /\ Len(s) \in Nat /\ Len(t) = Len(s) - 1 BY <2>1, SeqFacts
    <3> QED BY <3>1, <3>2
  <2> QED BY <2>2, <2>3
<1>3. IsInjective(t)
  <2>1. Len(s) \in Nat BY <1>1
  <2>2. \A i \in 1 .. Len(s) - 1 : i + 1 \in 1 .. Len(s) BY <2>1
  <2>3. ASSUME NEW i \in 1 .. Len(s) - 1, NEW j \in 1 .. Len(s) - 1, t[i] = t[j] PROVE i = j
    <3>1. i + 1 \in DOMAIN s /\ j + 1 \in DOMAIN s BY <1>1, <2>2
    <3>2. s[i + 1] = s[j + 1] BY <1>1, <2>3
    <3>3. i + 1 = j + 1 BY <3>1, <3>2 DEF IsInjective
    <3> QED BY <3>3
  <2> QED BY <1>1, <2>3 DEF IsInjective
<1>4. Range(t) = Range(s) \ {s[1]}
  <2>1. ASSUME NEW y \in Range(t) PROVE y \in Range(s) /\ y # s[1]
    <3>1. PICK i \in 1 .. Len(s) - 1 : y = s[i + 1] BY <1>1 DEF Range
    <3>2. i + 1 \in 1 .. Len(s) /\ i + 1 # 1 /\ 1 \in 1 .. Len(s) BY <1>1
    <3> QED BY <1>1, <3>1, <3>2 DEF Range, IsInjective
  <2>2. ASSUME NEW y \in Range(s), y # s[1] PROVE y \in Range(t)
    <3>1. PICK i \in 1 .. Len(s) : y = s[i] BY <1>1 DEF Range
    <3>2. i - 1 \in 1 .. Len(s) - 1 BY <1>1, <2>2, <3>1
    <3>3. t[i - 1] = y BY <1>1, <3>1, <3>2
    <3> QED BY <1>1, <3>2, <3>3 DEF Range
  <2> QED BY <2>1, <2>2
<1>5. ASSUME NEW nx, NEW x, LinkedBy(nx, s), Leads(nx, s, x)
      PROVE  LinkedBy(nx, t) /\ Leads(nx, t, x) /\ nx[s[1]] = First(t, x)
  <2>1. \A i \in 1 .. Len(t) - 1 : i + 1 \in 1 .. Len(s) - 1 /\ i \in 1 .. Len(s) - 1
    BY <1>1
  <2>2. LinkedBy(nx, t) BY <1>1, <1>5, <2>1 DEF LinkedBy
  <2>3. Leads(nx, t, x)
    <3>1. t # <<>> => Len(t) \in 1 .. Len(s) - 1 /\ Len(t) + 1 = Len(s) BY <1>1, <1>2
    <3> QED BY <1>1, <1>5, <3>1 DEF Leads
  <2>4. nx[s[1]] = First(t, x)
    <3>1. CASE Len(s) = 1 BY <1>1, <1>2, <1>5, <3>1 DEF Leads, First
    <3>2. CASE Len(s) # 1
      <4>1. 1 \in 1 .. Len(s) - 1 BY <1>1, <3>2
      <4> QED BY <1>1, <1>2, <1>5, <3>2, <4>1 DEF LinkedBy, First
    <3> QED BY <3>1, <3>2
  <2> QED BY <2>2, <2>3, <2>4
<1> QED BY <1>1, <1>3, <1>4, <1>5 DEF t

(* One list in front of another.                                           *)
LEMMA ConcatFacts ==
  ASSUME NEW S, NEW s \in Seq(S), s # <<>>, NEW t \in Seq(S), Range(s) \cap Range(t) = {},
         IsInjective(s), IsInjective(t)
  PROVE  /\ s \o t \in Seq(S) /\ s \o t # <<>> /\ IsInjective(s \o t) /\ (s \o t)[1] = s[1]
         /\ Range(s \o t) = Range(s) \cup Range(t)
         /\ \A nx, x : LinkedBy(nx, s) /\ LinkedBy(nx, t) /\ Leads(nx, s, First(t, x)) /\ Leads(nx, t, x)
              => LinkedBy(nx, s \o t) /\ Leads(nx, s \o t, x)
<1> DEFINE m == Len(s)
           n == Len(t)
           c == s \o t
<1>1. /\ c \in Seq(S) /\ Len(c) = m + n
      /\ \A i \in 1 .. m : c[i] = s[i]
      /\ \A i \in 1 .. n : c[m + i] = t[i]
  OBVIOUS
<1>2. m \in Nat \ {0} /\ n \in Nat BY SeqFacts
<1>3. DOMAIN s = 1 .. m /\ DOMAIN t = 1 .. n /\ DOMAIN c = 1 .. m + n BY <1>1, SeqFacts
<1>4. /\ \A i \in 1 .. m : s[i] \in Range(s)
      /\ \A i \in 1 .. n : t[i] \in Range(t)
      /\ t = <<>> <=> n = 0
  BY <1>2, SeqFacts
<1> HIDE DEF m, n, c
<1>5. ASSUME NEW i \in 1 .. m + n PROVE i \in 1 .. m \/ (i - m \in 1 .. n /\ m + (i - m) = i)
  BY <1>2
<1>6. ASSUME NEW i \in 1 .. m + n
      PROVE  \/ i \in 1 .. m /\ c[i] = s[i]
             \/ i - m \in 1 .. n /\ c[i] = t[i - m]
  BY <1>1, <1>5
<1>7. c # <<>> /\ c[1] = s[1]
  <2>1. 1 \in 1 .. m /\ m + n > 0 BY <1>2
  <2>2. Len(c) > 0 BY <1>1, <2>1
  <2> QED BY <1>1, <2>1, <2>2, SeqFacts
<1>8. Range(c) = Range(s) \cup Range(t)
  <2>1. ASSUME NEW y \in Range(c) PROVE y \in Range(s) \cup Range(t)
    <3>1. PICK i \in 1 .. m + n : y = c[i] BY <1>3 DEF Range
    <3> QED BY <1>4, <1>6, <3>1
  <2>2. ASSUME NEW y \in Range(s) PROVE y \in Range(c)
    <3>1. PICK i \in 1 .. m : y = s[i] BY <1>3 DEF Range
    <3>2. i \in 1 .. m + n BY <1>2
    <3> QED BY <1>1, <1>3, <3>1, <3>2 DEF Range
  <2>3. ASSUME NEW y \in Range(t) PROVE y \in Range(c)
    <3>1. PICK i \in 1 .. n : y = t[i] BY <1>3 DEF Range
    <3>2. m + i \in 1 .. m + n BY <1>2
    <3> QED BY <1>1, <1>3, <3>1, <3>2 DEF Range
  <2> QED BY <2>1, <2>2, <2>3
<1>9. IsInjective(c)
  <2> SUFFICES ASSUME NEW i \in 1 .. m + n, NEW j \in 1 .. m + n, c[i] = c[j] PROVE i = j
    BY <1>3 DEF IsInjective
  <2>1. CASE i \in 1 .. m /\ c[i] = s[i] /\ j \in 1 .. m /\ c[j] = s[j]
    BY <1>3, <2>1 DEF IsInjective
  <2>2. CASE i - m \in 1 .. n /\ c[i] = t[i - m] /\ j - m \in 1 .. n /\ c[j] = t[j - m]
    <3>1. i - m = j - m BY <1>3, <2>2 DEF IsInjective
    <3> QED BY <1>2, <3>1
  <2> QED BY <1>4, <1>6, <2>1, <2>2
<1>10. ASSUME NEW nx, NEW x, LinkedBy(nx, s), LinkedBy(nx, t), Leads(nx, s, First(t, x)), Leads(nx, t, x)
       PROVE  LinkedBy(nx, c) /\ Leads(nx, c, x)
  <2>1. nx[s[m]] = First(t, x) BY <1>10 DEF Leads, m
  <2>2. ASSUME NEW i \in 1 .. m + n - 1 PROVE nx[c[i]] = c[i + 1]
    <3>1. CASE i < m
      <4>1. i \in 1 .. m /\ i + 1 \in 1 .. m /\ i \in 1 .. m - 1 BY <1>2, <3>1
      <4>2. nx[s[i]] = s[i + 1] BY <1>10, <4>1 DEF LinkedBy, m
      <4> QED BY <1>1, <4>1, <4>2
    <3>2. CASE i = m
      <4>1. 1 \in 1 .. n /\ m \in 1 .. m BY <1>2, <3>2
      <4>2. First(t, x) = t[1] BY <1>2, <1>4, <4>1 DEF First
      <4> QED BY <1>1, <2>1, <3>2, <4>1, <4>2
    <3>3. CASE i > m
      <4>1. i - m \in 1 .. n - 1 /\ (i - m) + 1 \in 1 .. n /\ i - m \in 1 .. n
            /\ m + (i - m) = i /\ m + ((i - m) + 1) = i + 1
        BY <1>2, <3>3
      <4>2. nx[t[i - m]] = t[(i - m) + 1] BY <1>10, <4>1 DEF LinkedBy, n
      <4>3. c[m + (i - m)] = t[i - m] /\ c[m + ((i - m) + 1)] = t[(i - m) + 1] BY <1>1, <4>1
      <4> QED BY <4>1, <4>2, <4>3
    <3> QED BY <1>2, <3>1, <3>2, <3>3
  <2>3. LinkedBy(nx, c)
    <3>1. Len(c) = m + n BY <1>1
    <3> QED BY <1>2, <2>2, <3>1 DEF LinkedBy
  <2>4. nx[c[m + n]] = x
    <3>1. CASE n = 0
      <4>1. First(t, x) = x BY <1>4, <3>1 DEF First
      <4>2. m \in 1 .. m /\ m + n = m BY <1>2, <3>1
      <4> QED BY <1>1, <2>1, <4>1, <4>2
    <3>2. CASE n # 0
      <4>1. n \in 1 .. n /\ t # <<>> BY <1>2, <1>4, <3>2
      <4>2. nx[t[n]] = x BY <1>10, <4>1 DEF Leads, n
      <4> QED BY <1>1, <4>1, <4>2
    <3> QED BY <3>1, <3>2
  <2> QED BY <1>1, <2>3, <2>4 DEF Leads
<1> QED BY <1>1, <1>7, <1>8, <1>9, <1>10 DEF c

(* The first n of a list, turned round, and the others.                    *)
Turned(s, n, r, q) == /\ n \in 1 .. Len(s)
                      /\ r = Reverse(SubSeq(s, 1, n))
                      /\ q = SubSeq(s, n + 1, Len(s))

Backwards(r, s, n) == \A i \in 1 .. n : r[i] = s[n - i + 1]

LEMMA TurnedTypes ==
  ASSUME NEW S, NEW s \in Seq(S), NEW n, NEW r, NEW q, Turned(s, n, r, q)
  PROVE  /\ r \in Seq(S) /\ r # <<>> /\ Len(r) = n /\ q \in Seq(S)
         /\ r = [i \in 1 .. n |-> s[n - i + 1]]
<1> n \in 1 .. Len(s) /\ r = Reverse(SubSeq(s, 1, n)) /\ q = SubSeq(s, n + 1, Len(s)) BY DEF Turned
<1>1. Len(s) \in Nat /\ DOMAIN s = 1 .. Len(s) /\ \A i \in 1 .. Len(s) : s[i] \in S BY SeqFacts
<1>2. n \in Nat \ {0} /\ n <= Len(s) BY <1>1
<1> DEFINE b == SubSeq(s, 1, n)
<1>3. b \in Seq(S) /\ Len(b) = n /\ \A i \in 1 .. n : b[i] = s[i]
  <2>1. \A i \in 1 .. n : s[i] \in S BY <1>1, <1>2
  <2>2. b = [i \in 1 .. n |-> s[i]] BY <1>1, <1>2
  <2> HIDE DEF b
  <2> QED BY <1>2, <2>1, <2>2
<1> HIDE DEF b
<1>4. r = [i \in 1 .. n |-> s[n - i + 1]]
  <2>1. r = [i \in 1 .. n |-> b[(n - i) + 1]] BY <1>3 DEF Reverse, b
  <2>2. \A i \in 1 .. n : (n - i) + 1 \in 1 .. n BY <1>2
  <2> QED BY <1>3, <2>1, <2>2
<1>5. \A i \in 1 .. n : n - i + 1 \in 1 .. n /\ n - i + 1 \in 1 .. Len(s) BY <1>1, <1>2
<1>6. r \in Seq(S) /\ Len(r) = n BY <1>1, <1>2, <1>4, <1>5
<1>7. r # <<>> BY <1>2, <1>6
<1>8. q \in Seq(S) BY <1>1, <1>2
<1> QED BY <1>4, <1>6, <1>7, <1>8

LEMMA TurnedFacts ==
  ASSUME NEW S, NEW s \in Seq(S), IsInjective(s), NEW n, NEW r, NEW q, Turned(s, n, r, q)
  PROVE  /\ r \in Seq(S) /\ IsInjective(r) /\ r # <<>> /\ Len(r) = n
         /\ Backwards(r, s, n)
         /\ q \in Seq(S) /\ IsInjective(q) /\ Len(q) = Len(s) - n
         /\ \A i \in 1 .. Len(s) - n : q[i] = s[n + i]
         /\ Range(r) = {s[i] : i \in 1 .. n} /\ Range(r) \cap Range(q) = {}
         /\ Range(r) \cup Range(q) = Range(s)
         /\ \A nx, x : LinkedBy(nx, s) /\ Leads(nx, s, x) => LinkedBy(nx, q) /\ Leads(nx, q, x)
<1>3. r \in Seq(S) /\ Len(r) = n /\ r = [i \in 1 .. n |-> s[n - i + 1]] BY TurnedTypes
<1> n \in 1 .. Len(s) /\ r = Reverse(SubSeq(s, 1, n)) /\ q = SubSeq(s, n + 1, Len(s)) BY DEF Turned
<1>1. Len(s) \in Nat /\ DOMAIN s = 1 .. Len(s) /\ \A i \in 1 .. Len(s) : s[i] \in S BY SeqFacts
<1>2. n \in Nat \ {0} /\ n <= Len(s) BY <1>1
<1>4. r = [i \in 1 .. n |-> s[n - i + 1]] BY <1>3
<1>5. \A i \in 1 .. n : n - i + 1 \in 1 .. n /\ n - i + 1 \in 1 .. Len(s) BY <1>1, <1>2
<1>6. r \in Seq(S) /\ Len(r) = n BY <1>3
<1>7. IsInjective(r)
  <2> SUFFICES ASSUME NEW i \in 1 .. n, NEW j \in 1 .. n, r[i] = r[j] PROVE i = j
    BY <1>4 DEF IsInjective
  <2>1. n - i + 1 = n - j + 1 BY <1>1, <1>4, <1>5 DEF IsInjective
  <2> QED BY <1>2, <2>1
<1>8. Range(r) = {s[i] : i \in 1 .. n}
  <2>1. \A i \in 1 .. n : r[i] \in {s[j] : j \in 1 .. n} BY <1>4, <1>5
  <2>2. ASSUME NEW i \in 1 .. n PROVE s[i] \in Range(r)
    <3>1. n - i + 1 \in 1 .. n /\ n - (n - i + 1) + 1 = i BY <1>2
    <3>2. r[n - i + 1] = s[i] BY <1>4, <3>1
    <3> QED BY <1>4, <3>1, <3>2 DEF Range
  <2>3. DOMAIN r = 1 .. n BY <1>4
  <2> QED BY <2>1, <2>2, <2>3 DEF Range
<1>9. q = [i \in 1 .. Len(s) - n |-> s[n + i]]
  <2>1. q = [i \in 1 .. Len(s) - (n + 1) + 1 |-> s[(n + 1) + i - 1]] BY <1>1, <1>2
  <2>2. Len(s) - (n + 1) + 1 = Len(s) - n BY <1>1, <1>2
  <2>3. \A i \in 1 .. Len(s) - n : (n + 1) + i - 1 = n + i BY <1>1, <1>2
  <2> QED BY <2>1, <2>2, <2>3
<1>10. Len(s) - n \in Nat /\ \A i \in 1 .. Len(s) - n : n + i \in 1 .. Len(s) BY <1>1, <1>2
<1>11. q \in Seq(S) /\ Len(q) = Len(s) - n
  <2> DEFINE k == Len(s) - n
  <2>1. k \in Nat /\ q = [i \in 1 .. k |-> s[n + i]] /\ \A i \in 1 .. k : s[n + i] \in S
    BY <1>1, <1>9, <1>10
  <2> HIDE DEF k
  <2>2. q \in Seq(S) /\ Len(q) = k BY <2>1
  <2> QED BY <2>2 DEF k
<1>12. IsInjective(q)
  <2> SUFFICES ASSUME NEW i \in 1 .. Len(s) - n, NEW j \in 1 .. Len(s) - n, q[i] = q[j] PROVE i = j
    BY <1>9 DEF IsInjective
  <2>1. n + i = n + j BY <1>1, <1>9, <1>10 DEF IsInjective
  <2> QED BY <1>2, <2>1
<1>13. Range(q) = {s[n + i] : i \in 1 .. Len(s) - n} BY <1>9 DEF Range
<1>14. Range(r) \cap Range(q) = {}
  <2> SUFFICES ASSUME NEW i \in 1 .. n, NEW j \in 1 .. Len(s) - n, s[i] = s[n + j] PROVE FALSE
    BY <1>8, <1>13
  <2>1. i \in 1 .. Len(s) BY <1>1, <1>2
  <2>2. i = n + j BY <1>1, <1>10, <2>1 DEF IsInjective
  <2> QED BY <1>2, <2>2
<1>15. Range(r) \cup Range(q) = Range(s)
  <2>1. ASSUME NEW i \in 1 .. Len(s) PROVE s[i] \in Range(r) \cup Range(q)
    <3>1. CASE i <= n BY <1>2, <1>8, <3>1
    <3>2. CASE i > n
      <4>1. i - n \in 1 .. Len(s) - n /\ n + (i - n) = i BY <1>1, <1>2, <3>2
      <4> QED BY <1>13, <4>1
    <3> QED BY <1>1, <1>2, <3>1, <3>2
  <2>2. \A i \in 1 .. n : s[i] \in Range(s) BY <1>1, <1>2 DEF Range
  <2>3. \A i \in 1 .. Len(s) - n : s[n + i] \in Range(s) BY <1>1, <1>10 DEF Range
  <2>4. Range(s) = {s[i] : i \in 1 .. Len(s)} BY <1>1 DEF Range
  <2> QED BY <1>8, <1>13, <2>1, <2>2, <2>3, <2>4
<1>16. ASSUME NEW nx, NEW x, LinkedBy(nx, s), Leads(nx, s, x)
       PROVE  LinkedBy(nx, q) /\ Leads(nx, q, x)
  <2>1. ASSUME NEW i \in 1 .. (Len(s) - n) - 1 PROVE nx[q[i]] = q[i + 1]
    <3>1. i \in 1 .. Len(s) - n /\ i + 1 \in 1 .. Len(s) - n /\ n + i \in 1 .. Len(s) - 1
          /\ n + (i + 1) = (n + i) + 1
      BY <1>1, <1>2
    <3>2. nx[s[n + i]] = s[(n + i) + 1] BY <1>16, <3>1 DEF LinkedBy
    <3> QED BY <1>9, <3>1, <3>2
  <2>2. LinkedBy(nx, q) BY <1>11, <2>1 DEF LinkedBy
  <2>3. ASSUME q # <<>> PROVE nx[q[Len(q)]] = x
    <3>1. Len(s) - n > 0 BY <1>11, <2>3, SeqFacts
    <3>2. Len(s) - n \in 1 .. Len(s) - n /\ n + (Len(s) - n) = Len(s) /\ s # <<>>
      BY <1>1, <1>2, <3>1, SeqFacts
    <3>3. nx[s[Len(s)]] = x BY <1>16, <3>2 DEF Leads
    <3> QED BY <1>9, <1>11, <3>2, <3>3
  <2> QED BY <2>2, <2>3 DEF Leads
<1>17. r # <<>> BY <1>2, <1>6, SeqFacts
<1>18. Backwards(r, s, n) BY <1>4 DEF Backwards
<1>19. \A i \in 1 .. Len(s) - n : q[i] = s[n + i] BY <1>9
<1> QED BY <1>6, <1>7, <1>8, <1>11, <1>12, <1>14, <1>15, <1>16, <1>17, <1>18, <1>19

(* Links changed elsewhere leave a list alone.                             *)
LEMMA FrameFacts ==
  ASSUME NEW S, NEW l \in Seq(S), NEW nx, NEW ny, \A s \in Range(l) : ny[s] = nx[s]
  PROVE  /\ LinkedBy(nx, l) => LinkedBy(ny, l)
         /\ \A x : Leads(nx, l, x) => Leads(ny, l, x)
<1>1. Len(l) \in Nat /\ \A i \in 1 .. Len(l) : ny[l[i]] = nx[l[i]] BY SeqFacts
<1>2. \A i \in 1 .. Len(l) - 1 : i \in 1 .. Len(l) BY <1>1
<1>3. l # <<>> => Len(l) \in 1 .. Len(l)
  <2>1. l # <<>> => Len(l) > 0 BY SeqFacts
  <2> QED BY <1>1, <2>1
<1> QED BY <1>1, <1>2, <1>3 DEF LinkedBy, Leads

-----------------------------------------------------------------------------
(* The free list *)

(* F is the list that starts at top.                                       *)
IsFree(F) == /\ F \in Seq(Segments)
             /\ IsInjective(F)
             /\ top = First(F, Nil)
             /\ LinkedBy(next, F)
             /\ Leads(next, F, Nil)

FreeIs(F) == FreeList = Range(F) /\ Reached[Cardinality(Segments)] = Nil

LEMMA Bounded ==
  ASSUME NEW F \in Seq(Segments), IsInjective(F)
  PROVE  Cardinality(Segments) \in Nat /\ Len(F) <= Cardinality(Segments)
<1>1. F \in [1 .. Len(F) -> Segments] /\ Len(F) \in Nat OBVIOUS
<1>2. DOMAIN F = 1 .. Len(F) BY SeqFacts
<1>3. F \in Injection(1 .. Len(F), Segments) BY <1>1 DEF Injection
<1>4. Cardinality(1 .. Len(F)) <= Cardinality(Segments) BY <1>3, FS_Injection, SegmentsAssumption
<1>5. Cardinality(1 .. Len(F)) = Len(F)
  <2>1. Cardinality(1 .. Len(F)) = IF 1 > Len(F) THEN 0 ELSE Len(F) - 1 + 1 BY <1>1, FS_Interval
  <2> QED BY <1>1, <2>1
<1> QED BY <1>4, <1>5, FS_CardinalityType, SegmentsAssumption

(* Following the links from top meets exactly the list.                    *)
LEMMA FreeListKnown == ASSUME NEW F, IsFree(F) PROVE FreeIs(F)
<1> DEFINE N == Cardinality(Segments)
           f == [n \in 0 .. N |-> IF n < Len(F) THEN F[n + 1] ELSE Nil]
           Step(g) == [n \in 0 .. N |-> IF n = 0 THEN top
                                        ELSE IF g[n - 1] = Nil THEN Nil ELSE next[g[n - 1]]]
<1>1. N \in Nat /\ Len(F) <= N /\ Len(F) \in Nat BY Bounded, SeqFacts DEF IsFree
<1>2. \A i \in 1 .. Len(F) : F[i] \in Segments /\ F[i] # Nil BY SeqFacts, SegmentsAssumption DEF IsFree
<1>3. F # <<>> <=> Len(F) > 0 BY SeqFacts DEF IsFree
<1> HIDE DEF N
<1>4. ASSUME NEW n \in 1 .. N PROVE f[n] = IF f[n - 1] = Nil THEN Nil ELSE next[f[n - 1]]
  <2>1. n \in 0 .. N /\ n - 1 \in 0 .. N /\ (n - 1) + 1 = n BY <1>1
  <2>2. CASE n - 1 < Len(F)
    <3>1. n \in 1 .. Len(F) BY <1>1, <2>2
    <3>2. f[n - 1] = F[n] /\ F[n] # Nil BY <1>2, <2>1, <2>2, <3>1
    <3>3. CASE n < Len(F)
      <4>1. n \in 1 .. Len(F) - 1 BY <1>1, <3>3
      <4>2. next[F[n]] = F[n + 1] BY <4>1 DEF IsFree, LinkedBy
      <4>3. f[n] = F[n + 1] BY <2>1, <3>3
      <4> QED BY <3>2, <4>2, <4>3
    <3>4. CASE ~(n < Len(F))
      <4>1. n = Len(F) /\ F # <<>> BY <1>1, <1>3, <2>2, <3>4
      <4>2. next[F[n]] = Nil BY <4>1 DEF IsFree, Leads
      <4>3. f[n] = Nil BY <2>1, <3>4
      <4> QED BY <3>2, <4>2, <4>3
    <3> QED BY <3>3, <3>4
  <2>3. CASE ~(n - 1 < Len(F))
    <3>1. ~(n < Len(F)) BY <1>1, <2>3
    <3>2. f[n - 1] = Nil BY <2>1, <2>3
    <3>3. f[n] = Nil BY <2>1, <3>1
    <3> QED BY <3>2, <3>3
  <2> QED BY <2>2, <2>3
<1>5. f[0] = top
  <2>1. 0 \in 0 .. N BY <1>1
  <2>2. CASE F = <<>> BY <1>1, <1>3, <2>1, <2>2 DEF IsFree, First
  <2>3. CASE F # <<>>
    <3>1. 0 < Len(F) BY <1>3, <2>3
    <3>2. f[0] = F[1] BY <2>1, <3>1
    <3> QED BY <2>3, <3>2 DEF IsFree, First
  <2> QED BY <2>2, <2>3
<1>6. f = Step(f)
  <2>1. \A n \in 0 .. N : f[n] = Step(f)[n]
    <3> TAKE n \in 0 .. N
    <3>1. n = 0 \/ n \in 1 .. N BY <1>1
    <3> HIDE DEF f
    <3> QED BY <1>4, <1>5, <3>1
  <2>2. f = [n \in 0 .. N |-> f[n]] OBVIOUS
  <2>3. Step(f) = [n \in 0 .. N |-> Step(f)[n]] OBVIOUS
  <2> HIDE DEF f, Step
  <2> QED BY <2>1, <2>2, <2>3
<1>7. \E g : g = Step(g) BY <1>6
<1>8. Reached = Step(Reached)
  <2>1. Reached = CHOOSE g : g = Step(g) BY Zenon DEF Reached, N
  <2> HIDE DEF Step
  <2> QED BY <1>7, <2>1
<1>9. \A n \in 0 .. N : Reached[n] = f[n]
  <2> DEFINE E == {n \in 0 .. N : Reached[n] = f[n]}
  <2>1. 0 \in E
    <3>1. Step(Reached)[0] = top BY <1>1
    <3> HIDE DEF Step, f
    <3> QED BY <1>1, <1>5, <1>8, <3>1
  <2>2. ASSUME NEW n \in 0 .. N - 1, n \in E PROVE n + 1 \in E
    <3>1. n + 1 \in 1 .. N /\ n + 1 \in 0 .. N /\ (n + 1) - 1 = n /\ n + 1 # 0 BY <1>1
    <3>2. Step(Reached)[n + 1] = IF Reached[(n + 1) - 1] = Nil THEN Nil ELSE next[Reached[(n + 1) - 1]]
      BY <3>1
    <3>3. f[n + 1] = IF f[(n + 1) - 1] = Nil THEN Nil ELSE next[f[(n + 1) - 1]] BY <1>4, <3>1
    <3> HIDE DEF Step, f
    <3> QED BY <1>8, <2>2, <3>1, <3>2, <3>3
  <2> HIDE DEF E
  <2>3. 0 .. N \subseteq E BY <1>1, <2>1, <2>2, Induction
  <2> QED BY <2>3 DEF E
<1>10. f[N] = Nil BY <1>1
<1>11. {f[n] : n \in 0 .. N} \ {Nil} = Range(F)
  <2>1. ASSUME NEW n \in 0 .. N, f[n] # Nil PROVE f[n] \in Range(F)
    <3>1. n < Len(F) /\ f[n] = F[n + 1] BY <2>1
    <3>2. n + 1 \in 1 .. Len(F) BY <1>1, <3>1
    <3>3. F[n + 1] \in Range(F) BY <3>2, SeqFacts DEF IsFree
    <3> QED BY <3>1, <3>3
  <2>2. ASSUME NEW x \in Range(F) PROVE \E n \in 0 .. N : x = f[n] /\ x # Nil
    <3>1. PICK i \in 1 .. Len(F) : x = F[i] BY SeqFacts DEF IsFree
    <3>2. i - 1 \in 0 .. N /\ i - 1 < Len(F) /\ (i - 1) + 1 = i BY <1>1
    <3>3. f[i - 1] = x BY <3>1, <3>2
    <3> QED BY <1>2, <3>1, <3>2, <3>3
  <2> HIDE DEF f
  <2> QED BY <2>1, <2>2
<1>12. N \in 0 .. N BY <1>1
<1> HIDE DEF f
<1>13. {Reached[n] : n \in 0 .. N} = {f[n] : n \in 0 .. N} BY <1>9
<1> QED BY <1>9, <1>10, <1>11, <1>12, <1>13 DEF FreeIs, FreeList, N

-----------------------------------------------------------------------------
(* The inductive invariant                                                 *)

(* The condition: no segment comes back to the free list while a thread is *)
(* between the read of that segment's next and its compare-and-swap (what  *)
(* a hazard pointer, or a tag beside the top, would ensure).               *)
NoReturn == \A w \in Threads : pc[w] = "pop" => seg[w] \notin FreeList' \ FreeList

OneTaker == \A v, w \in Takers : v = w

Points == {"idle", "retry", "next", "pop", "malloc", "init", "append", "link", "push"}
Taking == {"retry", "next", "pop", "malloc", "init", "append"}

Types ==
  /\ top \in Segments \cup {Nil}
  /\ made \subseteq Segments
  /\ next \in [Segments -> Segments \cup {Nil}]
  /\ chain \in [Threads -> Seq(Segments)]
  /\ old \in [Threads -> Seq(Segments)]
  /\ out \in [Threads -> Seq(Segments)]
  /\ pc \in [Threads -> Points]
  /\ seg \in [Threads -> Segments \cup {Nil}]
  /\ succ \in [Threads -> Segments \cup {Nil}]

Listed(w) == Range(chain[w]) \cup Range(old[w]) \cup Range(out[w])

(* A thread's three lists share no segment and are linked in their order.  *)
OwnLists(w) ==
  /\ IsInjective(chain[w]) /\ IsInjective(old[w]) /\ IsInjective(out[w])
  /\ Range(chain[w]) \cap Range(old[w]) = {}
  /\ Range(chain[w]) \cap Range(out[w]) = {}
  /\ Range(old[w]) \cap Range(out[w]) = {}
  /\ LinkedBy(next, chain[w]) /\ Leads(next, chain[w], Nil)
  /\ LinkedBy(next, old[w]) /\ Leads(next, old[w], Nil)
  /\ LinkedBy(next, out[w])
  /\ out[w] # <<>> <=> pc[w] \in {"link", "push"}

(* Only a taker is inside newSegmentedArraySegment.  Until it swaps, t may *)
(* be taken by others, but if t is in the free list, the t->next it has    *)
(* read is t's next there; once popped, t is nobody's, and is its own.     *)
OwnSegment(w, F) ==
  /\ pc[w] \in Taking => w \in Takers
  /\ pc[w] \in {"next", "pop"} => seg[w] \in Segments
  /\ pc[w] = "pop" /\ seg[w] \in Range(F) => succ[w] = next[seg[w]]
  /\ pc[w] \in {"init", "append"} => seg[w] \in Segments /\ seg[w] \notin Listed(w)
  /\ pc[w] = "append" => next[seg[w]] = Nil

(* What it holds exists and is not free.                                   *)
OwnOnly(w, F) == Held(w) \subseteq made /\ Held(w) \cap Range(F) = {}

Disjoint == \A v, w \in Threads : v # w => Held(v) \cap Held(w) = {}

Inv(F) ==
  /\ Types
  /\ IsFree(F) /\ Range(F) \subseteq made
  /\ \A w \in Threads : OwnLists(w) /\ OwnSegment(w, F) /\ OwnOnly(w, F)
  /\ Disjoint

Core == \E F : Inv(F)

LEMMA HeldIs == \A w : Held(w) = Listed(w) \cup (IF pc[w] \in {"init", "append"} THEN {seg[w]} ELSE {})
BY DEF Held, Listed

LEMMA InitInv == Init => Inv(<<>>)
<1> SUFFICES ASSUME Init PROVE Inv(<<>>) OBVIOUS
<1>1. PICK f \in Injection(Threads, Segments) : chain = [w \in Threads |-> <<f[w]>>] BY DEF Init
<1>2. f \in [Threads -> Segments] /\ IsInjective(f) BY <1>1 DEF Injection
<1>3. ASSUME NEW w \in Threads
      PROVE  /\ chain[w] \in Seq(Segments) /\ Len(chain[w]) = 1 /\ chain[w][1] = f[w]
             /\ DOMAIN chain[w] = {1}
             /\ f[w] \in Segments
  <2>1. chain[w] = <<f[w]>> /\ f[w] \in Segments BY <1>1, <1>2
  <2> QED BY <2>1
<1>4. ASSUME NEW w \in Threads PROVE Range(chain[w]) = {f[w]} /\ IsInjective(chain[w])
  BY <1>3 DEF Range, IsInjective
<1>5. made = {f[w] : w \in Threads}
  <2>1. made = UNION {{f[w]} : w \in Threads} BY <1>4 DEF Init
  <2> QED BY <2>1
<1>6. chain \in [Threads -> Seq(Segments)]
  <2>1. chain = [w \in Threads |-> chain[w]] BY <1>1
  <2> QED BY <1>3, <2>1
<1>7. Types
  <2>1. old \in [Threads -> Seq(Segments)] /\ out \in [Threads -> Seq(Segments)] BY EmptyFacts DEF Init
  <2>2. made \subseteq Segments BY <1>2, <1>5
  <2>3. "idle" \in Points BY DEF Points
  <2> QED BY <1>6, <2>1, <2>2, <2>3 DEF Init, Types
<1>8. IsFree(<<>>) /\ Range(<<>>) = {} BY EmptyFacts DEF IsFree, First, Leads, Init
<1>9. ASSUME NEW w \in Threads
      PROVE  pc[w] = "idle" /\ old[w] = <<>> /\ out[w] = <<>> /\ Held(w) = {f[w]}
  BY <1>4, EmptyFacts DEF Held, Init
<1>10. ASSUME NEW w \in Threads PROVE OwnLists(w)
  <2>1. LinkedBy(next, chain[w])
    <3>1. Len(chain[w]) - 1 = 0 BY <1>3
    <3>2. 1 .. 0 = {} OBVIOUS
    <3> QED BY <3>1, <3>2 DEF LinkedBy
  <2>2. Leads(next, chain[w], Nil) BY <1>3 DEF Leads, Init
  <2>3. Leads(next, <<>>, Nil) BY DEF Leads
  <2> QED BY <1>4, <1>9, <2>1, <2>2, <2>3, EmptyFacts DEF OwnLists
<1>11. ASSUME NEW w \in Threads PROVE OwnSegment(w, <<>>) BY <1>9 DEF OwnSegment, Taking
<1>12. ASSUME NEW w \in Threads PROVE OwnOnly(w, <<>>) BY <1>5, <1>8, <1>9 DEF OwnOnly
<1>13. Disjoint
  <2>1. ASSUME NEW v \in Threads, NEW w \in Threads, v # w PROVE f[v] # f[w]
    BY <1>2, <2>1 DEF IsInjective
  <2> QED BY <1>9, <2>1 DEF Disjoint
<1> QED BY <1>7, <1>8, <1>10, <1>11, <1>12, <1>13 DEF Inv

FreeKnown == \A F : IsFree(F) => FreeIs(F)

(* A step of w leaves the others alone: it changes their variables nowhere *)
(* and links only at segments of its own.                                  *)
Others(w) ==
  /\ \A v \in Threads \ {w} :
       /\ chain'[v] = chain[v] /\ old'[v] = old[v] /\ out'[v] = out[v]
       /\ pc'[v] = pc[v] /\ seg'[v] = seg[v] /\ succ'[v] = succ[v]
  /\ \A s \in Segments \ Held(w) : next'[s] = next[s]

(* So it is enough to look at w, and at the free list G that it leaves.    *)
LEMMA OthersKept ==
  ASSUME NEW F, Inv(F), NEW w \in Threads, Others(w), NEW G,
         Types', IsFree(G)', made \subseteq made',
         OwnLists(w)', OwnSegment(w, G)', OwnOnly(w, G)',
         Held(w)' \subseteq Held(w) \cup Range(F) \cup (Segments \ made),
         Range(G) \subseteq Range(F) \cup Held(w), Range(G) \subseteq made',
         \A v \in Threads \ {w} : pc[v] = "pop" => seg[v] \notin Range(G) \ Range(F)
  PROVE  Inv(G)'
<1>1. ASSUME NEW v \in Threads \ {w}
      PROVE  /\ chain[v] \in Seq(Segments) /\ old[v] \in Seq(Segments) /\ out[v] \in Seq(Segments)
             /\ Held(v)' = Held(v) /\ Listed(v)' = Listed(v) /\ Listed(v) \subseteq Held(v)
             /\ Held(v) \cap Held(w) = {} /\ Held(v) \cap Range(F) = {} /\ Held(v) \subseteq made
             /\ OwnLists(v) /\ OwnSegment(v, F)
  <2>1. Held(v)' = Held(v) /\ Listed(v)' = Listed(v) /\ Listed(v) \subseteq Held(v)
    BY DEF Others, Held, Listed
  <2> QED BY <2>1 DEF Inv, Types, Disjoint, OwnOnly
<1>2. ASSUME NEW v \in Threads \ {w}, NEW l \in Seq(Segments), Range(l) \subseteq Held(v)
      PROVE  /\ LinkedBy(next, l) => LinkedBy(next', l)
             /\ Leads(next, l, Nil) => Leads(next', l, Nil)
  <2>1. Range(l) \subseteq Segments \ Held(w) BY <1>1, <1>2, SeqFacts
  <2>2. \A s \in Range(l) : next'[s] = next[s] BY <2>1 DEF Others
  <2> QED BY <2>2, FrameFacts
<1>3. ASSUME NEW v \in Threads \ {w} PROVE OwnLists(v)'
  <2>1. chain'[v] = chain[v] /\ old'[v] = old[v] /\ out'[v] = out[v] /\ pc'[v] = pc[v] BY DEF Others
  <2>2. Range(chain[v]) \subseteq Held(v) /\ Range(old[v]) \subseteq Held(v) /\ Range(out[v]) \subseteq Held(v)
    BY DEF Held
  <2>3. /\ LinkedBy(next', chain[v]) /\ Leads(next', chain[v], Nil)
        /\ LinkedBy(next', old[v]) /\ Leads(next', old[v], Nil)
        /\ LinkedBy(next', out[v])
    BY <1>1, <1>2, <2>2 DEF OwnLists
  <2>4. OwnLists(v) BY <1>1
  <2> QED BY <2>1, <2>3, <2>4 DEF OwnLists
<1>4. ASSUME NEW v \in Threads \ {w} PROVE OwnSegment(v, G)'
  <2>1. pc'[v] = pc[v] /\ seg'[v] = seg[v] /\ succ'[v] = succ[v] BY DEF Others
  <2>2. OwnSegment(v, F) BY <1>1
  <2>4. pc[v] = "pop" /\ seg[v] \in Range(G) => seg[v] \in Range(F) OBVIOUS
  <2>5. Range(F) \subseteq Segments BY SeqFacts DEF Inv, IsFree
  <2>6. Range(F) \cap Held(w) = {} BY DEF Inv, OwnOnly
  <2>7. seg[v] \in Range(F) => next'[seg[v]] = next[seg[v]] BY <2>5, <2>6 DEF Others
  <2>8. pc[v] = "append" => next'[seg[v]] = next[seg[v]]
    <3>1. pc[v] = "append" => seg[v] \in Held(v) /\ seg[v] \in Segments BY <2>2 DEF Held, OwnSegment
    <3> QED BY <1>1, <3>1 DEF Others
  <2> QED BY <1>1, <2>1, <2>2, <2>4, <2>7, <2>8 DEF OwnSegment
<1>5. ASSUME NEW v \in Threads \ {w} PROVE OwnOnly(v, G)' /\ Held(v)' \cap Held(w)' = {}
  BY <1>1 DEF OwnOnly
<1>6. Disjoint'
  <2>1. ASSUME NEW v \in Threads \ {w}, NEW u \in Threads \ {w}, v # u
        PROVE  Held(v)' \cap Held(u)' = {}
    <3>1. Held(v) \cap Held(u) = {} BY <2>1 DEF Inv, Disjoint
    <3> QED BY <1>1, <3>1
  <2>2. ASSUME NEW v \in Threads, NEW u \in Threads, v # u PROVE Held(v)' \cap Held(u)' = {}
    BY <1>5, <2>1, <2>2
  <2> QED BY <2>2 DEF Disjoint
<1> QED BY <1>3, <1>4, <1>5, <1>6 DEF Inv

(* What a step of w does to the allocator: nothing, takes a segment that   *)
(* is free or new, or gives some of w's back.                              *)
Took(w, f, g) == \E s \in f \cup (Segments \ made) : g = f \ {s} /\ Held(w)' = Held(w) \cup {s}
Gave(w, f, g) == \E S \in (SUBSET Held(w)) \ {{}} : g = f \cup S /\ Held(w)' = Held(w) \ S
Same(w, f, g) == g = f /\ Held(w)' = Held(w)

Allots(w, f, g) == Took(w, f, g) \/ Gave(w, f, g) \/ Same(w, f, g)

(* The step from free list F leaves some free list G.                      *)
Steps(w, F) == \E G : /\ Inv(G)' /\ Others(w) /\ Allots(w, Range(F), Range(G))
                      /\ w \in Takers \/ Range(F) \subseteq Range(G)

LEMMA FreeKept ==
  ASSUME NEW F, Inv(F), NEW w \in Threads, Others(w), top' = top
  PROVE  IsFree(F)'
<1>1. F \in Seq(Segments) BY DEF Inv, IsFree
<1>2. Range(F) \subseteq Segments \ Held(w) BY <1>1, SeqFacts DEF Inv, OwnOnly
<1>3. \A s \in Range(F) : next'[s] = next[s] BY <1>2 DEF Others
<1>4. LinkedBy(next', F) /\ Leads(next', F, Nil) BY <1>1, <1>3, FrameFacts DEF Inv, IsFree
<1> QED BY <1>4 DEF Inv, IsFree

(* With the free list as it was.                                           *)
LEMMA OneKept ==
  ASSUME NEW F, Inv(F), NEW w \in Threads, Others(w), top' = top, made \subseteq made', Types',
         OwnLists(w)', OwnSegment(w, F)', OwnOnly(w, F)',
         Held(w)' \subseteq Held(w) \cup (Segments \ made)
  PROVE  Inv(F)'
<1>1. IsFree(F)' BY FreeKept
<1>2. Range(F) \subseteq made' BY DEF Inv
<1>3. Held(w)' \subseteq Held(w) \cup Range(F) \cup (Segments \ made) OBVIOUS
<1>4. Range(F) \subseteq Range(F) \cup Held(w) /\ Range(F) \ Range(F) = {} OBVIOUS
<1> QED BY <1>1, <1>2, <1>3, <1>4, OthersKept

(* Taking and giving back nothing, and linking nothing.                    *)
LEMMA NothingMoved ==
  ASSUME NEW F, Inv(F), NEW w \in Threads, Others(w), top' = top, made' = made, next' = next, Types',
         chain' = chain, old' = old, out' = out,
         pc[w] \notin {"init", "append", "link", "push"}, pc'[w] \notin {"init", "append", "link", "push"},
         OwnSegment(w, F)'
  PROVE  Steps(w, F)
<1>1. Held(w)' = Held(w) BY DEF Held
<1>2. OwnLists(w)' BY DEF Inv, OwnLists
<1>3. OwnOnly(w, F)' BY <1>1 DEF Inv, OwnOnly
<1>4. Inv(F)' BY <1>1, <1>2, <1>3, OneKept
<1> QED BY <1>1, <1>4 DEF Steps, Allots, Same

LEMMA ReadTopStep ==
  ASSUME NEW F, Inv(F), NEW w \in Threads, ReadTop(w)
  PROVE  Steps(w, F)
<1>1. Types' BY DEF Inv, Types, ReadTop, Goto, lists, Points
<1>2. /\ pc[w] \in {"idle", "retry"} /\ w \in Takers
      /\ pc'[w] = (IF top = Nil THEN "malloc" ELSE "next") /\ seg'[w] = top
  BY DEF Inv, Types, ReadTop, Goto, OwnSegment, Taking
<1>3. Others(w) BY DEF Inv, Types, ReadTop, Goto, lists, Others
<1>4. top # Nil => top \in Segments BY DEF Inv, Types
<1>5. OwnSegment(w, F)' BY <1>2, <1>4 DEF OwnSegment
<1>6. top' = top /\ made' = made /\ next' = next /\ chain' = chain /\ old' = old /\ out' = out
  BY DEF ReadTop, lists
<1> QED BY <1>1, <1>2, <1>3, <1>5, <1>6, NothingMoved

LEMMA ReadNextStep ==
  ASSUME NEW F, Inv(F), NEW w \in Threads, ReadNext(w)
  PROVE  Steps(w, F)
<1>1. /\ pc[w] = "next" /\ pc'[w] = "pop" /\ seg' = seg /\ succ'[w] = next[seg[w]]
      /\ w \in Takers /\ seg[w] \in Segments
  BY DEF Inv, Types, ReadNext, Goto, OwnSegment, Taking
<1>2. next[seg[w]] \in Segments \cup {Nil} BY <1>1 DEF Inv, Types
<1>3. Types' BY <1>2 DEF Inv, Types, ReadNext, Goto, lists, Points
<1>4. Others(w) BY DEF Inv, Types, ReadNext, Goto, lists, Others
<1>5. top' = top /\ made' = made /\ next' = next /\ chain' = chain /\ old' = old /\ out' = out
  BY DEF ReadNext, lists
<1>6. OwnSegment(w, F)' BY <1>1, <1>5 DEF OwnSegment
<1> QED BY <1>1, <1>3, <1>4, <1>5, <1>6, NothingMoved

LEMMA PopCasStep ==
  ASSUME NEW F, Inv(F), NEW w \in Threads, PopCas(w)
  PROVE  Steps(w, F)
<1>1. /\ pc[w] = "pop" /\ seg' = seg /\ succ'[w] = Nil /\ made' = made /\ next' = next
      /\ chain' = chain /\ old' = old /\ out' = out
      /\ w \in Takers /\ seg[w] \in Segments
      /\ seg[w] \in Range(F) => succ[w] = next[seg[w]]
  BY DEF Inv, Types, PopCas, lists, OwnSegment, Taking
<1>2. Others(w) BY DEF Inv, Types, PopCas, Goto, lists, Others
<1>3. Types' BY DEF Inv, Types, PopCas, Goto, lists, Points
<1>4. F \in Seq(Segments) /\ IsInjective(F) /\ top = First(F, Nil)
      /\ LinkedBy(next, F) /\ Leads(next, F, Nil) /\ Range(F) \subseteq made
  BY DEF Inv, IsFree
<1>5. CASE top # seg[w]
  <2>1. top' = top /\ pc'[w] = "retry" BY <1>5 DEF PopCas, Goto, Inv, Types
  <2>2. OwnSegment(w, F)' BY <1>1, <2>1 DEF OwnSegment
  <2> QED BY <1>1, <1>2, <1>3, <2>1, <2>2, NothingMoved
<1>6. CASE top = seg[w]
  <2>1. top' = succ[w] /\ pc'[w] = "init" BY <1>6 DEF PopCas, Goto, Inv, Types
  <2>2. F # <<>> /\ seg[w] = F[1] /\ seg[w] \in Range(F) /\ succ[w] = next[seg[w]]
    <3>1. F # <<>> /\ seg[w] = F[1] BY <1>1, <1>4, <1>6, SegmentsAssumption DEF First
    <3> QED BY <1>1, <1>4, <3>1, SeqFacts
  <2> DEFINE G == Tail(F)
  <2>3. G \in Seq(Segments) /\ IsInjective(G) /\ Range(G) = Range(F) \ {F[1]} BY <1>4, <2>2, TailFacts
  <2>4. LinkedBy(next, G) /\ Leads(next, G, Nil) /\ next[F[1]] = First(G, Nil)
    BY <1>4, <2>2, TailFacts
  <2> HIDE DEF G
  <2>5. IsFree(G)' BY <1>1, <2>1, <2>2, <2>3, <2>4 DEF IsFree
  <2>6. Held(w)' = Held(w) \cup {seg[w]} BY <1>1, <2>1 DEF Held
  <2>7. seg[w] \in Segments /\ seg[w] \notin Listed(w)
    <3>1. seg[w] \notin Held(w) BY <2>2 DEF Inv, OwnOnly
    <3> QED BY <1>1, <3>1 DEF Held, Listed
  <2>8. OwnLists(w)' BY <1>1, <2>1 DEF Inv, OwnLists
  <2>9. OwnSegment(w, G)'
    <3>1. Listed(w)' = Listed(w) BY <1>1 DEF Listed
    <3> QED BY <1>1, <2>1, <2>7, <3>1 DEF OwnSegment
  <2>10. OwnOnly(w, G)'
    <3>1. OwnOnly(w, F) BY DEF Inv
    <3> QED BY <1>1, <1>4, <2>2, <2>3, <2>6, <3>1 DEF OwnOnly
  <2>11. Range(G) \ Range(F) = {} BY <2>3
  <2>12. Inv(G)'
    <3>1. Held(w)' \subseteq Held(w) \cup Range(F) \cup (Segments \ made) BY <2>2, <2>6
    <3>2. Range(G) \subseteq Range(F) \cup Held(w) /\ Range(G) \subseteq made' BY <1>1, <1>4, <2>3
    <3>3. made \subseteq made' BY <1>1
    <3> QED BY <1>2, <1>3, <2>5, <2>8, <2>9, <2>10, <2>11, <3>1, <3>2, <3>3, OthersKept
  <2>13. Took(w, Range(F), Range(G)) BY <2>2, <2>3, <2>6 DEF Took
  <2> QED BY <1>1, <1>2, <2>12, <2>13 DEF Steps, Allots
<1> QED BY <1>5, <1>6

LEMMA MallocStep ==
  ASSUME NEW F, Inv(F), NEW w \in Threads, Malloc(w)
  PROVE  Steps(w, F)
<1>1. PICK s \in Segments \ made : seg' = [seg EXCEPT ![w] = s] /\ made' = made \cup {s}
  BY DEF Malloc
<1>2. /\ pc[w] = "malloc" /\ pc'[w] = "init" /\ seg'[w] = s /\ w \in Takers
      /\ top' = top /\ next' = next /\ chain' = chain /\ old' = old /\ out' = out
  BY <1>1 DEF Malloc, Goto, lists, Inv, Types, OwnSegment, Taking
<1>3. Others(w) BY <1>1 DEF Inv, Types, Malloc, Goto, lists, Others
<1>4. Types' BY <1>1 DEF Inv, Types, Malloc, Goto, lists, Points
<1>5. Held(w)' = Held(w) \cup {s} BY <1>2 DEF Held
<1>6. OwnLists(w)' BY <1>2 DEF Inv, OwnLists
<1>7. OwnOnly(w, F) /\ Range(F) \subseteq made BY DEF Inv
<1>8. OwnSegment(w, F)'
  <2>1. Listed(w)' = Listed(w) BY <1>2 DEF Listed
  <2>2. Listed(w) \subseteq Held(w) BY DEF Held, Listed
  <2>3. s \notin Listed(w) BY <1>7, <2>2 DEF OwnOnly
  <2> QED BY <1>2, <2>1, <2>3 DEF OwnSegment
<1>9. OwnOnly(w, F)' BY <1>1, <1>5, <1>7 DEF OwnOnly
<1>10. Inv(F)' BY <1>1, <1>2, <1>3, <1>4, <1>5, <1>6, <1>8, <1>9, OneKept
<1>11. Took(w, Range(F), Range(F))
  <2>1. Range(F) = Range(F) \ {s} BY <1>7
  <2> QED BY <1>5, <2>1 DEF Took
<1> QED BY <1>3, <1>10, <1>11 DEF Steps, Allots

(* The link of the last one is not a link inside the list.                 *)
LEMMA LastFacts ==
  ASSUME NEW S, NEW l \in Seq(S), IsInjective(l), l # <<>>, NEW nx, NEW ny, LinkedBy(nx, l),
         \A s \in Range(l) : s # Last(l) => ny[s] = nx[s]
  PROVE  LinkedBy(ny, l)
<1>1. Len(l) \in Nat /\ DOMAIN l = 1 .. Len(l) /\ \A i \in 1 .. Len(l) : l[i] \in Range(l) BY SeqFacts
<1>2. Last(l) = l[Len(l)] /\ Len(l) > 0 BY SeqFacts
<1> SUFFICES ASSUME NEW i \in 1 .. Len(l) - 1 PROVE ny[l[i]] = l[i + 1] BY DEF LinkedBy
<1>3. i \in 1 .. Len(l) /\ Len(l) \in 1 .. Len(l) /\ i # Len(l)
  <2>1. Len(l) \in Nat /\ Len(l) > 0 BY <1>1, <1>2
  <2> QED BY <2>1
<1>4. l[i] # l[Len(l)] BY <1>1, <1>3 DEF IsInjective
<1>5. ny[l[i]] = nx[l[i]] BY <1>1, <1>2, <1>3, <1>4
<1> QED BY <1>5 DEF LinkedBy

LEMMA InitSegmentStep ==
  ASSUME NEW F, Inv(F), NEW w \in Threads, InitSegment(w)
  PROVE  Steps(w, F)
<1>1. /\ pc[w] = "init" /\ pc'[w] = "append" /\ seg' = seg /\ w \in Takers
      /\ top' = top /\ made' = made /\ chain' = chain /\ old' = old /\ out' = out
      /\ seg[w] \in Segments /\ seg[w] \notin Listed(w)
  BY DEF InitSegment, Goto, lists, Inv, Types, OwnSegment, Taking
<1>2. next'[seg[w]] = Nil /\ \A s \in Segments \ {seg[w]} : next'[s] = next[s]
  BY <1>1 DEF InitSegment, Inv, Types
<1>3. seg[w] \in Held(w) BY <1>1 DEF Held
<1>4. Others(w) BY <1>2, <1>3 DEF Inv, Types, InitSegment, Goto, lists, Others
<1>5. Types' BY DEF Inv, Types, InitSegment, Goto, lists, Points
<1>6. Held(w)' = Held(w) /\ Listed(w)' = Listed(w) BY <1>1 DEF Held, Listed
<1>7. OwnLists(w) /\ OwnOnly(w, F) BY DEF Inv
<1>8. ASSUME NEW l \in Seq(Segments), Range(l) \subseteq Listed(w)
      PROVE  /\ LinkedBy(next, l) => LinkedBy(next', l)
             /\ Leads(next, l, Nil) => Leads(next', l, Nil)
  <2>1. \A s \in Range(l) : next'[s] = next[s] BY <1>1, <1>2, <1>8, SeqFacts
  <2> QED BY <2>1, FrameFacts
<1>9. OwnLists(w)'
  <2>1. chain[w] \in Seq(Segments) /\ old[w] \in Seq(Segments) /\ out[w] \in Seq(Segments)
    BY DEF Inv, Types
  <2>2. Range(chain[w]) \subseteq Listed(w) /\ Range(old[w]) \subseteq Listed(w) /\ Range(out[w]) \subseteq Listed(w)
    BY DEF Listed
  <2>3. /\ LinkedBy(next', chain[w]) /\ Leads(next', chain[w], Nil)
        /\ LinkedBy(next', old[w]) /\ Leads(next', old[w], Nil)
        /\ LinkedBy(next', out[w])
    BY <1>7, <1>8, <2>1, <2>2 DEF OwnLists
  <2> QED BY <1>1, <1>7, <2>3 DEF OwnLists
<1>10. OwnSegment(w, F)' BY <1>1, <1>2, <1>6 DEF OwnSegment
<1>11. OwnOnly(w, F)' BY <1>1, <1>6, <1>7 DEF OwnOnly
<1>12. Inv(F)' BY <1>1, <1>4, <1>5, <1>6, <1>9, <1>10, <1>11, OneKept
<1> QED BY <1>4, <1>6, <1>12 DEF Steps, Allots, Same

LEMMA LinkSegmentStep ==
  ASSUME NEW F, Inv(F), NEW w \in Threads, LinkSegment(w)
  PROVE  Steps(w, F)
<1> DEFINE l == chain[w]
           x == seg[w]
<1>1. /\ pc[w] = "append" /\ pc'[w] = "idle" /\ w \in Takers
      /\ top' = top /\ made' = made /\ old' = old /\ out' = out
      /\ chain'[w] = Append(l, x)
      /\ x \in Segments /\ x \notin Listed(w) /\ next[x] = Nil
  BY DEF LinkSegment, Goto, Inv, Types, OwnSegment, Taking
<1>2. next' = IF l = <<>> THEN next ELSE [next EXCEPT ![Last(l)] = x] BY DEF LinkSegment
<1>3. OwnLists(w) /\ OwnOnly(w, F) BY DEF Inv
<1>4. l \in Seq(Segments) /\ IsInjective(l) /\ x \notin Range(l) BY <1>1, <1>3 DEF Inv, Types, OwnLists, Listed
<1>5. l # <<>> => Last(l) \in Range(l) /\ Last(l) = l[Len(l)] /\ Last(l) \in Segments BY <1>4, SeqFacts
<1>6. /\ l # <<>> => next'[Last(l)] = x
      /\ \A s \in Segments : l = <<>> \/ s # Last(l) => next'[s] = next[s]
  BY <1>2, <1>5 DEF Inv, Types
<1>7. Range(l) \subseteq Held(w) BY DEF Held
<1>8. Others(w)
  <2>1. \A s \in Segments \ Held(w) : next'[s] = next[s] BY <1>5, <1>6, <1>7
  <2> QED BY <2>1 DEF Inv, Types, LinkSegment, Goto, Others
<1>9. Types'
  <2>1. Append(l, x) \in Seq(Segments) BY <1>1, <1>4
  <2>2. chain' \in [Threads -> Seq(Segments)] BY <2>1 DEF Inv, Types, LinkSegment
  <2>3. next' \in [Segments -> Segments \cup {Nil}] BY <1>1, <1>2 DEF Inv, Types
  <2> QED BY <2>2, <2>3 DEF Inv, Types, LinkSegment, Goto, Points
<1>10. /\ Append(l, x) \in Seq(Segments) /\ IsInjective(Append(l, x))
       /\ Range(Append(l, x)) = Range(l) \cup {x}
  BY <1>1, <1>4, AppendFacts
<1>11. LinkedBy(next', l) /\ Leads(next', l, x)
  <2>1. CASE l = <<>> BY <2>1, EmptyFacts DEF Leads
  <2>2. CASE l # <<>>
    <3>1. \A s \in Range(l) : s # Last(l) => next'[s] = next[s] BY <1>4, <1>6, SeqFacts
    <3>2. LinkedBy(next, l) BY <1>3 DEF OwnLists
    <3> QED BY <1>4, <1>5, <1>6, <2>2, <3>1, <3>2, LastFacts DEF Leads
  <2> QED BY <2>1, <2>2
<1>12. next'[x] = Nil
  <2>1. l = <<>> \/ x # Last(l) BY <1>4, <1>5
  <2> QED BY <1>1, <1>6, <2>1
<1>13. LinkedBy(next', Append(l, x)) /\ Leads(next', Append(l, x), Nil)
  <2>1. \A nx : /\ LinkedBy(nx, l) /\ Leads(nx, l, x) => LinkedBy(nx, Append(l, x))
                /\ Leads(nx, Append(l, x), nx[x])
    BY <1>1, <1>4, AppendFacts
  <2> HIDE DEF l, x
  <2> QED BY <1>11, <1>12, <2>1
<1>14. /\ LinkedBy(next', old[w]) /\ Leads(next', old[w], Nil)
       /\ LinkedBy(next', out[w])
  <2>1. old[w] \in Seq(Segments) /\ out[w] \in Seq(Segments) BY DEF Inv, Types
  <2>2. \A s \in Range(old[w]) \cup Range(out[w]) : s \in Segments /\ (l = <<>> \/ s # Last(l))
    BY <1>3, <1>5, <2>1, SeqFacts DEF OwnLists
  <2>3. \A s \in Range(old[w]) : next'[s] = next[s] BY <1>6, <2>2
  <2>4. \A s \in Range(out[w]) : next'[s] = next[s] BY <1>6, <2>2
  <2>5. LinkedBy(next', old[w]) /\ Leads(next', old[w], Nil) BY <1>3, <2>1, <2>3, FrameFacts DEF OwnLists
  <2>6. LinkedBy(next', out[w]) BY <1>3, <2>1, <2>4, FrameFacts DEF OwnLists
  <2> QED BY <2>5, <2>6
<1> HIDE DEF l, x
<1>15. OwnLists(w)'
  <2>1. Range(l) \cup {x} \subseteq Segments BY <1>1, <1>4, SeqFacts
  <2>2. x \notin Range(old[w]) /\ x \notin Range(out[w]) BY <1>1 DEF Listed
  <2> QED BY <1>1, <1>3, <1>10, <1>13, <1>14, <2>2 DEF OwnLists, l
<1>16. Held(w)' = Held(w) BY <1>1, <1>10 DEF Held, l, x
<1>17. OwnSegment(w, F)' BY <1>1 DEF OwnSegment, Taking
<1>18. OwnOnly(w, F)' BY <1>1, <1>3, <1>16 DEF OwnOnly
<1>19. Inv(F)' BY <1>1, <1>8, <1>9, <1>15, <1>16, <1>17, <1>18, OneKept
<1> QED BY <1>8, <1>16, <1>19 DEF Steps, Allots, Same

(* A list changes its name only.                                           *)
LEMMA StartConsumingStep ==
  ASSUME NEW F, Inv(F), NEW w \in Threads, StartConsuming(w)
  PROVE  Steps(w, F)
<1>1. /\ pc[w] = "idle" /\ pc' = pc /\ old[w] = <<>> /\ old'[w] = chain[w] /\ chain'[w] = <<>>
      /\ top' = top /\ made' = made /\ next' = next /\ out' = out /\ seg' = seg /\ succ' = succ
  BY DEF StartConsuming, Inv, Types
<1>2. Others(w) BY DEF Inv, Types, StartConsuming, Others
<1>3. Types'
  <2>1. <<>> \in Seq(Segments) BY EmptyFacts
  <2> QED BY <2>1 DEF Inv, Types, StartConsuming
<1>4. OwnLists(w) /\ OwnSegment(w, F) /\ OwnOnly(w, F) BY DEF Inv
<1>5. Held(w)' = Held(w) BY <1>1, EmptyFacts DEF Held
<1>6. OwnLists(w)' BY <1>1, <1>4, EmptyFacts DEF OwnLists, Leads
<1>7. OwnSegment(w, F)' BY <1>1 DEF OwnSegment, Taking
<1>8. OwnOnly(w, F)' BY <1>1, <1>4, <1>5 DEF OwnOnly
<1>9. Inv(F)' BY <1>1, <1>2, <1>3, <1>5, <1>6, <1>7, <1>8, OneKept
<1> QED BY <1>2, <1>5, <1>9 DEF Steps, Allots, Same

LEMMA DiscardStep ==
  ASSUME NEW F, Inv(F), NEW w \in Threads, Discard(w)
  PROVE  Steps(w, F)
<1>1. /\ pc[w] = "idle" /\ pc'[w] = "link" /\ chain[w] # <<>> /\ out'[w] = chain[w] /\ chain'[w] = <<>>
      /\ top' = top /\ made' = made /\ next' = next /\ old' = old /\ seg' = seg /\ succ' = succ
      /\ out[w] = <<>>
  <2>1. out[w] = <<>> BY DEF Discard, Inv, OwnLists
  <2> QED BY <2>1 DEF Discard, Goto, Inv, Types
<1>2. Others(w) BY DEF Inv, Types, Discard, Goto, Others
<1>3. Types'
  <2>1. <<>> \in Seq(Segments) BY EmptyFacts
  <2> QED BY <2>1 DEF Inv, Types, Discard, Goto, Points
<1>4. OwnLists(w) /\ OwnOnly(w, F) BY DEF Inv
<1>5. Held(w)' = Held(w) BY <1>1, EmptyFacts DEF Held
<1>6. OwnLists(w)' BY <1>1, <1>4, EmptyFacts DEF OwnLists, Leads
<1>7. OwnSegment(w, F)' BY <1>1 DEF OwnSegment, Taking
<1>8. OwnOnly(w, F)' BY <1>1, <1>4, <1>5 DEF OwnOnly
<1>9. Inv(F)' BY <1>1, <1>2, <1>3, <1>5, <1>6, <1>7, <1>8, OneKept
<1> QED BY <1>2, <1>5, <1>9 DEF Steps, Allots, Same

LEMMA ConsumeStep ==
  ASSUME NEW F, Inv(F), NEW w \in Threads, Consume(w)
  PROVE  Steps(w, F)
<1> DEFINE l == old[w]
<1>1. PICK n \in 1 .. Len(l) :
        /\ out' = [out EXCEPT ![w] = Reverse(SubSeq(l, 1, n))]
        /\ old' = [old EXCEPT ![w] = SubSeq(l, n + 1, Len(l))]
        /\ next' = [s \in Segments |->
             IF \E i \in 1 .. n : l[i] = s
             THEN LET i == CHOOSE i \in 1 .. n : l[i] = s
                  IN IF i = 1 THEN Nil ELSE l[i - 1]
             ELSE next[s]]
  BY DEF Consume
<1> DEFINE r == Reverse(SubSeq(l, 1, n))
           q == SubSeq(l, n + 1, Len(l))
<1>2. OwnLists(w) /\ OwnOnly(w, F) BY DEF Inv
<1>3. l \in Seq(Segments) /\ IsInjective(l) BY <1>2 DEF Inv, Types, OwnLists
<1>4. /\ pc[w] = "idle" /\ pc'[w] = "link" /\ out[w] = <<>> /\ out'[w] = r /\ old'[w] = q
      /\ top' = top /\ made' = made /\ chain' = chain /\ seg' = seg /\ succ' = succ
  <2>1. out[w] = <<>> BY <1>2 DEF Consume, OwnLists
  <2> QED BY <1>1, <2>1 DEF Consume, Goto, Inv, Types
<1>22. Turned(l, n, r, q) BY DEF Turned
<1> HIDE DEF l, r, q
<1>5. /\ r \in Seq(Segments) /\ IsInjective(r) /\ r # <<>> /\ Len(r) = n
      /\ \A i \in 1 .. n : r[i] = l[n - i + 1]
      /\ q \in Seq(Segments) /\ IsInjective(q)
      /\ Range(r) = {l[i] : i \in 1 .. n} /\ Range(r) \cap Range(q) = {}
      /\ Range(r) \cup Range(q) = Range(l)
  <2>1. r \in Seq(Segments) /\ IsInjective(r) /\ r # <<>> BY <1>3, <1>22, TurnedFacts
  <2>2. q \in Seq(Segments) /\ IsInjective(q) BY <1>3, <1>22, TurnedFacts
  <2>3. Range(r) \cap Range(q) = {} /\ Range(r) \cup Range(q) = Range(l) BY <1>3, <1>22, TurnedFacts
  <2>4. Len(r) = n /\ Range(r) = {l[i] : i \in 1 .. n} BY <1>3, <1>22, TurnedFacts
  <2>5. \A i \in 1 .. n : r[i] = l[n - i + 1]
    <3>1. Backwards(r, l, n) BY <1>3, <1>22, TurnedFacts
    <3> QED BY <3>1 DEF Backwards
  <2> QED BY <2>1, <2>2, <2>3, <2>4, <2>5
<1>6. LinkedBy(next, q) /\ Leads(next, q, Nil)
  <2>1. \A nx, x : LinkedBy(nx, l) /\ Leads(nx, l, x) => LinkedBy(nx, q) /\ Leads(nx, q, x)
    BY <1>3, <1>22, TurnedFacts
  <2>2. LinkedBy(next, l) /\ Leads(next, l, Nil) BY <1>2 DEF OwnLists, l
  <2> QED BY <2>1, <2>2
<1>7. Len(l) \in Nat /\ DOMAIN l = 1 .. Len(l) /\ \A i \in 1 .. Len(l) : l[i] \in Segments
  BY <1>3, SeqFacts
<1>8. n \in Nat /\ \A i \in 1 .. n : i \in 1 .. Len(l)
  <2>1. Len(l) \in Nat BY <1>7
  <2> QED BY <2>1
<1>9. ASSUME NEW j \in 2 .. n PROVE next'[l[j]] = l[j - 1]
  <2>1. j \in 1 .. n /\ j # 1 BY <1>8
  <2>2. \A i \in 1 .. n : l[i] = l[j] => i = j BY <1>3, <1>7, <1>8, <2>1 DEF IsInjective
  <2>3. (CHOOSE i \in 1 .. n : l[i] = l[j]) = j BY <2>1, <2>2
  <2>4. l[j] \in Segments BY <1>7, <1>8, <2>1
  <2> QED BY <1>1, <2>1, <2>3, <2>4
<1>10. ASSUME NEW s \in Segments, s \notin Range(r) PROVE next'[s] = next[s]
  <2>1. ~ \E i \in 1 .. n : l[i] = s BY <1>5, <1>10
  <2> QED BY <1>1, <2>1
<1>11. LinkedBy(next', r)
  <2> SUFFICES ASSUME NEW i \in 1 .. n - 1 PROVE next'[r[i]] = r[i + 1] BY <1>5 DEF LinkedBy
  <2>1. /\ i \in 1 .. n /\ i + 1 \in 1 .. n /\ n - i + 1 \in 2 .. n
        /\ (n - i + 1) - 1 = n - (i + 1) + 1
    BY <1>8
  <2>2. next'[l[n - i + 1]] = l[(n - i + 1) - 1] BY <1>9, <2>1
  <2>3. r[i] = l[n - i + 1] /\ r[i + 1] = l[n - (i + 1) + 1] BY <1>5, <2>1
  <2> QED BY <2>1, <2>2, <2>3
<1>12. Range(r) \subseteq Held(w) BY <1>5 DEF Held, l
<1>13. Others(w)
  <2>1. \A s \in Segments \ Held(w) : next'[s] = next[s] BY <1>10, <1>12
  <2> QED BY <1>1, <2>1 DEF Inv, Types, Consume, Goto, Others
<1>14. Types'
  <2>1. ASSUME NEW s \in Segments PROVE next'[s] \in Segments \cup {Nil}
    <3>1. CASE s \notin Range(r) BY <1>10, <3>1 DEF Inv, Types
    <3>2. CASE s \in Range(r)
      <4>1. PICK j \in 1 .. n : s = l[j] BY <1>5, <3>2
      <4>2. CASE j = 1
        <5>1. \A i \in 1 .. n : l[i] = s => i = 1
          BY <1>3, <1>7, <1>8, <4>1, <4>2 DEF IsInjective
        <5>2. (CHOOSE i \in 1 .. n : l[i] = s) = 1 BY <4>1, <4>2, <5>1
        <5> QED BY <1>1, <4>1, <5>2
      <4>3. CASE j # 1
        <5>1. j \in 2 .. n /\ j - 1 \in 1 .. n BY <1>8, <4>3
        <5> QED BY <1>7, <1>8, <1>9, <4>1, <5>1
      <4> QED BY <4>2, <4>3
    <3> QED BY <3>1, <3>2
  <2>2. next' = [s \in Segments |-> next'[s]] BY <1>1
  <2>3. next' \in [Segments -> Segments \cup {Nil}] BY <2>1, <2>2
  <2>4. /\ out' \in [Threads -> Seq(Segments)] /\ old' \in [Threads -> Seq(Segments)]
    BY <1>1, <1>5 DEF Inv, Types, r, q
  <2> QED BY <2>3, <2>4 DEF Inv, Types, Consume, Goto, Points
<1>15. LinkedBy(next', q) /\ Leads(next', q, Nil)
  <2>1. Range(q) \subseteq Segments BY <1>5, SeqFacts
  <2>2. \A s \in Range(q) : next'[s] = next[s] BY <1>5, <1>10, <2>1
  <2>3. q \in Seq(Segments) BY <1>5
  <2> QED BY <1>6, <2>2, <2>3, FrameFacts
<1>16. LinkedBy(next', chain[w]) /\ Leads(next', chain[w], Nil)
  <2>1. chain[w] \in Seq(Segments) BY DEF Inv, Types
  <2>2. Range(chain[w]) \cap Range(r) = {} BY <1>2, <1>5 DEF OwnLists, l
  <2>3. \A s \in Range(chain[w]) : s \in Segments BY <2>1, SeqFacts
  <2>4. \A s \in Range(chain[w]) : next'[s] = next[s] BY <1>10, <2>2, <2>3
  <2>5. LinkedBy(next, chain[w]) /\ Leads(next, chain[w], Nil) BY <1>2 DEF OwnLists
  <2> QED BY <2>1, <2>4, <2>5, FrameFacts
<1>17. OwnLists(w)' BY <1>2, <1>4, <1>5, <1>11, <1>15, <1>16 DEF OwnLists, l
<1>18. Held(w)' = Held(w) BY <1>4, <1>5, EmptyFacts DEF Held, l
<1>19. OwnSegment(w, F)' BY <1>4 DEF OwnSegment, Taking
<1>20. OwnOnly(w, F)' BY <1>2, <1>4, <1>18 DEF OwnOnly
<1>21. Inv(F)' BY <1>4, <1>13, <1>14, <1>17, <1>18, <1>19, <1>20, OneKept
<1> QED BY <1>13, <1>18, <1>21 DEF Steps, Allots, Same

LEMMA LinkToFreeStep ==
  ASSUME NEW F, Inv(F), NEW w \in Threads, LinkToFree(w)
  PROVE  Steps(w, F)
<1>1. /\ pc[w] = "link" /\ pc'[w] = "push"
      /\ top' = top /\ made' = made /\ chain' = chain /\ old' = old /\ out' = out
      /\ seg' = seg /\ succ' = succ
  BY DEF LinkToFree, Goto, lists, Inv, Types
<1>2. OwnLists(w) /\ OwnOnly(w, F) BY DEF Inv
<1>3. out[w] \in Seq(Segments) /\ out[w] # <<>> /\ IsInjective(out[w]) BY <1>1, <1>2 DEF Inv, Types, OwnLists
<1>4. Last(out[w]) \in Range(out[w]) /\ Last(out[w]) \in Segments BY <1>3, SeqFacts
<1>5. \A s \in Segments : s # Last(out[w]) => next'[s] = next[s] BY DEF LinkToFree, Inv, Types
<1>6. Last(out[w]) \in Held(w) BY <1>4 DEF Held
<1>7. Others(w) BY <1>5, <1>6 DEF Inv, Types, LinkToFree, Goto, lists, Others
<1>8. Types' BY DEF Inv, Types, LinkToFree, Goto, lists, Points
<1>9. Held(w)' = Held(w) BY <1>1 DEF Held
<1>10. ASSUME NEW l \in Seq(Segments), Last(out[w]) \notin Range(l)
       PROVE  /\ LinkedBy(next, l) => LinkedBy(next', l)
              /\ Leads(next, l, Nil) => Leads(next', l, Nil)
  <2>1. \A s \in Range(l) : next'[s] = next[s] BY <1>5, <1>10, SeqFacts
  <2> QED BY <2>1, FrameFacts
<1>11. LinkedBy(next', out[w])
  <2>1. \A s \in Range(out[w]) : s # Last(out[w]) => next'[s] = next[s] BY <1>3, <1>5, SeqFacts
  <2>2. LinkedBy(next, out[w]) BY <1>2 DEF OwnLists
  <2> QED BY <1>3, <2>1, <2>2, LastFacts
<1>12. /\ LinkedBy(next', chain[w]) /\ Leads(next', chain[w], Nil)
       /\ LinkedBy(next', old[w]) /\ Leads(next', old[w], Nil)
  <2>1. chain[w] \in Seq(Segments) /\ old[w] \in Seq(Segments) BY DEF Inv, Types
  <2>2. Last(out[w]) \notin Range(chain[w]) /\ Last(out[w]) \notin Range(old[w])
    BY <1>2, <1>4 DEF OwnLists
  <2> QED BY <1>2, <1>10, <2>1, <2>2 DEF OwnLists
<1>13. OwnLists(w)' BY <1>1, <1>2, <1>3, <1>11, <1>12 DEF OwnLists
<1>14. OwnSegment(w, F)' BY <1>1 DEF OwnSegment, Taking
<1>15. OwnOnly(w, F)' BY <1>1, <1>2, <1>9 DEF OwnOnly
<1>16. Inv(F)' BY <1>1, <1>7, <1>8, <1>9, <1>13, <1>14, <1>15, OneKept
<1> QED BY <1>7, <1>9, <1>16 DEF Steps, Allots, Same

LEMMA PushCasStep ==
  ASSUME NEW F, Inv(F), NEW w \in Threads, PushCas(w), NoReturn, FreeKnown'
  PROVE  Steps(w, F)
<1> DEFINE l == out[w]
<1>1. /\ pc[w] = "push" /\ made' = made /\ next' = next /\ chain' = chain /\ old' = old
      /\ seg' = seg /\ succ' = succ
  BY DEF PushCas
<1>2. OwnLists(w) /\ OwnOnly(w, F) BY DEF Inv
<1>3. l \in Seq(Segments) /\ l # <<>> /\ IsInjective(l) BY <1>1, <1>2 DEF Inv, Types, OwnLists
<1>4. Others(w) BY DEF Inv, Types, PushCas, Goto, Others
<1>5. F \in Seq(Segments) /\ IsInjective(F) /\ top = First(F, Nil)
      /\ LinkedBy(next, F) /\ Leads(next, F, Nil) /\ Range(F) \subseteq made
  BY DEF Inv, IsFree
<1>6. Last(l) = l[Len(l)] /\ Head(l) = l[1] /\ l[1] \in Range(l) /\ Range(l) \subseteq Segments
  BY <1>3, SeqFacts
<1>7. CASE top # next[Last(l)]
  <2>1. top' = top /\ out' = out /\ pc'[w] = "link" BY <1>7 DEF PushCas, Goto, Inv, Types
  <2>2. Held(w)' = Held(w) BY <1>1, <2>1 DEF Held
  <2>3. Types' BY <1>7 DEF PushCas, Goto, Inv, Types, Points
  <2>4. OwnLists(w)' BY <1>1, <1>2, <1>3, <2>1 DEF OwnLists
  <2>5. OwnSegment(w, F)' BY <2>1 DEF OwnSegment, Taking
  <2>6. OwnOnly(w, F)' BY <1>1, <1>2, <2>2 DEF OwnOnly
  <2>7. Inv(F)' BY <1>1, <1>4, <2>1, <2>2, <2>3, <2>4, <2>5, <2>6, OneKept
  <2> QED BY <1>4, <2>2, <2>7 DEF Steps, Allots, Same
<1>8. CASE top = next[Last(l)]
  <2>1. top' = l[1] /\ out'[w] = <<>> /\ pc'[w] = "idle"
    BY <1>6, <1>8 DEF PushCas, Goto, Inv, Types
  <2>2. Types'
    <3>1. <<>> \in Seq(Segments) /\ l[1] \in Segments BY <1>6, EmptyFacts
    <3> QED BY <1>6, <1>8, <3>1 DEF PushCas, Goto, Inv, Types, Points
  <2>3. Range(l) \subseteq Held(w) /\ Range(l) \cap Range(F) = {} BY <1>2 DEF Held, OwnOnly
  <2>20. PICK G : G = l \o F OBVIOUS
  <2>4. /\ G \in Seq(Segments) /\ G # <<>> /\ IsInjective(G) /\ G[1] = l[1]
        /\ Range(G) = Range(l) \cup Range(F)
    BY <1>3, <1>5, <2>3, <2>20, ConcatFacts
  <2>5. LinkedBy(next, G) /\ Leads(next, G, Nil)
    <3>1. LinkedBy(next, l) /\ Leads(next, l, First(F, Nil)) BY <1>2, <1>5, <1>6, <1>8 DEF OwnLists, Leads
    <3>2. \A nx, x : LinkedBy(nx, l) /\ LinkedBy(nx, F) /\ Leads(nx, l, First(F, x)) /\ Leads(nx, F, x)
                       => LinkedBy(nx, G) /\ Leads(nx, G, x)
      BY <1>3, <1>5, <2>3, <2>20, ConcatFacts
    <3> HIDE DEF l
    <3> QED BY <1>5, <3>1, <3>2
  <2>6. IsFree(G)' BY <1>1, <2>1, <2>4, <2>5 DEF IsFree, First
  <2>7. Held(w)' = Held(w) \ Range(l)
    <3>1. Range(chain[w]) \cap Range(l) = {} /\ Range(old[w]) \cap Range(l) = {} BY <1>2 DEF OwnLists
    <3> QED BY <1>1, <2>1, <3>1, EmptyFacts DEF Held
  <2>8. OwnLists(w)' BY <1>1, <1>2, <2>1, EmptyFacts DEF OwnLists
  <2>9. OwnSegment(w, G)' BY <2>1 DEF OwnSegment, Taking
  <2>10. OwnOnly(w, G)' BY <1>1, <1>2, <2>4, <2>7 DEF OwnOnly
  <2>11. Inv(G)'
    <3>1. Held(w)' \subseteq Held(w) \cup Range(F) \cup (Segments \ made) BY <2>7
    <3>2. Range(G) \subseteq Range(F) \cup Held(w) /\ Range(F) \subseteq Range(G) BY <2>3, <2>4
    <3>3. Range(G) \subseteq made' /\ made \subseteq made' BY <1>1, <1>2, <1>5, <3>2 DEF OwnOnly
    <3>4. \A v \in Threads \ {w} : pc[v] = "pop" => seg[v] \notin Range(G) \ Range(F)
      <4>1. FreeList = Range(F) BY FreeListKnown DEF Inv, FreeIs
      <4>2. FreeIs(G)' BY <2>6 DEF FreeKnown
      <4> QED BY <4>1, <4>2 DEF FreeIs, NoReturn
    <3> QED BY <1>4, <2>2, <2>6, <2>8, <2>9, <2>10, <3>1, <3>2, <3>3, <3>4, OthersKept
  <2>12. Gave(w, Range(F), Range(G))
    <3>1. Range(l) \in (SUBSET Held(w)) \ {{}} BY <1>6, <2>3
    <3>2. Range(G) = Range(F) \cup Range(l) BY <2>4
    <3> QED BY <2>7, <3>1, <3>2 DEF Gave
  <2> QED BY <1>4, <2>4, <2>11, <2>12 DEF Steps, Allots
<1> QED BY <1>7, <1>8

LEMMA NextSteps ==
  ASSUME NEW F, Inv(F), NEW w \in Threads, NewSegment(w) \/ Release(w), NoReturn, FreeKnown'
  PROVE  Steps(w, F)
<1>1. CASE ReadTop(w) BY <1>1, ReadTopStep
<1>2. CASE ReadNext(w) BY <1>2, ReadNextStep
<1>3. CASE PopCas(w) BY <1>3, PopCasStep
<1>4. CASE Malloc(w) BY <1>4, MallocStep
<1>5. CASE InitSegment(w) BY <1>5, InitSegmentStep
<1>6. CASE LinkSegment(w) BY <1>6, LinkSegmentStep
<1>7. CASE StartConsuming(w) BY <1>7, StartConsumingStep
<1>8. CASE Consume(w) BY <1>8, ConsumeStep
<1>9. CASE Discard(w) BY <1>9, DiscardStep
<1>10. CASE LinkToFree(w) BY <1>10, LinkToFreeStep
<1>11. CASE PushCas(w) BY <1>11, PushCasStep
<1> QED BY <1>1, <1>2, <1>3, <1>4, <1>5, <1>6, <1>7, <1>8, <1>9, <1>10, <1>11
        DEF NewSegment, Release

LEMMA CoreStep == Core /\ FreeKnown' /\ [Next]_vars /\ [NoReturn]_vars => Core'
<1> SUFFICES ASSUME Core, FreeKnown', [Next]_vars, [NoReturn]_vars PROVE Core' OBVIOUS
<1>1. PICK F : Inv(F) BY DEF Core
<1>2. CASE UNCHANGED vars
  <2>1. Inv(F)'
    BY <1>1, <1>2 DEF vars, lists, Inv, Types, IsFree, OwnLists, OwnSegment, OwnOnly, Disjoint, Held, Listed
  <2> QED BY <2>1 DEF Core
<1>3. CASE Next /\ NoReturn
  <2>1. PICK w \in Threads : NewSegment(w) \/ Release(w) BY <1>3 DEF Next
  <2>2. Steps(w, F) BY <1>1, <1>3, <2>1, NextSteps
  <2> QED BY <2>2 DEF Steps, Core
<1> QED BY <1>2, <1>3

LEMMA AlwaysKnown == Spec => []FreeKnown
<1>1. FreeKnown BY FreeListKnown DEF FreeKnown
<1> QED BY <1>1, PTL

LEMMA CoreInvariant == Spec /\ [][NoReturn]_vars => []Core
<1>1. Init => Core BY InitInv DEF Core
<1> QED BY <1>1, CoreStep, AlwaysKnown, PTL DEF Spec

-----------------------------------------------------------------------------
(* Types, whatever comes back                                              *)

TypesInv ==
  /\ Types
  /\ \A w \in Threads : /\ pc[w] \in {"next", "pop", "init", "append"} => seg[w] \in Segments
                        /\ pc[w] \in {"link", "push"} => out[w] # <<>>

LEMMA TypesStep == TypesInv /\ [Next]_vars => TypesInv'
<1> SUFFICES ASSUME TypesInv, [Next]_vars PROVE TypesInv' OBVIOUS
<1>1. CASE UNCHANGED vars BY <1>1 DEF TypesInv, Types, vars, lists
<1>2. ASSUME NEW w \in Threads, NewSegment(w) PROVE TypesInv'
  <2>1. CASE ReadTop(w) BY <2>1 DEF ReadTop, TypesInv, Types, Goto, lists, Points
  <2>2. CASE ReadNext(w) BY <2>2 DEF ReadNext, TypesInv, Types, Goto, lists, Points
  <2>3. CASE PopCas(w) BY <2>3 DEF PopCas, TypesInv, Types, Goto, lists, Points
  <2>4. CASE Malloc(w) BY <2>4 DEF Malloc, TypesInv, Types, Goto, lists, Points
  <2>5. CASE InitSegment(w) BY <2>5 DEF InitSegment, TypesInv, Types, Goto, lists, Points
  <2>6. CASE LinkSegment(w)
    <3>1. /\ seg[w] \in Segments /\ chain[w] \in Seq(Segments)
          /\ chain[w] # <<>> => Last(chain[w]) \in Segments
      BY <2>6, SeqFacts DEF LinkSegment, TypesInv, Types
    <3>2. next' \in [Segments -> Segments \cup {Nil}]
      BY <2>6, <3>1 DEF LinkSegment, TypesInv, Types
    <3>3. Append(chain[w], seg[w]) \in Seq(Segments) BY <3>1
    <3>4. chain' \in [Threads -> Seq(Segments)]
      BY <2>6, <3>3 DEF LinkSegment, TypesInv, Types
    <3> QED BY <2>6, <3>2, <3>4 DEF LinkSegment, TypesInv, Types, Goto, Points
  <2> QED BY <1>2, <2>1, <2>2, <2>3, <2>4, <2>5, <2>6 DEF NewSegment
<1>3. ASSUME NEW w \in Threads, Release(w) PROVE TypesInv'
  <2>0. <<>> \in Seq(Segments) BY EmptyFacts
  <2>1. CASE StartConsuming(w) BY <2>0, <2>1 DEF StartConsuming, TypesInv, Types
  <2>2. CASE Consume(w)
    <3> DEFINE l == old[w]
    <3>1. PICK n \in 1 .. Len(l) :
            /\ out' = [out EXCEPT ![w] = Reverse(SubSeq(l, 1, n))]
            /\ old' = [old EXCEPT ![w] = SubSeq(l, n + 1, Len(l))]
            /\ next' = [s \in Segments |->
                 IF \E i \in 1 .. n : l[i] = s
                 THEN LET i == CHOOSE i \in 1 .. n : l[i] = s
                      IN IF i = 1 THEN Nil ELSE l[i - 1]
                 ELSE next[s]]
      BY <2>2 DEF Consume
    <3> DEFINE r == Reverse(SubSeq(l, 1, n))
               q == SubSeq(l, n + 1, Len(l))
    <3>2. l \in Seq(Segments) BY DEF TypesInv, Types
    <3>3. Turned(l, n, r, q) BY DEF Turned
    <3> HIDE DEF l, r, q
    <3>4. r \in Seq(Segments) /\ r # <<>> /\ q \in Seq(Segments) BY <3>2, <3>3, TurnedTypes
    <3>5. Len(l) \in Nat /\ \A i \in 1 .. Len(l) : l[i] \in Segments BY <3>2, SeqFacts
    <3>6. ASSUME NEW s \in Segments PROVE next'[s] \in Segments \cup {Nil}
      <4>1. CASE \E i \in 1 .. n : l[i] = s
        <5>1. PICK i \in 1 .. n : i = CHOOSE j \in 1 .. n : l[j] = s BY <4>1
        <5>2. next'[s] = IF i = 1 THEN Nil ELSE l[i - 1] BY <3>1, <4>1, <5>1
        <5>3. i # 1 => i - 1 \in 1 .. Len(l) BY <3>5
        <5> QED BY <3>5, <5>2, <5>3
      <4>2. CASE ~ \E i \in 1 .. n : l[i] = s BY <3>1, <4>2 DEF TypesInv, Types
      <4> QED BY <4>1, <4>2
    <3>7. next' \in [Segments -> Segments \cup {Nil}]
      <4>1. next' = [s \in Segments |-> next'[s]] BY <3>1
      <4> QED BY <3>6, <4>1
    <3>8. out' = [out EXCEPT ![w] = r] /\ old' = [old EXCEPT ![w] = q] BY <3>1 DEF r, q
    <3> QED BY <2>2, <3>4, <3>7, <3>8 DEF Consume, TypesInv, Types, Goto, Points
  <2>3. CASE Discard(w) BY <2>0, <2>3 DEF Discard, TypesInv, Types, Goto, Points
  <2>4. CASE LinkToFree(w)
    <3>1. Last(out[w]) \in Segments BY <2>4, SeqFacts DEF LinkToFree, TypesInv, Types
    <3> QED BY <2>4, <3>1 DEF LinkToFree, TypesInv, Types, Goto, lists, Points
  <2>5. CASE PushCas(w)
    <3>1. Head(out[w]) \in Segments BY <2>5, SeqFacts DEF PushCas, TypesInv, Types
    <3> QED BY <2>0, <2>5, <3>1 DEF PushCas, TypesInv, Types, Goto, Points
  <2> QED BY <1>3, <2>1, <2>2, <2>3, <2>4, <2>5 DEF Release
<1> QED BY <1>1, <1>2, <1>3 DEF Next

-----------------------------------------------------------------------------
(* One taker *)

(* Nobody else takes from the free list what the taker has read.           *)
InFree == \A w \in Threads : pc[w] \in {"next", "pop"} => seg[w] \in FreeList

LEMMA InFreeNoReturn == InFree => NoReturn
BY DEF InFree, NoReturn

LEMMA FreeListStays == top' = top /\ next' = next => FreeList' = FreeList
BY DEF FreeList, Reached

LEMMA InFreeStep ==
  ASSUME OneTaker, Core, InFree, FreeKnown', Next
  PROVE  InFree'
<1>1. PICK F : Inv(F) BY DEF Core
<1>2. PICK w \in Threads : NewSegment(w) \/ Release(w) BY DEF Next
<1>3. Steps(w, F) BY <1>1, <1>2, InFreeNoReturn, NextSteps
<1>4. PICK G : Inv(G)' /\ Others(w) /\ (w \in Takers \/ Range(F) \subseteq Range(G)) BY <1>3 DEF Steps
<1>5. FreeList = Range(F) /\ IsFree(F) BY <1>1, FreeListKnown DEF Inv, FreeIs
<1>6. FreeList' = Range(G)
  <2>1. FreeIs(G)' BY <1>4 DEF Inv, FreeKnown
  <2> QED BY <2>1 DEF FreeIs
<1>7. ASSUME NEW v \in Threads \ {w}, pc'[v] \in {"next", "pop"} PROVE seg'[v] \in FreeList'
  <2>1. pc[v] \in {"next", "pop"} /\ seg'[v] = seg[v] BY <1>4, <1>7 DEF Others
  <2>2. v \in Takers BY <1>1, <2>1 DEF Inv, OwnSegment, Taking
  <2>3. w \notin Takers BY <2>2 DEF OneTaker
  <2> QED BY <1>4, <1>5, <1>6, <2>1, <2>3 DEF InFree
<1>8. ASSUME pc'[w] \in {"next", "pop"} PROVE seg'[w] \in FreeList'
  <2>1. pc \in [Threads -> Points] /\ seg \in [Threads -> Segments \cup {Nil}]
    BY <1>1 DEF Inv, Types
  <2>2. \A p : Goto(w, p) => pc'[w] = p BY <2>1 DEF Goto
  <2>3. CASE ReadTop(w)
    <3>1. seg'[w] = top /\ top' = top /\ next' = next BY <2>1, <2>3 DEF ReadTop
    <3>2. top # Nil
      <4>1. top = Nil => Goto(w, "malloc") BY <2>3 DEF ReadTop
      <4> QED BY <1>8, <2>2, <4>1
    <3>3. top \in Range(F)
      <4>1. F \in Seq(Segments) /\ top = First(F, Nil) BY <1>5 DEF IsFree
      <4> QED BY <3>2, <4>1, SeqFacts DEF First
    <3> QED BY <1>5, <3>1, <3>3, FreeListStays
  <2>4. CASE ReadNext(w)
    <3>1. pc[w] = "next" /\ seg'[w] = seg[w] /\ top' = top /\ next' = next BY <2>4 DEF ReadNext
    <3> QED BY <3>1, FreeListStays DEF InFree
  <2>5. CASE NewSegment(w) /\ ~ReadTop(w) /\ ~ReadNext(w)
    <3>1. PopCas(w) => Goto(w, "init") \/ Goto(w, "retry") BY DEF PopCas
    <3>2. Malloc(w) => Goto(w, "init") BY DEF Malloc
    <3>3. InitSegment(w) => Goto(w, "append") BY DEF InitSegment
    <3>4. LinkSegment(w) => Goto(w, "idle") BY DEF LinkSegment
    <3> QED BY <1>8, <2>2, <2>5, <3>1, <3>2, <3>3, <3>4 DEF NewSegment
  <2>6. CASE Release(w)
    <3>1. StartConsuming(w) => pc[w] = "idle" /\ pc' = pc BY DEF StartConsuming
    <3>2. Consume(w) => Goto(w, "link") BY DEF Consume
    <3>3. Discard(w) => Goto(w, "link") BY DEF Discard
    <3>4. LinkToFree(w) => Goto(w, "push") BY DEF LinkToFree
    <3>5. PushCas(w) => Goto(w, "idle") \/ Goto(w, "link") BY DEF PushCas
    <3> QED BY <1>8, <2>2, <2>6, <3>1, <3>2, <3>3, <3>4, <3>5 DEF Release
  <2> QED BY <1>2, <2>3, <2>4, <2>5, <2>6
<1> QED BY <1>7, <1>8 DEF InFree

-----------------------------------------------------------------------------
(* The theorems *)

(* The type invariant of the free list and the threads that share it,      *)
(* whichever threads take and whatever comes back (newSegmentedArraySegment *)
(* and releaseSegments never follow a link that is not a segment's).       *)
THEOREM TypeCorrect == Spec => []TypeOK
<1>1. Init => TypesInv
  <2> SUFFICES ASSUME Init PROVE TypesInv OBVIOUS
  <2>1. Inv(<<>>) BY InitInv
  <2>2. \A w \in Threads : pc[w] = "idle" BY DEF Init
  <2> QED BY <2>1, <2>2 DEF Inv, TypesInv
<1>2. TypesInv => TypeOK BY DEF TypesInv, Types, TypeOK, Points
<1> QED BY <1>1, <1>2, TypesStep, PTL DEF Spec

(* With one thread that takes segments, and any number that give back      *)
(* whole lists at the same time, the condition holds: nobody else takes    *)
(* the top that newSegmentedArraySegment has read, so it cannot come back. *)
(* With two takers `segs_two_takers` shows that it can.                    *)
THEOREM OneTakerSuffices == OneTaker => (Spec => [][NoReturn]_vars)
<1> SUFFICES ASSUME OneTaker PROVE Spec => [][NoReturn]_vars OBVIOUS
<1>1. Init => Core /\ InFree
  <2> SUFFICES ASSUME Init PROVE Core /\ InFree OBVIOUS
  <2>1. Core BY InitInv DEF Core
  <2>2. \A w \in Threads : pc[w] = "idle" BY DEF Init
  <2> QED BY <2>1, <2>2 DEF InFree
<1>2. InFree /\ [Next]_vars => [NoReturn]_vars BY InFreeNoReturn
<1>3. Core /\ InFree /\ FreeKnown' /\ [Next]_vars => Core' /\ InFree'
  <2> SUFFICES ASSUME Core, InFree, FreeKnown', [Next]_vars PROVE Core' /\ InFree' OBVIOUS
  <2>1. Core' BY <1>2, CoreStep
  <2>2. CASE Next BY <2>1, <2>2, InFreeStep
  <2>3. CASE UNCHANGED vars
    <3>1. pc' = pc /\ seg' = seg /\ top' = top /\ next' = next BY <2>3 DEF vars
    <3>2. FreeList' = FreeList BY <3>1, FreeListStays
    <3> QED BY <2>1, <3>1, <3>2 DEF InFree
  <2> QED BY <2>1, <2>2, <2>3
<1> QED BY <1>1, <1>2, <1>3, AlwaysKnown, PTL DEF Spec

(* Any number of threads that take segments and give back whole lists at   *)
(* the same time never put one segment to two uses, as long as none comes  *)
(* back under a thread that is about to take it: the top and the next that *)
(* newSegmentedArraySegment has read then belong together if the top is    *)
(* what it was, although it may have been another meanwhile.               *)
THEOREM SegmentsUsedOnce == Spec /\ [][NoReturn]_vars => []OneUse
<1>1. Core => OneUse
  <2> SUFFICES ASSUME NEW F, Inv(F) PROVE OneUse BY DEF Core
  <2>1. FreeList = Range(F) BY FreeListKnown DEF Inv, FreeIs
  <2> QED BY <2>1 DEF OneUse, Inv, Disjoint, OwnOnly
<1> QED BY <1>1, CoreInvariant, PTL

(* And the channels, the lists being released and the free list keep the   *)
(* order their users gave them, and end.                                   *)
THEOREM ListsKept == Spec /\ [][NoReturn]_vars => []ListsLinked
<1>1. Core => ListsLinked
  <2> SUFFICES ASSUME NEW F, Inv(F) PROVE ListsLinked BY DEF Core
  <2>1. Reached[Cardinality(Segments)] = Nil BY FreeListKnown DEF Inv, FreeIs
  <2>2. ASSUME NEW l \in Seq(Segments)
        PROVE  /\ LinkedBy(next, l) => Linked(l)
               /\ Leads(next, l, Nil) => Ended(l)
    <3>1. l # <<>> => Last(l) = l[Len(l)] BY SeqFacts
    <3> QED BY <3>1 DEF LinkedBy, Linked, Leads, Ended
  <2>3. ASSUME NEW w \in Threads
        PROVE  /\ Linked(chain[w]) /\ Ended(chain[w])
               /\ Linked(old[w]) /\ Ended(old[w])
               /\ Linked(out[w])
    <3>1. chain[w] \in Seq(Segments) /\ old[w] \in Seq(Segments) /\ out[w] \in Seq(Segments)
      BY DEF Inv, Types
    <3>2. OwnLists(w) BY DEF Inv
    <3> QED BY <2>2, <3>1, <3>2 DEF OwnLists
  <2> QED BY <2>1, <2>3 DEF ListsLinked
<1> QED BY <1>1, CoreInvariant, PTL

LEMMA PoolInit == Init => Pool!Init
<1> SUFFICES ASSUME Init PROVE Pool!Init OBVIOUS
<1>1. Inv(<<>>) BY InitInv
<1>2. FreeList = {} BY <1>1, FreeListKnown, EmptyFacts DEF Inv, FreeIs
<1>3. \A w \in Threads : Held(w) \in SUBSET Segments BY <1>1 DEF Inv, Types, OwnOnly
<1> QED BY <1>1, <1>2, <1>3 DEF Pool!Init, Inv, Disjoint

LEMMA PoolStep ==
  ASSUME Core, FreeKnown', Next, NoReturn
  PROVE  [Pool!Next]_<<FreeList, [w \in Threads |-> Held(w)]>>
<1>1. PICK F : Inv(F) BY DEF Core
<1>2. PICK w \in Threads : NewSegment(w) \/ Release(w) BY DEF Next
<1>3. PICK G : Inv(G)' /\ Others(w) /\ Allots(w, Range(F), Range(G))
  BY <1>1, <1>2, NextSteps DEF Steps
<1>4. FreeList = Range(F) /\ Range(F) \subseteq made BY <1>1, FreeListKnown DEF Inv, FreeIs
<1>5. FreeList' = Range(G)
  <2>1. IsFree(G)' BY <1>3 DEF Inv
  <2>2. FreeIs(G)' BY <2>1 DEF FreeKnown
  <2> QED BY <2>2 DEF FreeIs
<1>6. \A v \in Threads \ {w} : Held(v)' = Held(v) BY <1>3 DEF Others, Held
<1>7. Segments \ made \subseteq Segments \ Pool!Allocated
  <2>1. \A v \in Threads : Held(v) \subseteq made BY <1>1 DEF Inv, OwnOnly
  <2> QED BY <1>4, <2>1 DEF Pool!Allocated
<1>8. CASE Took(w, Range(F), Range(G))
  <2>1. PICK s \in Range(F) \cup (Segments \ made) :
          Range(G) = Range(F) \ {s} /\ Held(w)' = Held(w) \cup {s}
    BY <1>8 DEF Took
  <2>2. s \in FreeList \cup (Segments \ Pool!Allocated) BY <1>4, <1>7, <2>1
  <2>3. [v \in Threads |-> Held(v)]' = [[v \in Threads |-> Held(v)] EXCEPT ![w] = @ \cup {s}]
    BY <1>6, <2>1
  <2>4. FreeList' = FreeList \ {s} BY <1>4, <1>5, <2>1
  <2>5. Pool!Take(w) BY <2>2, <2>3, <2>4 DEF Pool!Take
  <2> QED BY <2>5 DEF Pool!Next
<1>9. CASE Gave(w, Range(F), Range(G))
  <2>1. PICK S \in (SUBSET Held(w)) \ {{}} :
          Range(G) = Range(F) \cup S /\ Held(w)' = Held(w) \ S
    BY <1>9 DEF Gave
  <2>2. [v \in Threads |-> Held(v)]' = [[v \in Threads |-> Held(v)] EXCEPT ![w] = @ \ S]
    BY <1>6, <2>1
  <2>3. FreeList' = FreeList \cup S BY <1>4, <1>5, <2>1
  <2>4. Pool!Release(w) BY <2>1, <2>2, <2>3 DEF Pool!Release
  <2> QED BY <2>4 DEF Pool!Next
<1>10. CASE Same(w, Range(F), Range(G))
  <2>1. [v \in Threads |-> Held(v)]' = [v \in Threads |-> Held(v)] BY <1>6, <1>10 DEF Same
  <2>2. FreeList' = FreeList BY <1>4, <1>5, <1>10 DEF Same
  <2> QED BY <2>1, <2>2
<1> QED BY <1>3, <1>8, <1>9, <1>10 DEF Allots

LEMMA PoolStays == UNCHANGED vars => UNCHANGED <<FreeList, [w \in Threads |-> Held(w)]>>
<1> SUFFICES ASSUME UNCHANGED vars PROVE UNCHANGED <<FreeList, [w \in Threads |-> Held(w)]>> OBVIOUS
<1>1. top' = top /\ next' = next /\ pc' = pc /\ chain' = chain /\ old' = old /\ out' = out /\ seg' = seg
  BY DEF vars, lists
<1>2. FreeList' = FreeList BY <1>1 DEF FreeList, Reached
<1>3. [w \in Threads |-> Held(w)]' = [w \in Threads |-> Held(w)] BY <1>1 DEF Held
<1> QED BY <1>2, <1>3

(* So for its users the list is an allocator: the compare-and-swap that    *)
(* succeeds, or the malloc, is the step that takes a segment, the one that *)
(* succeeds in releaseSegments gives a whole list back, nothing else shows.*)
THEOREM TakesAndReleasesAreSteps == Spec /\ [][NoReturn]_vars => Linearizes
<1>1. Core /\ FreeKnown' /\ [Next]_vars /\ [NoReturn]_vars
        => [Pool!Next]_<<FreeList, [w \in Threads |-> Held(w)]>>
  BY PoolStep, PoolStays
<1> QED BY <1>1, AlwaysKnown, PoolInit, CoreInvariant, PTL DEF Spec, Linearizes, Pool!Spec
=============================================================================
