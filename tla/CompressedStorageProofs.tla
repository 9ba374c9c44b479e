----------------------- MODULE CompressedStorageProofs -----------------------
(***************************************************************************)
(* For any number and size of segments, any number of channels and bytes:  *)
(* a reader gets what was written, also while the channels are rewritten,  *)
(* and every segment is in one list.                                       *)
(***************************************************************************)
EXTENDS CompressedStorage, FiniteSetTheorems, WellFoundedInduction, TLAPS

-----------------------------------------------------------------------------
(* Induction *)

LEMMA Smallest ==
  ASSUME NEW S \in SUBSET Nat, S # {}
  PROVE  \E m \in S : \A n \in S : m <= n
<1>1. PICK m \in S : \A n \in S : <<n, m>> \notin OpToRel(<, Nat)
  BY WFMin, NatLessThanWellFounded
<1>2. \A n \in S : ~(n < m) BY <1>1 DEF OpToRel
<1> QED BY <1>2

(* The numbers up to N of which something is shown, as a set.              *)
LEMMA Induction ==
  ASSUME NEW N \in Nat, NEW S, 0 \in S, \A n \in 0 .. N - 1 : n \in S => n + 1 \in S
  PROVE  0 .. N \subseteq S
<1> SUFFICES ASSUME NEW k \in 0 .. N, k \notin S PROVE FALSE OBVIOUS
<1> DEFINE T == (0 .. N) \ S
<1>1. PICK m \in T : \A n \in T : m <= n
  <2>1. T \in SUBSET Nat /\ T # {} OBVIOUS
  <2> QED BY <2>1, Smallest
<1>2. m # 0 OBVIOUS
<1>3. m - 1 \in 0 .. N - 1 /\ m - 1 < m BY <1>2
<1>4. m - 1 \in S BY <1>1, <1>3
<1>5. (m - 1) + 1 \in S BY <1>3, <1>4
<1> QED BY <1>5

-----------------------------------------------------------------------------
(* Sequences and links *)

(* Along l, nx leads from each to the next; after the last to x.           *)
LinkedBy(nx, l) == \A i \in 1 .. Len(l) - 1 : nx[l[i]] = l[i + 1]
Leads(nx, l, x) == l # <<>> => nx[l[Len(l)]] = x
First(l, x) == IF l = <<>> THEN x ELSE l[1]

LEMMA SeqFacts ==
  ASSUME NEW S, NEW s \in Seq(S)
  PROVE  /\ DOMAIN s = 1 .. Len(s) /\ Len(s) \in Nat
         /\ \A i \in 1 .. Len(s) : s[i] \in Range(s) /\ s[i] \in S
         /\ \A x \in Range(s) : x \in S /\ \E i \in 1 .. Len(s) : x = s[i]
         /\ s # <<>> <=> Len(s) > 0
         /\ s # <<>> => Last(s) = s[Len(s)] /\ Last(s) \in Range(s) /\ s[1] \in Range(s)
         /\ Head(s) = s[1]
BY DEF Range, Last

LEMMA EmptyFacts == /\ Range(<<>>) = {} /\ IsInjective(<<>>) /\ Len(<<>>) = 0
                    /\ \A S : <<>> \in Seq(S)
                    /\ \A nx : LinkedBy(nx, <<>>)
BY DEF Range, IsInjective, LinkedBy

LEMMA AppendFacts ==
  ASSUME NEW S, NEW s \in Seq(S), NEW x \in S, x \notin Range(s), IsInjective(s)
  PROVE  /\ Append(s, x) \in Seq(S) /\ IsInjective(Append(s, x)) /\ Append(s, x) # <<>>
         /\ Range(Append(s, x)) = Range(s) \cup {x}
         /\ \A nx : /\ LinkedBy(nx, s) /\ Leads(nx, s, x) => LinkedBy(nx, Append(s, x))
                    /\ Leads(nx, Append(s, x), nx[x])
<1> DEFINE a == Append(s, x)
<1>1. /\ a \in Seq(S) /\ Len(a) = Len(s) + 1 /\ Len(s) \in Nat /\ a # <<>>
      /\ DOMAIN a = 1 .. Len(s) + 1 /\ DOMAIN s = 1 .. Len(s)
      /\ \A i \in 1 .. Len(s) : a[i] = s[i]
      /\ a[Len(s) + 1] = x
  OBVIOUS
<1>2. \A i \in 1 .. Len(s) : s[i] \in Range(s) BY SeqFacts
<1> HIDE DEF a
<1>3. IsInjective(a)
  <2> SUFFICES ASSUME NEW i \in 1 .. Len(s) + 1, NEW j \in 1 .. Len(s) + 1, a[i] = a[j] PROVE i = j
    BY <1>1 DEF IsInjective
  <2>1. CASE i \in 1 .. Len(s) /\ j \in 1 .. Len(s) BY <1>1, <2>1 DEF IsInjective
  <2> QED BY <1>1, <1>2, <2>1
<1>4. Range(a) = Range(s) \cup {x}
  <2>1. ASSUME NEW y \in Range(a) PROVE y \in Range(s) \cup {x}
    <3>1. PICK i \in 1 .. Len(s) + 1 : y = a[i] BY <1>1 DEF Range
    <3>2. i \in 1 .. Len(s) \/ i = Len(s) + 1 BY <1>1
    <3> QED BY <1>1, <1>2, <3>1, <3>2
  <2>2. ASSUME NEW y \in Range(s) PROVE y \in Range(a)
    <3>1. PICK i \in 1 .. Len(s) : y = s[i] BY SeqFacts
    <3> QED BY <1>1, <3>1 DEF Range
  <2>3. x \in Range(a) BY <1>1 DEF Range
  <2> QED BY <2>1, <2>2, <2>3
<1>5. ASSUME NEW nx, LinkedBy(nx, s), Leads(nx, s, x) PROVE LinkedBy(nx, a)
  <2> SUFFICES ASSUME NEW i \in 1 .. Len(s) PROVE nx[a[i]] = a[i + 1] BY <1>1 DEF LinkedBy
  <2>1. CASE i = Len(s)
    <3>1. s # <<>> BY <2>1, SeqFacts
    <3> QED BY <1>1, <1>5, <2>1, <3>1 DEF Leads
  <2>2. CASE i # Len(s)
    <3>1. Len(s) \in Nat BY <1>1
    <3>2. i \in 1 .. Len(s) - 1 /\ i + 1 \in 1 .. Len(s) BY <2>2, <3>1
    <3> QED BY <1>1, <1>5, <3>2 DEF LinkedBy
  <2> QED BY <2>1, <2>2
<1>6. \A nx : Leads(nx, a, nx[x])
  <2>1. a[Len(a)] = x BY <1>1
  <2> QED BY <2>1 DEF Leads
<1> QED BY <1>1, <1>3, <1>4, <1>5, <1>6 DEF a

LEMMA TailFacts ==
  ASSUME NEW S, NEW s \in Seq(S), s # <<>>, IsInjective(s)
  PROVE  /\ Tail(s) \in Seq(S) /\ IsInjective(Tail(s))
         /\ Range(Tail(s)) = Range(s) \ {s[1]}
         /\ \A nx, x : LinkedBy(nx, s) /\ Leads(nx, s, x) =>
              /\ LinkedBy(nx, Tail(s)) /\ Leads(nx, Tail(s), x)
              /\ nx[s[1]] = First(Tail(s), x)
<1> DEFINE t == Tail(s)
<1>1. /\ t \in Seq(S) /\ Len(t) = Len(s) - 1 /\ Len(s) \in Nat \ {0}
      /\ DOMAIN t = 1 .. Len(s) - 1 /\ DOMAIN s = 1 .. Len(s)
      /\ \A i \in 1 .. Len(s) - 1 : t[i] = s[i + 1]
  OBVIOUS
<1> HIDE DEF t
<1>2. t = <<>> <=> Len(s) = 1
  <2>1. t \in Seq(S) /\ Len(t) = Len(s) - 1 /\ Len(s) \in Nat \ {0} BY <1>1
  <2>2. t # <<>> <=> Len(t) > 0 BY <2>1, SeqFacts
  <2>3. Len(t) > 0 <=> Len(s) # 1
    <3>1. \A a, b \in Nat : a = b - 1 => (a > 0 <=> b # 1) OBVIOUS
    <3>2. Len(t) \in Nat /\ Len(s) \in Nat /\ Len(t) = Len(s) - 1 BY <2>1, SeqFacts
    <3> QED BY <3>1, <3>2
  <2> QED BY <2>2, <2>3
<1>3. IsInjective(t)
  <2>1. Len(s) \in Nat BY <1>1
  <2>2. \A i \in 1 .. Len(s) - 1 : i + 1 \in 1 .. Len(s) BY <2>1
  <2>3. ASSUME NEW i \in 1 .. Len(s) - 1, NEW j \in 1 .. Len(s) - 1, t[i] = t[j] PROVE i = j
    <3>1. i + 1 \in DOMAIN s /\ j + 1 \in DOMAIN s BY <1>1, <2>2
    <3>2. s[i + 1] = s[j + 1] BY <1>1, <2>3
    <3>3. i + 1 = j + 1 BY <3>1, <3>2 DEF IsInjective
    <3> QED BY <3>3
  <2> QED BY <1>1, <2>3 DEF IsInjective
<1>4. Range(t) = Range(s) \ {s[1]}
  <2>1. ASSUME NEW y \in Range(t) PROVE y \in Range(s) /\ y # s[1]
    <3>1. PICK i \in 1 .. Len(s) - 1 : y = s[i + 1] BY <1>1 DEF Range
    <3>2. i + 1 \in 1 .. Len(s) /\ i + 1 # 1 /\ 1 \in 1 .. Len(s) BY <1>1
    <3> QED BY <1>1, <3>1, <3>2 DEF Range, IsInjective
  <2>2. ASSUME NEW y \in Range(s), y # s[1] PROVE y \in Range(t)
    <3>1. PICK i \in 1 .. Len(s) : y = s[i] BY <1>1 DEF Range
    <3>2. i - 1 \in 1 .. Len(s) - 1 BY <1>1, <2>2, <3>1
    <3>3. t[i - 1] = y BY <1>1, <3>1, <3>2
    <3> QED BY <1>1, <3>2, <3>3 DEF Range
  <2> QED BY <2>1, <2>2
<1>5. ASSUME NEW nx, NEW x, LinkedBy(nx, s), Leads(nx, s, x)
      PROVE  LinkedBy(nx, t) /\ Leads(nx, t, x) /\ nx[s[1]] = First(t, x)
  <2>1. \A i \in 1 .. Len(t) - 1 : i + 1 \in 1 .. Len(s) - 1 /\ i \in 1 .. Len(s) - 1
    BY <1>1
  <2>2. LinkedBy(nx, t) BY <1>1, <1>5, <2>1 DEF LinkedBy
  <2>3. Leads(nx, t, x)
    <3>1. t # <<>> => Len(t) \in 1 .. Len(s) - 1 /\ Len(t) + 1 = Len(s) BY <1>1, <1>2
    <3> QED BY <1>1, <1>5, <3>1 DEF Leads
  <2>4. nx[s[1]] = First(t, x)
    <3>1. CASE Len(s) = 1 BY <1>1, <1>2, <1>5, <3>1 DEF Leads, First
    <3>2. CASE Len(s) # 1
      <4>1. 1 \in 1 .. Len(s) - 1 BY <1>1, <3>2
      <4> QED BY <1>1, <1>2, <1>5, <3>2, <4>1 DEF LinkedBy, First
    <3> QED BY <3>1, <3>2
  <2> QED BY <2>2, <2>3, <2>4
<1> QED BY <1>1, <1>3, <1>4, <1>5 DEF t

(* One list in front of another.                                           *)
LEMMA ConcatFacts ==
  ASSUME NEW S, NEW s \in Seq(S), s # <<>>, NEW t \in Seq(S), Range(s) \cap Range(t) = {},
         IsInjective(s), IsInjective(t)
  PROVE  /\ s \o t \in Seq(S) /\ s \o t # <<>> /\ IsInjective(s \o t) /\ (s \o t)[1] = s[1]
         /\ Range(s \o t) = Range(s) \cup Range(t)
         /\ \A nx, x : /\ LinkedBy(nx, s) /\ LinkedBy(nx, t)
                       /\ Leads(nx, s, First(t, x)) /\ Leads(nx, t, x)
              => LinkedBy(nx, s \o t) /\ Leads(nx, s \o t, x)
<1> DEFINE m == Len(s)
           n == Len(t)
           c == s \o t
<1>1. /\ c \in Seq(S) /\ Len(c) = m + n
      /\ \A i \in 1 .. m : c[i] = s[i]
      /\ \A i \in 1 .. n : c[m + i] = t[i]
  OBVIOUS
<1>2. m \in Nat \ {0} /\ n \in Nat BY SeqFacts
<1>3. DOMAIN s = 1 .. m /\ DOMAIN t = 1 .. n /\ DOMAIN c = 1 .. m + n BY <1>1, SeqFacts
<1>4. /\ \A i \in 1 .. m : s[i] \in Range(s)
      /\ \A i \in 1 .. n : t[i] \in Range(t)
      /\ t = <<>> <=> n = 0
  BY <1>2, SeqFacts
<1> HIDE DEF m, n, c
<1>5. ASSUME NEW i \in 1 .. m + n PROVE i \in 1 .. m \/ (i - m \in 1 .. n /\ m + (i - m) = i)
  BY <1>2
<1>6. ASSUME NEW i \in 1 .. m + n
      PROVE  \/ i \in 1 .. m /\ c[i] = s[i]
             \/ i - m \in 1 .. n /\ c[i] = t[i - m]
  BY <1>1, <1>5
<1>7. c # <<>> /\ c[1] = s[1]
  <2>1. 1 \in 1 .. m /\ m + n > 0 BY <1>2
  <2>2. Len(c) > 0 BY <1>1, <2>1
  <2> QED BY <1>1, <2>1, <2>2, SeqFacts
<1>8. Range(c) = Range(s) \cup Range(t)
  <2>1. ASSUME NEW y \in Range(c) PROVE y \in Range(s) \cup Range(t)
    <3>1. PICK i \in 1 .. m + n : y = c[i] BY <1>3 DEF Range
    <3> QED BY <1>4, <1>6, <3>1
  <2>2. ASSUME NEW y \in Range(s) PROVE y \in Range(c)
    <3>1. PICK i \in 1 .. m : y = s[i] BY <1>3 DEF Range
    <3>2. i \in 1 .. m + n BY <1>2
    <3> QED BY <1>1, <1>3, <3>1, <3>2 DEF Range
  <2>3. ASSUME NEW y \in Range(t) PROVE y \in Range(c)
    <3>1. PICK i \in 1 .. n : y = t[i] BY <1>3 DEF Range
    <3>2. m + i \in 1 .. m + n BY <1>2
    <3> QED BY <1>1, <1>3, <3>1, <3>2 DEF Range
  <2> QED BY <2>1, <2>2, <2>3
<1>9. IsInjective(c)
  <2> SUFFICES ASSUME NEW i \in 1 .. m + n, NEW j \in 1 .. m + n, c[i] = c[j] PROVE i = j
    BY <1>3 DEF IsInjective
  <2>1. CASE i \in 1 .. m /\ c[i] = s[i] /\ j \in 1 .. m /\ c[j] = s[j]
    BY <1>3, <2>1 DEF IsInjective
  <2>2. CASE i - m \in 1 .. n /\ c[i] = t[i - m] /\ j - m \in 1 .. n /\ c[j] = t[j - m]
    <3>1. i - m = j - m BY <1>3, <2>2 DEF IsInjective
    <3> QED BY <1>2, <3>1
  <2> QED BY <1>4, <1>6, <2>1, <2>2
<1>10. ASSUME NEW nx, NEW x, LinkedBy(nx, s), LinkedBy(nx, t),
              Leads(nx, s, First(t, x)), Leads(nx, t, x)
       PROVE  LinkedBy(nx, c) /\ Leads(nx, c, x)
  <2>1. nx[s[m]] = First(t, x) BY <1>10 DEF Leads, m
  <2>2. ASSUME NEW i \in 1 .. m + n - 1 PROVE nx[c[i]] = c[i + 1]
    <3>1. CASE i < m
      <4>1. i \in 1 .. m /\ i + 1 \in 1 .. m /\ i \in 1 .. m - 1 BY <1>2, <3>1
      <4>2. nx[s[i]] = s[i + 1] BY <1>10, <4>1 DEF LinkedBy, m
      <4> QED BY <1>1, <4>1, <4>2
    <3>2. CASE i = m
      <4>1. 1 \in 1 .. n /\ m \in 1 .. m BY <1>2, <3>2
      <4>2. First(t, x) = t[1] BY <1>2, <1>4, <4>1 DEF First
      <4> QED BY <1>1, <2>1, <3>2, <4>1, <4>2
    <3>3. CASE i > m
      <4>1. i - m \in 1 .. n - 1 /\ (i - m) + 1 \in 1 .. n /\ i - m \in 1 .. n
            /\ m + (i - m) = i /\ m + ((i - m) + 1) = i + 1
        BY <1>2, <3>3
      <4>2. nx[t[i - m]] = t[(i - m) + 1] BY <1>10, <4>1 DEF LinkedBy, n
      <4>3. c[m + (i - m)] = t[i - m] /\ c[m + ((i - m) + 1)] = t[(i - m) + 1] BY <1>1, <4>1
      <4> QED BY <4>1, <4>2, <4>3
    <3> QED BY <1>2, <3>1, <3>2, <3>3
  <2>3. LinkedBy(nx, c)
    <3>1. Len(c) = m + n BY <1>1
    <3> QED BY <1>2, <2>2, <3>1 DEF LinkedBy
  <2>4. nx[c[m + n]] = x
    <3>1. CASE n = 0
      <4>1. First(t, x) = x BY <1>4, <3>1 DEF First
      <4>2. m \in 1 .. m /\ m + n = m BY <1>2, <3>1
      <4> QED BY <1>1, <2>1, <4>1, <4>2
    <3>2. CASE n # 0
      <4>1. n \in 1 .. n /\ t # <<>> BY <1>2, <1>4, <3>2
      <4>2. nx[t[n]] = x BY <1>10, <4>1 DEF Leads, n
      <4> QED BY <1>1, <4>1, <4>2
    <3> QED BY <3>1, <3>2
  <2> QED BY <1>1, <2>3, <2>4 DEF Leads
<1> QED BY <1>1, <1>7, <1>8, <1>9, <1>10 DEF c

(* Links changed elsewhere leave a list alone.                             *)
LEMMA FrameFacts ==
  ASSUME NEW S, NEW l \in Seq(S), NEW nx, NEW ny, \A s \in Range(l) : ny[s] = nx[s]
  PROVE  /\ LinkedBy(nx, l) => LinkedBy(ny, l)
         /\ \A x : Leads(nx, l, x) => Leads(ny, l, x)
<1>1. Len(l) \in Nat /\ \A i \in 1 .. Len(l) : ny[l[i]] = nx[l[i]] BY SeqFacts
<1>2. \A i \in 1 .. Len(l) - 1 : i \in 1 .. Len(l) BY <1>1
<1>3. l # <<>> => Len(l) \in 1 .. Len(l)
  <2>1. l # <<>> => Len(l) > 0 BY SeqFacts
  <2> QED BY <1>1, <2>1
<1> QED BY <1>1, <1>2, <1>3 DEF LinkedBy, Leads

LEMMA ReverseFacts ==
  ASSUME NEW S, NEW s \in Seq(S), IsInjective(s)
  PROVE  Reverse(s) \in Seq(S) /\ IsInjective(Reverse(s)) /\ Range(Reverse(s)) = Range(s)
<1> DEFINE n == Len(s)
           r == Reverse(s)
<1>1. n \in Nat /\ DOMAIN s = 1 .. n /\ \A i \in 1 .. n : s[i] \in S BY SeqFacts
<1>2. r = [i \in 1 .. n |-> s[(n - i) + 1]] BY DEF Reverse
<1> HIDE DEF n, r
<1>3. \A i \in 1 .. n : (n - i) + 1 \in 1 .. n BY <1>1
<1>4. r \in Seq(S) /\ DOMAIN r = 1 .. n BY <1>1, <1>2, <1>3
<1>5. IsInjective(r)
  <2> SUFFICES ASSUME NEW i \in 1 .. n, NEW j \in 1 .. n, r[i] = r[j] PROVE i = j
    BY <1>4 DEF IsInjective
  <2>1. (n - i) + 1 = (n - j) + 1 BY <1>1, <1>2, <1>3 DEF IsInjective
  <2> QED BY <1>1, <2>1
<1>6. Range(r) = Range(s)
  <2>1. ASSUME NEW i \in 1 .. n PROVE r[i] \in Range(s) BY <1>1, <1>2, <1>3 DEF Range
  <2>2. ASSUME NEW i \in 1 .. n PROVE s[i] \in Range(r)
    <3>1. (n - i) + 1 \in 1 .. n /\ (n - ((n - i) + 1)) + 1 = i BY <1>1
    <3>2. r[(n - i) + 1] = s[i] BY <1>2, <3>1
    <3> QED BY <1>4, <3>1, <3>2 DEF Range
  <2> QED BY <1>1, <1>4, <2>1, <2>2 DEF Range
<1> QED BY <1>4, <1>5, <1>6 DEF r

-----------------------------------------------------------------------------
(* The inductive invariant                                                 *)

Free         == <<"free", 0>>
Contents(ch) == <<"contents", ch>>
Unread(ch)   == <<"unread", ch>>

(* Following the links nx from x meets the segments of l and ends.         *)
Spells(nx, l, x) == /\ l \in Seq(Segments) /\ IsInjective(l) /\ x = First(l, Nil)
                    /\ LinkedBy(nx, l) /\ Leads(nx, l, Nil)

Types ==
  /\ top \in 0 .. MaxSegments /\ made \in 0 .. MaxSegments
  /\ next \in [Segments -> 0 .. MaxSegments]
  /\ data \in [Segments -> [Positions -> Nat]]
  /\ head \in [Channels -> 0 .. MaxSegments]
  /\ compress \in [Channels -> IndexType] /\ decompress \in [Channels -> IndexType]
  /\ bytes \in Nat /\ numSegments \in Nat /\ generation \in {0, 1}
  /\ mode \in {"idle", "opened", "update", "closing", "reading", "discarded"}
  /\ reader \in {"none", "readBytes", "readBytesAndConsume"}
  /\ got \in [Channels -> Seq(Nat)] /\ written \in [Channels -> Seq(Nat)]
  /\ stored \in [Channels -> Seq(Nat)]
  /\ file \in [chunks : [Channels -> Seq([Positions -> Nat])], stored : [Channels -> Seq(Nat)]]

(* L has the segments of every list.                                       *)
Lists(L) ==
  /\ L \in [Places -> Seq(Segments)]
  /\ \A x \in Places : Spells(next, L[x], Start(x))
  /\ \A x, y \in Places : x # y => Range(L[x]) \cap Range(L[y]) = {}
  /\ \A s \in Segments : s <= made <=> \E x \in Places : s \in Range(L[x])

(* Bytes before byte p of the i-th segment.                                *)
Offset(i, p) == SegmentSize * (i - 1) + p

(* The segments of l have the bytes of w from the b-th on.                 *)
Holds(dt, l, b, w) == \A i \in 1 .. Len(l), p \in Positions :
                        b + Offset(i, p) < Len(w) => dt[l[i]][p] = w[b + Offset(i, p) + 1]

(* The segments of l have the first k bytes of the file's segments.        *)
Loaded(dt, l, k, chunks) ==
  /\ k <= SegmentSize * Len(chunks)
  /\ \A i \in 1 .. Len(l), p \in Positions :
       Offset(i, p) < k => i \in 1 .. Len(chunks) /\ dt[l[i]][p] = chunks[i][p]

(* The cursor of a compressor is behind the last byte of the last segment. *)
CursorAt(c, l) == IF l = <<>> THEN c = NewIndex(Nil)
                  ELSE c.segment = l[Len(l)] /\ c.finished = Len(l) - 1
                       /\ c.pos \in 1 .. SegmentSize

(* With the segments l and the cursor c: what is written, w, while there   *)
(* is a compressor, what was, st, while there is none.                     *)
Writes(m, dt, l, c, w, st, chunks) ==
  /\ m = "opened" => l = <<>>
  /\ m # "opened" => CursorAt(c, l)
  /\ m \in {"update", "closing"} => Len(w) = Filled(c) /\ Holds(dt, l, 0, w)
  /\ m \in {"idle", "reading"} => /\ Len(st) <= Filled(c) /\ Holds(dt, l, 0, st)
                                  /\ st = <<>> => l = <<>>
  /\ m = "discarded" => Loaded(dt, l, Filled(c), chunks)

(* r is what a reader at d has left of w; it has delivered b bytes before. *)
Reads(nx, dt, r, d, g, w) ==
  /\ Spells(nx, r, d.segment)
  /\ Len(g) - d.pos >= 0 /\ (r = <<>> => d.pos = 0)
  /\ Len(w) <= (Len(g) - d.pos) + SegmentSize * Len(r) /\ Holds(dt, r, Len(g) - d.pos, w)
  /\ \A i \in DOMAIN g \cap DOMAIN w : g[i] = w[i]

WriterAt(ch, l) == Writes(mode, data, l, compress[ch], written[ch], stored[ch], file.chunks[ch])
ReaderAt(ch, r) == Reads(next, data, r, decompress[ch], got[ch], stored[ch])

WritersInv(L) == \A ch \in Channels : WriterAt(ch, L[Contents(ch)])
ReadersInv(R) == reader # "none" => \A ch \in Channels : ReaderAt(ch, R[ch])
ConsumesInv(L, R) == reader = "readBytesAndConsume" => \A ch \in Channels : R[ch] = L[Unread(ch)]

FileAt(chunks, w) ==
  /\ Len(w) <= SegmentSize * Len(chunks) /\ (w = <<>> <=> chunks = <<>>)
  /\ \A i \in 1 .. Len(chunks), p \in Positions :
       Offset(i, p) < Len(w) => chunks[i][p] = w[Offset(i, p) + 1]

FileInv == \A ch \in Channels : FileAt(file.chunks[ch], file.stored[ch])

(* A storage that is empty is known to be; cursors without a reader have   *)
(* nothing to give back.                                                   *)
ModesInv ==
  /\ reader = "readBytesAndConsume" => mode \in {"opened", "update"}
  /\ reader = "readBytes" => mode = "reading"
  /\ mode \in {"idle", "reading"} => (bytes = 0 <=> stored = Empty)
  /\ mode \in {"reading", "opened", "update"} => (reader = "none" <=> stored = Empty)
  /\ reader = "none" /\ (mode \in {"opened", "update", "closing", "discarded"} \/ stored = Empty)
       => \A ch \in Channels : decompress[ch].segment = Nil

Inv(L, R) == /\ Types /\ Lists(L) /\ WritersInv(L)
             /\ ReadersInv(R) /\ ConsumesInv(L, R) /\ FileInv /\ ModesInv

-----------------------------------------------------------------------------
(* Numbers                                                                 *)

LEMMA Numbers ==
  /\ NumChannels \in Nat \ {0} /\ SegmentSize \in Nat \ {0} /\ MaxSegments \in Nat \ {0}
  /\ Channels = 1 .. NumChannels /\ Segments = 1 .. MaxSegments
  /\ Positions = 0 .. SegmentSize - 1 /\ Nil = 0
  /\ \A s \in Segments : s # Nil /\ s \in 0 .. MaxSegments
  /\ \A s \in 0 .. MaxSegments : s # Nil => s \in Segments
BY SizesAssumption DEF Channels, Segments, Positions, Nil

LEMMA Product ==
  ASSUME NEW a \in Nat, NEW b \in Nat
  PROVE  /\ SegmentSize * a \in Nat
         /\ SegmentSize * (a + 1) = SegmentSize * a + SegmentSize
         /\ a <= b => SegmentSize * a <= SegmentSize * b
         /\ SegmentSize * 0 = 0
<1>1. SegmentSize \in Nat /\ SegmentSize > 0 BY Numbers
<1>2. \A S, x \in Nat : S * x \in Nat /\ S * (x + 1) = S * x + S /\ S * 0 = 0 OBVIOUS
<1>3. \A S, x, y \in Nat : S * (x + y) = S * x + S * y OBVIOUS
<1>4. ASSUME a <= b PROVE SegmentSize * a <= SegmentSize * b
  <2>1. b - a \in Nat /\ a + (b - a) = b BY <1>4
  <2>2. SegmentSize * b = SegmentSize * a + SegmentSize * (b - a) BY <1>1, <1>3, <2>1
  <2>3. SegmentSize * (b - a) \in Nat /\ SegmentSize * a \in Nat BY <1>1, <1>2, <2>1
  <2> QED BY <2>2, <2>3
<1> QED BY <1>1, <1>2, <1>4

LEMMA Offsets ==
  ASSUME NEW i \in Nat \ {0}, NEW p \in Positions
  PROVE  /\ Offset(i, p) \in Nat /\ p \in Nat /\ p < SegmentSize
         /\ Offset(i + 1, p) = Offset(i, p) + SegmentSize
         /\ \A n \in Nat : Offset(i, p) < SegmentSize * n <=> i <= n
         /\ \A j \in Nat \ {0}, q \in Positions : Offset(i, p) = Offset(j, q) => i = j /\ p = q
<1>1. SegmentSize \in Nat /\ p \in Nat /\ p < SegmentSize /\ i - 1 \in Nat BY Numbers
<1>2. SegmentSize * (i - 1) \in Nat BY <1>1, Product
<1>3. Offset(i, p) = SegmentSize * (i - 1) + p BY DEF Offset
<1>4. Offset(i + 1, p) = Offset(i, p) + SegmentSize
  <2>1. (i - 1) + 1 = (i + 1) - 1 OBVIOUS
  <2>2. SegmentSize * ((i - 1) + 1) = SegmentSize * (i - 1) + SegmentSize BY <1>1, Product
  <2>3. Offset(i + 1, p) = SegmentSize * ((i + 1) - 1) + p BY DEF Offset
  <2>4. Offset(i + 1, p) = (SegmentSize * (i - 1) + SegmentSize) + p BY <2>1, <2>2, <2>3
  <2>5. \A a, b, c \in Nat : (a + b) + c = (a + c) + b OBVIOUS
  <2> QED BY <1>1, <1>2, <1>3, <2>4, <2>5
<1>5. ASSUME NEW n \in Nat PROVE Offset(i, p) < SegmentSize * n <=> i <= n
  <2>1. SegmentSize * n \in Nat BY Product
  <2>2. CASE i <= n
    <3>1. (i - 1) + 1 <= n /\ (i - 1) + 1 \in Nat BY <2>2
    <3>2. SegmentSize * ((i - 1) + 1) <= SegmentSize * n BY <3>1, Product
    <3>3. SegmentSize * ((i - 1) + 1) = SegmentSize * (i - 1) + SegmentSize BY <1>1, Product
    <3> QED BY <1>1, <1>2, <1>3, <2>1, <2>2, <3>2, <3>3
  <2>3. CASE ~(i <= n)
    <3>1. n <= i - 1 BY <2>3
    <3>2. SegmentSize * n <= SegmentSize * (i - 1) BY <1>1, <3>1, Product
    <3> QED BY <1>1, <1>2, <1>3, <2>1, <2>3, <3>2
  <2> QED BY <2>2, <2>3
<1>6. ASSUME NEW j \in Nat \ {0}, NEW q \in Positions, Offset(i, p) = Offset(j, q)
      PROVE  i = j /\ p = q
  <2>1. q \in Nat /\ q < SegmentSize /\ j - 1 \in Nat BY Numbers
  <2>2. SegmentSize * (j - 1) \in Nat BY <2>1, Product
  <2>3. Offset(j, q) = SegmentSize * (j - 1) + q BY DEF Offset
  <2>4. ~(i < j)
    <3> SUFFICES ASSUME i < j PROVE FALSE OBVIOUS
    <3>1. (i - 1) + 1 <= j - 1 OBVIOUS
    <3>2. SegmentSize * ((i - 1) + 1) <= SegmentSize * (j - 1) BY <1>1, <2>1, <3>1, Product
    <3>3. SegmentSize * ((i - 1) + 1) = SegmentSize * (i - 1) + SegmentSize BY <1>1, Product
    <3> QED BY <1>1, <1>2, <1>3, <1>6, <2>1, <2>2, <2>3, <3>2, <3>3
  <2>5. ~(j < i)
    <3> SUFFICES ASSUME j < i PROVE FALSE OBVIOUS
    <3>1. (j - 1) + 1 <= i - 1 OBVIOUS
    <3>2. SegmentSize * ((j - 1) + 1) <= SegmentSize * (i - 1) BY <1>1, <2>1, <3>1, Product
    <3>3. SegmentSize * ((j - 1) + 1) = SegmentSize * (j - 1) + SegmentSize BY <2>1, Product
    <3> QED BY <1>1, <1>2, <1>3, <1>6, <2>1, <2>2, <2>3, <3>2, <3>3
  <2>6. i = j BY <2>4, <2>5
  <2> QED BY <1>1, <1>2, <1>3, <1>6, <2>1, <2>2, <2>3, <2>6
<1> QED BY <1>1, <1>2, <1>3, <1>4, <1>5, <1>6

(* Every number is at a place of a segment.                                *)
LEMMA Division ==
  ASSUME NEW n \in Nat
  PROVE  /\ n \div SegmentSize + 1 \in Nat \ {0} /\ n % SegmentSize \in Positions
         /\ n = Offset(n \div SegmentSize + 1, n % SegmentSize)
<1> DEFINE j == n \div SegmentSize
           q == n % SegmentSize
<1>1. n \in Nat /\ SegmentSize \in Nat \ {0} BY Numbers
<1>2. j \in Nat /\ q \in 0 .. SegmentSize - 1 /\ n = SegmentSize * j + q BY <1>1, Z3
<1> HIDE DEF j, q
<1>3. j + 1 \in Nat \ {0} /\ q \in Positions /\ (j + 1) - 1 = j BY <1>2, Numbers
<1>4. n = Offset(j + 1, q) BY <1>2, <1>3 DEF Offset
<1> QED BY <1>3, <1>4 DEF j, q

-----------------------------------------------------------------------------
(* The recursive functions of the model                                    *)

LEMMA Bounded ==
  ASSUME NEW l \in Seq(Segments), IsInjective(l)
  PROVE  Len(l) \in 0 .. MaxSegments
<1>1. l \in [1 .. Len(l) -> Segments] /\ Len(l) \in Nat OBVIOUS
<1>2. l \in Injection(1 .. Len(l), Segments)
  <2>1. DOMAIN l = 1 .. Len(l) BY SeqFacts
  <2> QED BY <1>1, <2>1 DEF Injection, IsInjective
<1>3. \A n \in Nat : IsFiniteSet(1 .. n) /\ Cardinality(1 .. n) = n
  <2> TAKE n \in Nat
  <2>1. IsFiniteSet(1 .. n) /\ Cardinality(1 .. n) = IF 1 > n THEN 0 ELSE n - 1 + 1 BY FS_Interval
  <2> QED BY <2>1
<1>4. Cardinality(1 .. Len(l)) <= Cardinality(1 .. MaxSegments)
  BY <1>2, <1>3, FS_Injection, Numbers
<1> QED BY <1>1, <1>3, <1>4, Numbers

(* The first k of l. *)
Prefix(l, k) == [i \in 1 .. k |-> l[i]]

LEMMA PrefixFacts ==
  ASSUME NEW S, NEW l \in Seq(S)
  PROVE  /\ \A k \in 0 .. Len(l) : Prefix(l, k) \in Seq(S) /\ Len(Prefix(l, k)) = k
         /\ Prefix(l, 0) = <<>> /\ Prefix(l, Len(l)) = l
         /\ \A k \in 1 .. Len(l) : Prefix(l, k) # <<>> /\ Last(Prefix(l, k)) = l[k]
         /\ \A k \in 0 .. Len(l) - 1 : Append(Prefix(l, k), l[k + 1]) = Prefix(l, k + 1)
<1>1. Len(l) \in Nat /\ \A i \in 1 .. Len(l) : l[i] \in S BY SeqFacts
<1>2. ASSUME NEW k \in 0 .. Len(l) PROVE Prefix(l, k) \in Seq(S) /\ Len(Prefix(l, k)) = k
  <2>1. \A i \in 1 .. k : l[i] \in S BY <1>1
  <2> QED BY <1>1, <2>1 DEF Prefix
<1>3. Prefix(l, 0) = <<>> BY DEF Prefix
<1>4. Prefix(l, Len(l)) = l BY DEF Prefix
<1>5. ASSUME NEW k \in 1 .. Len(l) PROVE Prefix(l, k) # <<>> /\ Last(Prefix(l, k)) = l[k]
  <2>1. Prefix(l, k) \in Seq(S) /\ Len(Prefix(l, k)) = k /\ k > 0 BY <1>1, <1>2
  <2>2. Prefix(l, k)[k] = l[k] BY <1>1 DEF Prefix
  <2> QED BY <2>1, <2>2, SeqFacts
<1>6. ASSUME NEW k \in 0 .. Len(l) - 1 PROVE Append(Prefix(l, k), l[k + 1]) = Prefix(l, k + 1)
  <2> DEFINE p == Prefix(l, k)
             q == Prefix(l, k + 1)
             a == Append(p, l[k + 1])
  <2>1. k \in Nat /\ k \in 0 .. Len(l) /\ k + 1 \in 0 .. Len(l) /\ k + 1 \in 1 .. Len(l) BY <1>1
  <2>2. p \in Seq(S) /\ Len(p) = k /\ q \in Seq(S) /\ Len(q) = k + 1 /\ l[k + 1] \in S
    BY <1>1, <1>2, <2>1
  <2>3. \A i \in 1 .. k : p[i] = l[i] BY DEF Prefix
  <2>4. \A i \in 1 .. k + 1 : q[i] = l[i] BY DEF Prefix
  <2> HIDE DEF p, q
  <2>5. a \in Seq(S) /\ Len(a) = k + 1 /\ \A i \in 1 .. k : a[i] = p[i] BY <2>2
  <2>6. a[k + 1] = l[k + 1] BY <2>2
  <2>7. \A i \in 1 .. k + 1 : i \in 1 .. k \/ i = k + 1 BY <2>1
  <2>8. \A i \in 1 .. k + 1 : a[i] = q[i] BY <2>3, <2>4, <2>5, <2>6, <2>7
  <2> HIDE DEF a
  <2>9. a = q BY <2>2, <2>5, <2>8
  <2> QED BY <2>9 DEF a, p, q
<1> QED BY <1>2, <1>3, <1>4, <1>5, <1>6

(* Following the links finds the list. *)
LEMMA ListKnown == ASSUME NEW l, NEW s, Spells(next, l, s) PROVE List(s) = l
<1> DEFINE m == Len(l)
           f == [n \in 0 .. MaxSegments |-> IF n <= m THEN Prefix(l, n) ELSE l]
           Next1(p) == IF p = <<>> THEN s ELSE next[Last(p)]
           After(p) == IF Next1(p) = Nil THEN p ELSE Append(p, Next1(p))
           Step(g) == [n \in 0 .. MaxSegments |-> IF n = 0 THEN <<>> ELSE After(g[n - 1])]
<1>1. /\ l \in Seq(Segments) /\ IsInjective(l) /\ m \in 0 .. MaxSegments
      /\ m \in Nat /\ MaxSegments \in Nat
  BY Bounded, Numbers DEF Spells
<1>2. \A i \in 1 .. m : l[i] \in Segments /\ l[i] # Nil BY <1>1, SeqFacts, Numbers
<1>3. l # <<>> <=> m > 0 BY <1>1, SeqFacts
<1>4. /\ \A k \in 0 .. m : Prefix(l, k) \in Seq(Segments) /\ Len(Prefix(l, k)) = k
      /\ Prefix(l, 0) = <<>> /\ Prefix(l, m) = l
      /\ \A k \in 1 .. m : Prefix(l, k) # <<>> /\ Last(Prefix(l, k)) = l[k]
      /\ \A k \in 0 .. m - 1 : Append(Prefix(l, k), l[k + 1]) = Prefix(l, k + 1)
  BY <1>1, PrefixFacts
<1> HIDE DEF m
<1>5. ASSUME NEW k \in 0 .. m
      PROVE  After(Prefix(l, k)) = IF k < m THEN Prefix(l, k + 1) ELSE l
  <2>1. Next1(Prefix(l, k)) = IF k < m THEN l[k + 1] ELSE Nil
    <3>1. CASE k = 0
      <4>1. Next1(Prefix(l, k)) = First(l, Nil) BY <1>4, <3>1 DEF Spells
      <4> QED BY <1>1, <1>3, <3>1, <4>1 DEF First
    <3>2. CASE k # 0
      <4>1. k \in 1 .. m BY <3>2, <1>1
      <4>2. Next1(Prefix(l, k)) = next[l[k]] BY <1>4, <4>1
      <4>3. CASE k < m
        <5>1. k \in 1 .. m - 1 BY <1>1, <4>1, <4>3
        <5>2. next[l[k]] = l[k + 1] BY <5>1 DEF Spells, LinkedBy, m
        <5> QED BY <4>2, <4>3, <5>2
      <4>4. CASE ~(k < m)
        <5>1. k = m /\ l # <<>> BY <1>1, <1>3, <4>1, <4>4
        <5>2. next[l[k]] = Nil BY <5>1 DEF Spells, Leads, m
        <5> QED BY <4>2, <4>4, <5>2
      <4> QED BY <4>3, <4>4
    <3> QED BY <3>1, <3>2
  <2> HIDE DEF Next1
  <2>2. CASE k < m
    <3>1. k + 1 \in 1 .. m /\ k \in 0 .. m - 1 BY <1>1, <2>2
    <3> QED BY <1>2, <1>4, <2>1, <2>2, <3>1
  <2>3. CASE ~(k < m)
    <3>1. k = m BY <1>1, <2>3
    <3> QED BY <1>4, <2>1, <2>3, <3>1
  <2> QED BY <2>2, <2>3
<1> HIDE DEF After
<1>6. f = Step(f)
  <2>1. ASSUME NEW n \in 0 .. MaxSegments PROVE f[n] = Step(f)[n]
    <3>1. CASE n = 0 BY <1>1, <1>4, <3>1
    <3>2. CASE n # 0
      <4>1. n - 1 \in 0 .. MaxSegments /\ (n - 1) + 1 = n BY <1>1, <3>2
      <4>2. Step(f)[n] = After(f[n - 1]) BY <3>2
      <4>3. CASE n - 1 <= m
        <5>1. n - 1 \in 0 .. m /\ f[n - 1] = Prefix(l, n - 1) BY <1>1, <4>1, <4>3
        <5>2. After(f[n - 1]) = IF n - 1 < m THEN Prefix(l, (n - 1) + 1) ELSE l BY <1>5, <5>1
        <5>3. n - 1 < m <=> n <= m BY <1>1
        <5> QED BY <4>1, <4>2, <5>2, <5>3
      <4>4. CASE ~(n - 1 <= m)
        <5>1. f[n - 1] = Prefix(l, m) /\ ~(n <= m) BY <1>1, <1>4, <4>1, <4>4
        <5>2. After(f[n - 1]) = l BY <1>1, <1>5, <5>1
        <5> QED BY <4>2, <5>1, <5>2
      <4> QED BY <4>3, <4>4
    <3> QED BY <3>1, <3>2
  <2>2. f = [n \in 0 .. MaxSegments |-> f[n]] OBVIOUS
  <2>3. Step(f) = [n \in 0 .. MaxSegments |-> Step(f)[n]] OBVIOUS
  <2> HIDE DEF f, Step
  <2> QED BY <2>1, <2>2, <2>3
<1> DEFINE h == CHOOSE g : g = Step(g)
<1>7. h = Step(h) BY <1>6
<1>8. List(s) = IF s = Nil THEN <<>> ELSE h[MaxSegments] BY Zenon DEF List, Step, After, Next1
<1> HIDE DEF h
<1>9. \A n \in 0 .. MaxSegments : h[n] = f[n]
  <2> DEFINE E == {n \in 0 .. MaxSegments : h[n] = f[n]}
  <2>1. 0 \in E
    <3>1. \A g : Step(g)[0] = <<>> BY <1>1
    <3> HIDE DEF Step, f
    <3> QED BY <1>1, <1>6, <1>7, <3>1
  <2>2. ASSUME NEW n \in 0 .. MaxSegments - 1, n \in E PROVE n + 1 \in E
    <3>1. n + 1 \in 0 .. MaxSegments /\ (n + 1) - 1 = n /\ n + 1 # 0 BY <1>1
    <3>2. \A g : Step(g)[n + 1] = After(g[(n + 1) - 1]) BY <3>1
    <3> HIDE DEF Step, f
    <3> QED BY <1>6, <1>7, <2>2, <3>1, <3>2
  <2> HIDE DEF E
  <2>3. 0 .. MaxSegments \subseteq E BY <1>1, <2>1, <2>2, Induction
  <2> QED BY <2>3 DEF E
<1>10. f[MaxSegments] = l
  <2>1. MaxSegments \in 0 .. MaxSegments BY <1>1
  <2>2. MaxSegments <= m => MaxSegments = m BY <1>1
  <2> QED BY <1>4, <2>1, <2>2
<1>11. s = Nil => l = <<>>
  <2>1. l # <<>> => l[1] # Nil BY <1>1, <1>2, <1>3
  <2> QED BY <2>1 DEF Spells, First
<1>12. MaxSegments \in 0 .. MaxSegments BY <1>1
<1> HIDE DEF f
<1> QED BY <1>8, <1>9, <1>10, <1>11, <1>12

(* A value for 0 and a step from each number to the next give a function.  *)
Recurs(f, N, T, b, st) == /\ f \in [0 .. N -> T] /\ f[0] = b
                          /\ \A n \in 1 .. N : f[n] = st[<<n, f[n - 1]>>]

LEMMA Recursion ==
  ASSUME NEW N \in Nat, NEW T, NEW b \in T, NEW st \in [(1 .. N) \X T -> T]
  PROVE  \E f : Recurs(f, N, T, b, st)
<1> DEFINE Known(n) == \E f \in [0 .. n -> T] :
                         f[0] = b /\ \A k \in 1 .. n : f[k] = st[<<k, f[k - 1]>>]
           E == {n \in 0 .. N : Known(n)}
<1>1. 0 \in E
  <2> DEFINE g == [k \in 0 .. 0 |-> b]
  <2>1. g \in [0 .. 0 -> T] /\ g[0] = b OBVIOUS
  <2> HIDE DEF g
  <2>2. Known(0) BY <2>1
  <2> QED BY <2>2
<1>2. ASSUME NEW n \in 0 .. N - 1, n \in E PROVE n + 1 \in E
  <2>1. PICK f \in [0 .. n -> T] : f[0] = b /\ \A k \in 1 .. n : f[k] = st[<<k, f[k - 1]>>]
    BY <1>2
  <2>2. n + 1 \in 1 .. N /\ n \in 0 .. n /\ (n + 1) - 1 = n /\ n + 1 \notin 0 .. n OBVIOUS
  <2> DEFINE x == st[<<n + 1, f[n]>>]
             g == [k \in 0 .. n + 1 |-> IF k = n + 1 THEN x ELSE f[k]]
  <2>3. x \in T BY <2>1, <2>2
  <2> HIDE DEF x
  <2>4. \A k \in 0 .. n + 1 : k = n + 1 \/ k \in 0 .. n OBVIOUS
  <2>5. g \in [0 .. n + 1 -> T] BY <2>1, <2>3, <2>4
  <2>6. g[n + 1] = x /\ \A k \in 0 .. n : g[k] = f[k] OBVIOUS
  <2> HIDE DEF g
  <2>7. g[0] = b BY <2>1, <2>6
  <2>8. ASSUME NEW k \in 1 .. n + 1 PROVE g[k] = st[<<k, g[k - 1]>>]
    <3>1. CASE k = n + 1 BY <2>2, <2>6, <3>1 DEF x
    <3>2. CASE k # n + 1
      <4>1. k \in 1 .. n /\ k \in 0 .. n /\ k - 1 \in 0 .. n BY <3>2
      <4> QED BY <2>1, <2>6, <4>1
    <3> QED BY <3>1, <3>2
  <2>9. Known(n + 1) BY <2>5, <2>7, <2>8
  <2> QED BY <2>2, <2>9
<1> HIDE DEF E
<1>3. 0 .. N \subseteq E BY <1>1, <1>2, Induction
<1>4. N \in E BY <1>3
<1> QED BY <1>4 DEF E, Recurs

(* Joined puts lists in front of each other. *)
LEMMA JoinedKnown ==
  ASSUME NEW S, NEW lists \in [Channels -> Seq(S)]
  PROVE  \E f : /\ f[0] = <<>> /\ \A n \in Channels : f[n] = lists[n] \o f[n - 1]
                /\ Joined(lists) = f[NumChannels]
<1> DEFINE Step(g) == [n \in 0 .. NumChannels |-> IF n = 0 THEN <<>> ELSE lists[n] \o g[n - 1]]
           h == CHOOSE g : g = Step(g)
<1>1. NumChannels \in Nat /\ Channels = 1 .. NumChannels BY Numbers
<1>2. \E g : g = Step(g)
  <2> DEFINE st == [x \in (1 .. NumChannels) \X Seq(S) |-> lists[x[1]] \o x[2]]
  <2>1. st \in [(1 .. NumChannels) \X Seq(S) -> Seq(S)] BY <1>1
  <2>2. \A n \in 1 .. NumChannels, t \in Seq(S) : st[<<n, t>>] = lists[n] \o t OBVIOUS
  <2> HIDE DEF st
  <2>f. PICK f : Recurs(f, NumChannels, Seq(S), <<>>, st)
    <3>1. <<>> \in Seq(S) BY EmptyFacts
    <3> QED BY <1>1, <2>1, <3>1, Recursion
  <2>3. /\ f[0] = <<>> /\ \A n \in 0 .. NumChannels : f[n] \in Seq(S)
        /\ \A n \in 1 .. NumChannels : f[n] = st[<<n, f[n - 1]>>]
        /\ f = [n \in 0 .. NumChannels |-> f[n]]
    BY <2>f DEF Recurs
  <2>4. ASSUME NEW n \in 0 .. NumChannels PROVE f[n] = Step(f)[n]
    <3>1. CASE n = 0 BY <2>3, <3>1
    <3>2. CASE n # 0
      <4>1. n \in 1 .. NumChannels /\ n - 1 \in 0 .. NumChannels BY <1>1, <3>2
      <4>2. f[n] = lists[n] \o f[n - 1] BY <2>2, <2>3, <4>1
      <4> QED BY <3>2, <4>2
    <3> QED BY <3>1, <3>2
  <2>5. Step(f) = [n \in 0 .. NumChannels |-> Step(f)[n]] OBVIOUS
  <2> HIDE DEF Step
  <2>6. f = Step(f) BY <2>3, <2>4, <2>5
  <2> QED BY <2>6
<1>3. h = Step(h) BY <1>2
<1>4. Joined(lists) = h[NumChannels] BY Zenon DEF Joined
<1> HIDE DEF h
<1>5. h[0] = <<>> /\ \A n \in Channels : h[n] = lists[n] \o h[n - 1]
  <2>1. \A g : Step(g)[0] = <<>> BY <1>1
  <2>2. \A g : \A n \in Channels : Step(g)[n] = lists[n] \o g[n - 1]
    <3>1. \A n \in Channels : n \in 0 .. NumChannels /\ n # 0 BY <1>1
    <3> QED BY <3>1
  <2> HIDE DEF Step
  <2> QED BY <1>3, <2>1, <2>2
<1> QED BY <1>4, <1>5

LEMMA JoinedFacts ==
  ASSUME NEW S, NEW lists \in [Channels -> Seq(S)], \A ch \in Channels : IsInjective(lists[ch]),
         \A ch, k \in Channels : ch # k => Range(lists[ch]) \cap Range(lists[k]) = {}
  PROVE  /\ Joined(lists) \in Seq(S) /\ IsInjective(Joined(lists))
         /\ \A y : y \in Range(Joined(lists)) <=> \E ch \in Channels : y \in Range(lists[ch])
<1>1. NumChannels \in Nat /\ Channels = 1 .. NumChannels BY Numbers
<1>2. PICK f : /\ f[0] = <<>> /\ \A n \in Channels : f[n] = lists[n] \o f[n - 1]
               /\ Joined(lists) = f[NumChannels]
  BY JoinedKnown
<1> DEFINE Good(n) == /\ f[n] \in Seq(S) /\ IsInjective(f[n])
                      /\ \A y : y \in Range(f[n]) <=> \E k \in 1 .. n : y \in Range(lists[k])
           E == {n \in 0 .. NumChannels : Good(n)}
<1>3. 0 \in E
  <2>1. f[0] \in Seq(S) /\ IsInjective(f[0]) /\ Range(f[0]) = {} BY <1>2, EmptyFacts
  <2>2. Good(0) BY <2>1
  <2> QED BY <1>1, <2>2
<1>4. ASSUME NEW n \in 0 .. NumChannels - 1, n \in E PROVE n + 1 \in E
  <2>1. n + 1 \in Channels /\ (n + 1) - 1 = n /\ n + 1 \in 0 .. NumChannels BY <1>1
  <2>2. Good(n) BY <1>4
  <2>3. f[n + 1] = lists[n + 1] \o f[n] BY <1>2, <2>1
  <2>4. lists[n + 1] \in Seq(S) /\ IsInjective(lists[n + 1]) BY <2>1
  <2>5. Range(lists[n + 1]) \cap Range(f[n]) = {}
    <3>1. ASSUME NEW y \in Range(f[n]) PROVE y \notin Range(lists[n + 1])
      <4>1. PICK k \in 1 .. n : y \in Range(lists[k]) BY <2>2
      <4>2. k \in Channels /\ k # n + 1 BY <1>1, <2>1
      <4> QED BY <2>1, <4>1, <4>2
    <3> QED BY <3>1
  <2>6. /\ f[n + 1] \in Seq(S) /\ IsInjective(f[n + 1])
        /\ Range(f[n + 1]) = Range(lists[n + 1]) \cup Range(f[n])
    <3>1. CASE lists[n + 1] = <<>>
      <4>1. f[n] \in Seq(S) BY <2>2
      <4>2. <<>> \o f[n] = f[n] BY <4>1
      <4>3. f[n + 1] = f[n] /\ Range(lists[n + 1]) = {} BY <2>3, <3>1, <4>2, EmptyFacts
      <4> QED BY <2>2, <4>3
    <3>2. CASE lists[n + 1] # <<>> BY <2>2, <2>3, <2>4, <2>5, <3>2, ConcatFacts
    <3> QED BY <3>1, <3>2
  <2>7. ASSUME NEW y
        PROVE  y \in Range(f[n + 1]) <=> \E k \in 1 .. n + 1 : y \in Range(lists[k])
    <3>1. \A k : k \in 1 .. n + 1 <=> k \in 1 .. n \/ k = n + 1 BY <1>1
    <3> QED BY <2>2, <2>6, <3>1
  <2>8. Good(n + 1) BY <2>6, <2>7
  <2> QED BY <2>1, <2>8
<1> HIDE DEF E
<1>5. 0 .. NumChannels \subseteq E BY <1>1, <1>3, <1>4, Induction
<1>6. NumChannels \in E BY <1>1, <1>5
<1> QED BY <1>1, <1>2, <1>6 DEF E

(* The bytes of all channels are none only if each has none.               *)
LEMMA BytesFacts ==
  ASSUME NEW index, \A ch \in Channels : Filled(index[ch]) \in Nat
  PROVE  /\ BytesAt(index) \in Nat
         /\ BytesAt(index) = 0 <=> \A ch \in Channels : Filled(index[ch]) = 0
<1> DEFINE Step(g) == [n \in 0 .. NumChannels |->
                         IF n = 0 THEN 0 ELSE Filled(index[n]) + g[n - 1]]
           h == CHOOSE g : g = Step(g)
<1>1. NumChannels \in Nat /\ Channels = 1 .. NumChannels BY Numbers
<1>2. \E g : g = Step(g)
  <2> DEFINE st == [x \in (1 .. NumChannels) \X Nat |-> Filled(index[x[1]]) + x[2]]
  <2>1. st \in [(1 .. NumChannels) \X Nat -> Nat] BY <1>1
  <2>2. \A n \in 1 .. NumChannels, t \in Nat : st[<<n, t>>] = Filled(index[n]) + t OBVIOUS
  <2> HIDE DEF st
  <2>f. PICK f : Recurs(f, NumChannels, Nat, 0, st)
    <3>1. 0 \in Nat OBVIOUS
    <3> QED BY <1>1, <2>1, <3>1, Recursion
  <2>3. /\ f[0] = 0 /\ \A n \in 0 .. NumChannels : f[n] \in Nat
        /\ \A n \in 1 .. NumChannels : f[n] = st[<<n, f[n - 1]>>]
        /\ f = [n \in 0 .. NumChannels |-> f[n]]
    BY <2>f DEF Recurs
  <2>4. ASSUME NEW n \in 0 .. NumChannels PROVE f[n] = Step(f)[n]
    <3>1. CASE n = 0 BY <2>3, <3>1
    <3>2. CASE n # 0
      <4>1. n \in 1 .. NumChannels /\ n - 1 \in 0 .. NumChannels BY <1>1, <3>2
      <4>2. f[n] = Filled(index[n]) + f[n - 1] BY <2>2, <2>3, <4>1
      <4> QED BY <3>2, <4>2
    <3> QED BY <3>1, <3>2
  <2>5. Step(f) = [n \in 0 .. NumChannels |-> Step(f)[n]] OBVIOUS
  <2> HIDE DEF Step
  <2>6. f = Step(f) BY <2>3, <2>4, <2>5
  <2> QED BY <2>6
<1>3. h = Step(h) BY <1>2
<1>4. BytesAt(index) = h[NumChannels] BY Zenon DEF BytesAt
<1> HIDE DEF h
<1>5. h[0] = 0 /\ \A n \in Channels : h[n] = Filled(index[n]) + h[n - 1]
  <2>1. \A g : Step(g)[0] = 0 BY <1>1
  <2>2. \A g : \A n \in Channels : Step(g)[n] = Filled(index[n]) + g[n - 1]
    <3>1. \A n \in Channels : n \in 0 .. NumChannels /\ n # 0 BY <1>1
    <3> QED BY <3>1
  <2> HIDE DEF Step
  <2> QED BY <1>3, <2>1, <2>2
<1> HIDE DEF Step
<1> DEFINE Good(n) == h[n] \in Nat /\ (h[n] = 0 <=> \A k \in 1 .. n : Filled(index[k]) = 0)
           E == {n \in 0 .. NumChannels : Good(n)}
<1>6. 0 \in E BY <1>1, <1>5
<1>7. ASSUME NEW n \in 0 .. NumChannels - 1, n \in E PROVE n + 1 \in E
  <2>1. n + 1 \in Channels /\ (n + 1) - 1 = n /\ n + 1 \in 0 .. NumChannels BY <1>1
  <2>2. Good(n) BY <1>7
  <2>3. h[n + 1] = Filled(index[n + 1]) + h[n] /\ Filled(index[n + 1]) \in Nat BY <1>5, <2>1
  <2>4. \A k : k \in 1 .. n + 1 <=> k \in 1 .. n \/ k = n + 1 BY <1>1
  <2>5. h[n + 1] \in Nat /\ (h[n + 1] = 0 <=> Filled(index[n + 1]) = 0 /\ h[n] = 0)
    BY <2>2, <2>3
  <2>6. Good(n + 1) BY <2>2, <2>4, <2>5
  <2> QED BY <2>1, <2>6
<1> HIDE DEF E
<1>8. 0 .. NumChannels \subseteq E BY <1>1, <1>6, <1>7, Induction
<1>9. NumChannels \in E BY <1>1, <1>8
<1> QED BY <1>1, <1>4, <1>9 DEF E

-----------------------------------------------------------------------------
(* Lists that change                                                       *)

LEMMA PlaceFacts ==
  /\ Free \in Places
  /\ \A ch \in Channels : /\ Contents(ch) \in Places \ {Free} /\ Unread(ch) \in Places \ {Free}
                          /\ \A k \in Channels : /\ Contents(ch) # Unread(k)
                                                 /\ ch # k => /\ Contents(ch) # Contents(k)
                                                              /\ Unread(ch) # Unread(k)
  /\ \A x \in Places : x = Free \/ \E ch \in Channels : x = Contents(ch) \/ x = Unread(ch)
BY DEF Places, Free, Contents, Unread

Consumes == reader = "readBytesAndConsume"

LEMMA StartFacts ==
  /\ Start(Free) = top
  /\ \A ch \in Channels : /\ Start(Contents(ch)) = head[ch]
                          /\ Start(Unread(ch)) = IF Consumes THEN decompress[ch].segment ELSE Nil
<1>1. Start(Free) = top BY DEF Start, Free
<1>2. ASSUME NEW ch \in Channels PROVE Start(Contents(ch)) = head[ch] BY DEF Start, Contents
<1>3. ASSUME NEW ch \in Channels
      PROVE  Start(Unread(ch)) = IF Consumes THEN decompress[ch].segment ELSE Nil
  BY DEF Start, Unread, Consumes
<1> QED BY <1>1, <1>2, <1>3

LEMMA StartFactsNext ==
  /\ (Start(Free))' = top'
  /\ \A ch \in Channels : /\ (Start(Contents(ch)))' = head'[ch]
                          /\ (Start(Unread(ch)))' = IF Consumes' THEN decompress'[ch].segment ELSE Nil
<1>1. (Start(Free))' = top' BY DEF Start, Free
<1>2. ASSUME NEW ch \in Channels PROVE (Start(Contents(ch)))' = head'[ch] BY DEF Start, Contents
<1>3. ASSUME NEW ch \in Channels
      PROVE  (Start(Unread(ch)))' = IF Consumes' THEN decompress'[ch].segment ELSE Nil
  BY DEF Start, Unread, Consumes
<1> QED BY <1>1, <1>2, <1>3

LEMMA LinkedFacts ==
  ASSUME next \in [Segments -> 0 .. MaxSegments], NEW t \in 0 .. MaxSegments,
         NEW K \in Seq(Segments), IsInjective(K)
  PROVE  /\ Linked(K, t) \in [Segments -> 0 .. MaxSegments]
         /\ LinkedBy(Linked(K, t), K) /\ Leads(Linked(K, t), K, t)
         /\ \A s \in Segments : s \notin Range(K) => Linked(K, t)[s] = next[s]
<1> DEFINE nx == Linked(K, t)
           At(e) == CHOOSE i \in DOMAIN K : K[i] = e
           n == Len(K)
<1>1. n \in Nat /\ DOMAIN K = 1 .. n /\ \A i \in 1 .. n : K[i] \in Segments BY SeqFacts
<1>2. K # <<>> => n \in 1 .. n
  <2>1. K # <<>> => n > 0 BY SeqFacts
  <2> QED BY <1>1, <2>1
<1>3. nx = [e \in Segments |-> IF \E i \in DOMAIN K : K[i] = e
                               THEN IF At(e) = n THEN t ELSE K[At(e) + 1]
                               ELSE next[e]]
  BY DEF Linked
<1>4. ASSUME NEW i \in 1 .. n PROVE At(K[i]) = i
  <2>1. At(K[i]) \in DOMAIN K /\ K[At(K[i])] = K[i] BY <1>1
  <2> HIDE DEF At
  <2> QED BY <1>1, <2>1 DEF IsInjective
<1>5. ASSUME NEW e \in Segments, \E i \in DOMAIN K : K[i] = e PROVE At(e) \in 1 .. n
  BY <1>1, <1>5
<1> HIDE DEF nx, At, n
<1>6. ASSUME NEW i \in 1 .. n PROVE nx[K[i]] = IF i = n THEN t ELSE K[i + 1]
  BY <1>1, <1>3, <1>4
<1>7. nx \in [Segments -> 0 .. MaxSegments]
  <2>1. ASSUME NEW e \in Segments PROVE nx[e] \in 0 .. MaxSegments
    <3>1. CASE \E i \in DOMAIN K : K[i] = e
      <4>1. At(e) \in 1 .. n /\ nx[e] = IF At(e) = n THEN t ELSE K[At(e) + 1] BY <1>3, <1>5, <3>1
      <4>2. CASE At(e) = n BY <4>1, <4>2
      <4>3. CASE At(e) # n
        <5>1. At(e) + 1 \in 1 .. n BY <1>1, <4>1, <4>3
        <5>2. nx[e] \in Segments BY <1>1, <4>1, <4>3, <5>1
        <5> QED BY <5>2, Numbers
      <4> QED BY <4>2, <4>3
    <3>2. CASE ~\E i \in DOMAIN K : K[i] = e BY <1>3, <3>2
    <3> QED BY <3>1, <3>2
  <2> QED BY <1>3, <2>1
<1>8. LinkedBy(nx, K)
  <2>1. \A i \in 1 .. n - 1 : i \in 1 .. n /\ i # n BY <1>1
  <2> QED BY <1>6, <2>1 DEF LinkedBy, n
<1>9. Leads(nx, K, t) BY <1>2, <1>6 DEF Leads, n
<1>10. ASSUME NEW s \in Segments, s \notin Range(K) PROVE nx[s] = next[s]
  BY <1>3, <1>10 DEF Range
<1> QED BY <1>7, <1>8, <1>9, <1>10 DEF nx

(* M has the segments of K, which L had elsewhere, in front of the free    *)
(* list.                                                                   *)
Moves(L, M, K) ==
  /\ K \in Seq(Segments) /\ IsInjective(K) /\ Range(K) \cap Range(L[Free]) = {}
  /\ \A s \in Range(K) : \E x \in Places \ {Free} : s \in Range(L[x])
  /\ M \in [Places -> Seq(Segments)] /\ M[Free] = K \o L[Free]
  /\ \A x \in Places \ {Free} : /\ Spells(next, M[x], (Start(x))')
                                /\ Range(M[x]) = Range(L[x]) \ Range(K)

LEMMA ReleaseStep ==
  ASSUME Types, NEW L, Lists(L), NEW K, NEW M, Moves(L, M, K), Release(K), made' = made
  PROVE  (Lists(M))' /\ next' \in [Segments -> 0 .. MaxSegments] /\ top' \in 0 .. MaxSegments
<1>0. /\ K \in Seq(Segments) /\ IsInjective(K) /\ Range(K) \cap Range(L[Free]) = {}
      /\ \A s \in Range(K) : \E x \in Places \ {Free} : s \in Range(L[x])
      /\ M \in [Places -> Seq(Segments)] /\ M[Free] = K \o L[Free]
      /\ \A x \in Places \ {Free} : /\ Spells(next, M[x], (Start(x))')
                                    /\ Range(M[x]) = Range(L[x]) \ Range(K)
  BY DEF Moves
<1> USE <1>0
<1> DEFINE F == L[Free]
<1>1. /\ next \in [Segments -> 0 .. MaxSegments] /\ top \in 0 .. MaxSegments
      /\ next' = Linked(K, top) /\ top' = IF K = <<>> THEN top ELSE K[1]
  BY SeqFacts DEF Types, Release
<1>2. /\ F \in Seq(Segments) /\ IsInjective(F) /\ top = First(F, Nil)
      /\ LinkedBy(next, F) /\ Leads(next, F, Nil)
  BY PlaceFacts, StartFacts DEF Lists, Spells
<1>3. /\ next' \in [Segments -> 0 .. MaxSegments]
      /\ LinkedBy(next', K) /\ Leads(next', K, top)
      /\ \A s \in Segments : s \notin Range(K) => next'[s] = next[s]
  BY <1>1, LinkedFacts
<1>4. ASSUME NEW l \in Seq(Segments), Range(l) \cap Range(K) = {}
      PROVE  /\ LinkedBy(next, l) => LinkedBy(next', l)
             /\ Leads(next, l, Nil) => Leads(next', l, Nil)
  <2>1. \A s \in Range(l) : s \in Segments /\ s \notin Range(K) BY <1>4, SeqFacts
  <2> QED BY <1>3, <2>1, FrameFacts
<1>5. LinkedBy(next', F) /\ Leads(next', F, Nil) BY <1>2, <1>4
<1>6. Spells(next', M[Free], top') /\ Range(M[Free]) = Range(K) \cup Range(F)
  <2>1. CASE K = <<>>
    <3>1. M[Free] = F /\ Range(K) = {} /\ top' = top BY <1>1, <1>2, <2>1, EmptyFacts
    <3> QED BY <1>2, <1>5, <3>1 DEF Spells
  <2>2. CASE K # <<>>
    <3>1. /\ K \o F \in Seq(Segments) /\ K \o F # <<>> /\ IsInjective(K \o F) /\ (K \o F)[1] = K[1]
          /\ Range(K \o F) = Range(K) \cup Range(F)
      BY <1>2, <2>2, ConcatFacts
    <3>2. Leads(next', K, First(F, Nil)) BY <1>2, <1>3
    <3>3. LinkedBy(next', K \o F) /\ Leads(next', K \o F, Nil)
      BY <1>2, <1>3, <1>5, <2>2, <3>2, ConcatFacts
    <3>4. top' = First(K \o F, Nil) BY <1>1, <2>2, <3>1 DEF First
    <3> QED BY <3>1, <3>3, <3>4 DEF Spells
  <2> QED BY <2>1, <2>2
<1>7. top' \in 0 .. MaxSegments
  <2>1. K # <<>> => K[1] \in Segments BY SeqFacts
  <2> QED BY <1>1, <2>1, Numbers
<1>8. ASSUME NEW x \in Places PROVE (Spells(next, M[x], Start(x)))'
  <2>1. CASE x = Free BY <1>6, <2>1, StartFactsNext DEF Spells
  <2>2. CASE x # Free
    <3>1. /\ M[x] \in Seq(Segments) /\ IsInjective(M[x]) /\ (Start(x))' = First(M[x], Nil)
          /\ LinkedBy(next, M[x]) /\ Leads(next, M[x], Nil) /\ Range(M[x]) \cap Range(K) = {}
      BY <2>2 DEF Spells
    <3>2. LinkedBy(next', M[x]) /\ Leads(next', M[x], Nil) BY <1>4, <3>1
    <3> QED BY <3>1, <3>2 DEF Spells
  <2> QED BY <2>1, <2>2
<1>9. ASSUME NEW x \in Places, NEW y \in Places, x # y
      PROVE  Range(M[x]) \cap Range(M[y]) = {}
  <2>1. \A z \in Places \ {Free} : Range(M[z]) = Range(L[z]) \ Range(K) OBVIOUS
  <2>2. Range(L[x]) \cap Range(L[y]) = {} BY <1>9 DEF Lists
  <2> QED BY <1>6, <1>9, <2>1, <2>2
<1>10. ASSUME NEW s \in Segments
       PROVE  s <= made <=> \E x \in Places : s \in Range(M[x])
  <2>1. s <= made <=> \E x \in Places : s \in Range(L[x]) BY DEF Lists
  <2>2. \A x \in Places \ {Free} : Range(M[x]) = Range(L[x]) \ Range(K) OBVIOUS
  <2>3. Free \in Places BY PlaceFacts
  <2>4. ASSUME NEW x \in Places, s \in Range(L[x]) PROVE \E y \in Places : s \in Range(M[y])
    BY <1>6, <2>2, <2>3, <2>4
  <2>5. ASSUME NEW x \in Places, s \in Range(M[x]) PROVE \E y \in Places : s \in Range(L[y])
    <3>1. CASE x # Free BY <2>2, <2>5, <3>1
    <3>2. CASE x = Free
      <4>1. s \in Range(K) \/ s \in Range(F) BY <1>6, <2>5, <3>2
      <4> QED BY <2>3, <4>1
    <3> QED BY <3>1, <3>2
  <2> QED BY <2>1, <2>4, <2>5
<1> QED BY <1>3, <1>7, <1>8, <1>9, <1>10 DEF Lists

(* A segment is allocated and linked behind the last of a channel.         *)
Grows(ch, l) ==
  /\ Fresh \in Segments /\ Allocate /\ UNCHANGED <<reader, decompress>>
  /\ next' = [s \in Segments |-> IF s = Fresh THEN Nil
                                  ELSE IF l # <<>> /\ s = l[Len(l)] THEN Fresh ELSE next[s]]
  /\ head' = IF l = <<>> THEN [head EXCEPT ![ch] = Fresh] ELSE head

GrownTo(L, M, ch, l) == /\ (Lists(M))' /\ M[Contents(ch)] = Append(l, Fresh)
                        /\ \A x \in Places \ {Free, Contents(ch)} : M[x] = L[x]

LEMMA GrowStep ==
  ASSUME Types, NEW L, Lists(L), NEW ch \in Channels, NEW l, l = L[Contents(ch)], Grows(ch, l)
  PROVE  /\ Fresh \notin Range(l) /\ Append(l, Fresh) \in Seq(Segments)
         /\ \A x \in Places \ {Free} : Fresh \notin Range(L[x])
         /\ \E M : GrownTo(L, M, ch, l)
         /\ next' \in [Segments -> 0 .. MaxSegments] /\ top' \in 0 .. MaxSegments
         /\ head' \in [Channels -> 0 .. MaxSegments] /\ made' \in 0 .. MaxSegments
<1> DEFINE F == L[Free]
           t == Fresh
           c == Contents(ch)
           G == IF top = Nil THEN F ELSE Tail(F)
           a == Append(l, t)
<1>0. /\ t \in Segments /\ Allocate /\ reader' = reader /\ decompress' = decompress
      /\ next' = [s \in Segments |-> IF s = t THEN Nil
                                      ELSE IF l # <<>> /\ s = l[Len(l)] THEN t ELSE next[s]]
      /\ head' = IF l = <<>> THEN [head EXCEPT ![ch] = t] ELSE head
  BY DEF Grows
<1>1. /\ F \in Seq(Segments) /\ IsInjective(F) /\ top = First(F, Nil)
      /\ LinkedBy(next, F) /\ Leads(next, F, Nil)
  BY PlaceFacts, StartFacts DEF Lists, Spells
<1>2. /\ Free \in Places /\ c \in Places /\ c # Free
      /\ \A k \in Channels : /\ Unread(k) \in Places \ {c, Free}
                             /\ k # ch => Contents(k) \in Places \ {c, Free}
  BY PlaceFacts
<1>3. /\ l \in Seq(Segments) /\ IsInjective(l) /\ LinkedBy(next, l) /\ Leads(next, l, Nil)
      /\ head[ch] = First(l, Nil)
  BY <1>2, StartFacts DEF Lists, Spells
<1>4. /\ next \in [Segments -> 0 .. MaxSegments] /\ top \in 0 .. MaxSegments
      /\ made \in 0 .. MaxSegments /\ head \in [Channels -> 0 .. MaxSegments]
  BY DEF Types
<1>5. \A s \in Segments : s <= made <=> \E x \in Places : s \in Range(L[x]) BY DEF Lists
<1>6. \A x, y \in Places : x # y => Range(L[x]) \cap Range(L[y]) = {} BY DEF Lists
<1>7. top = Nil <=> F = <<>>
  <2>1. F # <<>> => F[1] \in Segments BY <1>1, SeqFacts
  <2> QED BY <1>1, <2>1, Numbers DEF First
<1>8. top # Nil => F # <<>> /\ t = F[1] /\ t \in Range(F)
  BY <1>1, <1>7, SeqFacts DEF Fresh, First
<1>9. \A x \in Places \ {Free} : t \notin Range(L[x])
  <2>1. CASE top = Nil
    <3>1. t = made + 1 /\ ~(made + 1 <= made) BY <1>4, <2>1 DEF Fresh
    <3> QED BY <1>0, <1>5, <3>1
  <2>2. CASE top # Nil BY <1>2, <1>6, <1>8, <2>2
  <2> QED BY <2>1, <2>2
<1>10. /\ G \in Seq(Segments) /\ IsInjective(G) /\ Range(G) = Range(F) \ {t}
       /\ top' = First(G, Nil) /\ LinkedBy(next, G) /\ Leads(next, G, Nil)
  <2>1. CASE top = Nil
    <3>1. G = F /\ Range(F) = {} BY <1>7, <2>1, EmptyFacts
    <3> QED BY <1>0, <1>1, <2>1, <3>1 DEF Allocate
  <2>2. CASE top # Nil
    <3>1. G = Tail(F) /\ top' = next[top] BY <1>0, <2>2 DEF Allocate
    <3>2. top = F[1] BY <1>1, <1>8, <2>2 DEF First
    <3> QED BY <1>1, <1>8, <2>2, <3>1, <3>2, TailFacts
  <2> QED BY <2>1, <2>2
<1> HIDE DEF G
<1>11. /\ a \in Seq(Segments) /\ IsInjective(a) /\ Range(a) = Range(l) \cup {t} /\ a # <<>>
  BY <1>0, <1>2, <1>3, <1>9, AppendFacts
<1>12. /\ next'[t] = Nil
       /\ \A s \in Segments : s # t /\ (l = <<>> \/ s # l[Len(l)]) => next'[s] = next[s]
  BY <1>0
<1>13. LinkedBy(next', a) /\ Leads(next', a, Nil) /\ a[1] = First(l, t)
  <2> DEFINE n == Len(l)
  <2>1. /\ n \in Nat /\ Len(a) = n + 1 /\ a[n + 1] = t /\ \A i \in 1 .. n : a[i] = l[i]
    BY <1>0, <1>3
  <2>2. \A i \in 1 .. n : l[i] \in Segments /\ l[i] # t BY <1>2, <1>3, <1>9, SeqFacts
  <2>3. l # <<>> <=> n > 0 BY <1>3, SeqFacts
  <2>4. DOMAIN l = 1 .. n BY <1>3, SeqFacts
  <2> HIDE DEF a
  <2>5. ASSUME NEW i \in 1 .. n PROVE next'[a[i]] = a[i + 1]
    <3>1. CASE i = n
      <4>1. l # <<>> /\ l[i] = l[Len(l)] BY <2>1, <2>3, <3>1
      <4>2. next'[l[i]] = t BY <1>0, <2>2, <4>1
      <4> QED BY <2>1, <3>1, <4>2
    <3>2. CASE i # n
      <4>1. i \in 1 .. n - 1 /\ i + 1 \in 1 .. n /\ n \in 1 .. n BY <2>1, <3>2
      <4>2. l[i] # l[n] BY <1>3, <2>4, <3>2, <4>1 DEF IsInjective
      <4>3. next'[l[i]] = next[l[i]] BY <1>12, <2>2, <4>2
      <4>4. next[l[i]] = l[i + 1] BY <1>3, <4>1 DEF LinkedBy
      <4> QED BY <2>1, <4>1, <4>3, <4>4
    <3> QED BY <3>1, <3>2
  <2>6. LinkedBy(next', a) BY <2>1, <2>5 DEF LinkedBy
  <2>7. Leads(next', a, Nil) BY <1>12, <2>1 DEF Leads
  <2>8. a[1] = First(l, t)
    <3>1. CASE l = <<>> BY <2>1, <2>3, <3>1 DEF First
    <3>2. CASE l # <<>>
      <4>1. 1 \in 1 .. n BY <2>1, <2>3, <3>2
      <4> QED BY <2>1, <3>2, <4>1 DEF First
    <3> QED BY <3>1, <3>2
  <2> QED BY <2>6, <2>7, <2>8
<1>14. head'[ch] = First(a, Nil) /\ \A k \in Channels : k # ch => head'[k] = head[k]
  <2>1. First(a, Nil) = First(l, t) BY <1>11, <1>13 DEF First
  <2>2. CASE l = <<>> BY <1>0, <1>4, <2>1, <2>2 DEF First
  <2>3. CASE l # <<>> BY <1>0, <1>3, <2>1, <2>3 DEF First
  <2>4. \A k \in Channels : k # ch => head'[k] = head[k] BY <1>0, <1>4
  <2> QED BY <2>2, <2>3, <2>4
<1> HIDE DEF a
<1>m. PICK M : M = [x \in Places |-> IF x = Free THEN G ELSE IF x = c THEN a ELSE L[x]]
  OBVIOUS
<1>15. /\ M \in [Places -> Seq(Segments)] /\ M[Free] = G /\ M[c] = a
       /\ \A x \in Places \ {Free, c} : M[x] = L[x]
  <2>1. \A x \in Places : L[x] \in Seq(Segments) BY DEF Lists
  <2> QED BY <1>2, <1>10, <1>11, <1>m, <2>1
<1>16. ASSUME NEW x \in Places PROVE (Spells(next, M[x], Start(x)))'
  <2>0. \A q \in Seq(Segments) : t \notin Range(q) /\ Range(q) \cap Range(l) = {} =>
          /\ LinkedBy(next, q) => LinkedBy(next', q)
          /\ Leads(next, q, Nil) => Leads(next', q, Nil)
    <3> SUFFICES ASSUME NEW q \in Seq(Segments), t \notin Range(q), Range(q) \cap Range(l) = {}
                 PROVE  /\ LinkedBy(next, q) => LinkedBy(next', q)
                        /\ Leads(next, q, Nil) => Leads(next', q, Nil)
      OBVIOUS
    <3>1. l # <<>> => l[Len(l)] \in Range(l) BY <1>3, SeqFacts
    <3>2. \A s \in Range(q) : s \in Segments /\ next'[s] = next[s] BY <1>12, <3>1, SeqFacts
    <3> QED BY <3>2, FrameFacts
  <2>1. CASE x = Free
    <3>1. Range(G) \cap Range(l) = {} /\ t \notin Range(G) BY <1>2, <1>6, <1>10
    <3>2. LinkedBy(next', G) /\ Leads(next', G, Nil) BY <1>10, <2>0, <3>1
    <3> QED BY <1>10, <1>15, <2>1, <3>2, StartFactsNext DEF Spells
  <2>2. CASE x = c
    <3>1. (Start(x))' = First(a, Nil) BY <1>14, <2>2, StartFactsNext
    <3> QED BY <1>11, <1>13, <1>15, <2>2, <3>1 DEF Spells
  <2>3. CASE x # Free /\ x # c
    <3>1. Spells(next, L[x], Start(x)) BY DEF Lists
    <3>2. Range(L[x]) \cap Range(l) = {} /\ t \notin Range(L[x]) BY <1>2, <1>6, <1>9, <2>3
    <3>3. LinkedBy(next', L[x]) /\ Leads(next', L[x], Nil) BY <2>0, <3>1, <3>2 DEF Spells
    <3>4. (Start(x))' = Start(x)
      <4>1. PICK k \in Channels : x = Contents(k) \/ x = Unread(k) BY <2>3, PlaceFacts
      <4>2. CASE x = Contents(k)
        <5>1. k # ch BY <2>3, <4>2
        <5> QED BY <1>14, <4>2, <5>1, StartFacts, StartFactsNext
      <4>3. CASE x = Unread(k)
        <5>1. Consumes' <=> Consumes BY <1>0 DEF Consumes
        <5> QED BY <1>0, <4>3, <5>1, StartFacts, StartFactsNext
      <4> QED BY <4>1, <4>2, <4>3
    <3> QED BY <1>15, <2>3, <3>1, <3>3, <3>4 DEF Spells
  <2> QED BY <2>1, <2>2, <2>3
<1>17. ASSUME NEW x \in Places, NEW y \in Places, x # y PROVE Range(M[x]) \cap Range(M[y]) = {}
  <2>1. \A z \in Places : Range(M[z]) \subseteq Range(L[z]) \cup {t} BY <1>2, <1>10, <1>11, <1>15
  <2>2. \A z \in Places : t \in Range(M[z]) => z = c BY <1>9, <1>10, <1>15
  <2>3. Range(L[x]) \cap Range(L[y]) = {} BY <1>6, <1>17
  <2> QED BY <1>17, <2>1, <2>2, <2>3
<1>18. made' \in 0 .. MaxSegments
       /\ \A s \in Segments : s <= made' <=> s <= made \/ s = t
  <2>1. CASE top = Nil
    <3>1. t = made + 1 /\ made' = made + 1 BY <1>0, <2>1 DEF Fresh, Allocate
    <3>2. made + 1 \in 0 .. MaxSegments BY <1>0, <3>1, Numbers
    <3>3. \A s \in Nat : s <= made + 1 <=> s <= made \/ s = made + 1 BY <1>4
    <3>4. \A s \in Segments : s \in Nat BY Numbers
    <3> QED BY <3>1, <3>2, <3>3, <3>4
  <2>2. CASE top # Nil
    <3>1. made' = made BY <1>0, <2>2 DEF Allocate
    <3>2. t <= made BY <1>0, <1>2, <1>5, <1>8, <2>2
    <3> QED BY <1>4, <3>1, <3>2
  <2> QED BY <2>1, <2>2
<1>19. ASSUME NEW s \in Segments PROVE s <= made' <=> \E x \in Places : s \in Range(M[x])
  <2>1. s \in Range(M[c]) <=> s \in Range(l) \/ s = t BY <1>11, <1>15
  <2>2. \A x \in Places : s \in Range(M[x]) => s \in Range(L[x]) \/ s = t
    BY <1>2, <1>10, <1>11, <1>15
  <2>3. \A x \in Places : s \in Range(L[x]) => s \in Range(M[x]) \/ s = t
    BY <1>2, <1>10, <1>11, <1>15
  <2> QED BY <1>2, <1>5, <1>18, <2>1, <2>2, <2>3
<1>20. (Lists(M))' BY <1>15, <1>16, <1>17, <1>19 DEF Lists
<1>21. next' \in [Segments -> 0 .. MaxSegments] /\ top' \in 0 .. MaxSegments
  <2>1. \A s \in Segments : s \in 0 .. MaxSegments BY Numbers
  <2>2. Nil \in 0 .. MaxSegments BY Numbers
  <2>3. CASE top = Nil BY <1>0, <1>4, <2>1, <2>2, <2>3 DEF Allocate
  <2>4. CASE top # Nil
    <3>1. top \in Segments BY <1>4, <2>4, Numbers
    <3> QED BY <1>0, <1>4, <2>1, <2>2, <2>4, <3>1 DEF Allocate
  <2> QED BY <2>3, <2>4
<1>22. head' \in [Channels -> 0 .. MaxSegments]
  <2>1. t \in 0 .. MaxSegments BY <1>0, Numbers
  <2> QED BY <1>0, <1>4, <2>1
<1>23. GrownTo(L, M, ch, l) BY <1>15, <1>20 DEF GrownTo, a
<1> QED BY <1>2, <1>9, <1>11, <1>18, <1>21, <1>22, <1>23 DEF a

(* Where the cursor of a compressor is among its bytes.                    *)
LEMMA CursorFacts ==
  ASSUME NEW c \in IndexType, NEW l \in Seq(Segments), CursorAt(c, l)
  PROVE  /\ Filled(c) \in Nat /\ Filled(c) <= SegmentSize * Len(l)
         /\ c.segment = Nil <=> l = <<>>
         /\ l = <<>> => Filled(c) = 0 /\ ~Full(c) /\ c.finished = 0 /\ c.pos = 0
         /\ l # <<>> => /\ c.segment = l[Len(l)] /\ c.finished = Len(l) - 1
                        /\ Filled(c) = SegmentSize * (Len(l) - 1) + c.pos /\ Filled(c) > 0
                        /\ Full(c) => c.pos = SegmentSize
                        /\ ~Full(c) => c.pos \in Positions
<1>1. /\ c.segment \in 0 .. MaxSegments /\ c.pos \in 0 .. SegmentSize /\ c.finished \in Nat
  BY DEF IndexType
<1>2. SegmentSize \in Nat \ {0} /\ Len(l) \in Nat /\ (l # <<>> <=> Len(l) > 0) BY SeqFacts, Numbers
<1>3. CASE l = <<>>
  <2>1. c.segment = Nil /\ c.pos = 0 /\ c.finished = 0 BY <1>3 DEF CursorAt, NewIndex
  <2>2. Filled(c) = 0 + SegmentSize * 0 /\ Len(l) = 0 BY <2>1, <1>2, <1>3 DEF Filled
  <2>3. SegmentSize * 0 = 0 BY Product
  <2> QED BY <1>3, <2>1, <2>2, <2>3 DEF Full
<1>4. CASE l # <<>>
  <2>1. c.segment = l[Len(l)] /\ c.finished = Len(l) - 1 /\ c.pos \in 1 .. SegmentSize
    BY <1>4 DEF CursorAt
  <2>2. Len(l) - 1 \in Nat /\ (Len(l) - 1) + 1 = Len(l) /\ Len(l) \in 1 .. Len(l) BY <1>2, <1>4
  <2>3. /\ SegmentSize * (Len(l) - 1) \in Nat
        /\ SegmentSize * ((Len(l) - 1) + 1) = SegmentSize * (Len(l) - 1) + SegmentSize
    BY <2>2, Product
  <2>4. SegmentSize * Len(l) = SegmentSize * (Len(l) - 1) + SegmentSize BY <2>2, <2>3
  <2>5. Filled(c) = c.pos + SegmentSize * (Len(l) - 1) BY <2>1 DEF Filled
  <2>6. l[Len(l)] # Nil BY <2>2, SeqFacts, Numbers
  <2>7. c.pos # SegmentSize => c.pos \in Positions BY <1>2, <2>1, Numbers
  <2>8. \A x, y \in Nat, z \in 1 .. SegmentSize : x = SegmentSize => z + y \in Nat /\ z + y = y + z
                                                   /\ z + y <= y + x /\ y + z > 0
    BY <1>2
  <2> QED BY <1>2, <1>4, <2>1, <2>3, <2>4, <2>5, <2>6, <2>7, <2>8 DEF Full
<1> QED BY <1>3, <1>4

(* A byte goes behind the last one of its channel: to place pos of target, *)
(* the last segment of the list M has then instead of L.                   *)
PutAt(L, M, ch, byte, target, pos) ==
  /\ (Lists(M))' /\ M[Contents(ch)] \in Seq(Segments) /\ M[Contents(ch)] # <<>>
  /\ \A x \in Places \ {Free, Contents(ch)} : M[x] = L[x] /\ target \notin Range(L[x])
  /\ M[Contents(ch)][Len(M[Contents(ch)])] = target
  /\ Filled(compress[ch]) = Offset(Len(M[Contents(ch)]), pos)
  /\ compress' = [compress EXCEPT ![ch] =
        [segment |-> target, pos |-> pos + 1, finished |-> Len(M[Contents(ch)]) - 1]]
  /\ data' = [data EXCEPT ![target][pos] = byte]
  /\ \/ Len(M[Contents(ch)]) = Len(L[Contents(ch)])
     \/ Len(M[Contents(ch)]) = Len(L[Contents(ch)]) + 1 /\ pos = 0
  /\ \A i \in 1 .. Len(L[Contents(ch)]) : M[Contents(ch)][i] = L[Contents(ch)][i]

LEMMA PutPlace ==
  ASSUME Types, NEW L, Lists(L), NEW ch \in Channels, NEW l, l = L[Contents(ch)],
         CursorAt(compress[ch], l),
         NEW byte \in Nat, Put(ch, byte), UNCHANGED <<reader, decompress>>
  PROVE  /\ \E M, target, pos : /\ target \in Segments /\ pos \in Positions
                                 /\ PutAt(L, M, ch, byte, target, pos)
         /\ next' \in [Segments -> 0 .. MaxSegments] /\ top' \in 0 .. MaxSegments
         /\ head' \in [Channels -> 0 .. MaxSegments] /\ made' \in 0 .. MaxSegments
         /\ numSegments' \in Nat
<1> DEFINE c == compress[ch]
           n == Len(l)
           grows == c.segment = Nil \/ (Full(c) /\ next[c.segment] = Nil)
<1>1. /\ compress \in [Channels -> IndexType] /\ c \in IndexType
      /\ next \in [Segments -> 0 .. MaxSegments] /\ top \in 0 .. MaxSegments
      /\ head \in [Channels -> 0 .. MaxSegments] /\ made \in 0 .. MaxSegments /\ numSegments \in Nat
  BY DEF Types
<1>2. Contents(ch) \in Places \ {Free} BY PlaceFacts
<1>3. l \in Seq(Segments) /\ IsInjective(l) /\ Leads(next, l, Nil) /\ head[ch] = First(l, Nil)
  BY <1>2, StartFacts DEF Lists, Spells
<1>4. /\ c.segment = Nil <=> l = <<>>
      /\ l = <<>> => Filled(c) = 0 /\ ~Full(c) /\ c.finished = 0 /\ c.pos = 0
      /\ l # <<>> => /\ c.segment = l[n] /\ c.finished = n - 1
                     /\ Filled(c) = SegmentSize * (n - 1) + c.pos
                     /\ Full(c) => c.pos = SegmentSize
                     /\ ~Full(c) => c.pos \in Positions
  BY <1>1, <1>3, CursorFacts
<1>5. n \in Nat /\ (l # <<>> <=> n > 0) /\ (n > 0 => n \in 1 .. n) BY <1>3, SeqFacts
<1>6. l # <<>> => next[c.segment] = Nil BY <1>3, <1>4 DEF Leads
<1>7. grows <=> l = <<>> \/ Full(c) BY <1>4, <1>6
<1>8. CASE l = <<>> \/ Full(c)
  <2> DEFINE t == Fresh
             m == Append(l, t)
  <2>1. t \in Segments BY <1>7, <1>8 DEF Put
  <2>2. Allocate /\ numSegments' = numSegments + 1 BY <1>7, <1>8 DEF Put
  <2>3. next' = [s \in Segments |-> IF s = t THEN Nil
                                    ELSE IF Full(c) /\ s = c.segment THEN t ELSE next[s]]
    BY <1>7, <1>8 DEF Put
  <2>4. next' = [s \in Segments |-> IF s = t THEN Nil
                                    ELSE IF l # <<>> /\ s = l[Len(l)] THEN t ELSE next[s]]
    <3>1. ASSUME NEW s \in Segments
          PROVE  Full(c) /\ s = c.segment <=> l # <<>> /\ s = l[Len(l)]
      BY <1>4, <1>8
    <3> QED BY <2>3, <3>1
  <2>5. head' = IF l = <<>> THEN [head EXCEPT ![ch] = t] ELSE head BY <1>4, <1>7, <1>8 DEF Put
  <2>6. /\ \A x \in Places \ {Free} : Fresh \notin Range(L[x])
        /\ \E M : GrownTo(L, M, ch, l)
        /\ next' \in [Segments -> 0 .. MaxSegments] /\ top' \in 0 .. MaxSegments
        /\ head' \in [Channels -> 0 .. MaxSegments] /\ made' \in 0 .. MaxSegments
        /\ Append(l, Fresh) \in Seq(Segments)
    <3>1. Grows(ch, l) BY <2>1, <2>2, <2>4, <2>5 DEF Grows
    <3> QED BY <3>1, GrowStep
  <2>7. PICK M : /\ (Lists(M))' /\ M[Contents(ch)] = m
                 /\ \A x \in Places \ {Free, Contents(ch)} : M[x] = L[x]
    BY <2>6 DEF GrownTo
  <2>8. /\ Len(m) = n + 1 /\ m[n + 1] = t /\ \A i \in 1 .. n : m[i] = l[i] /\ m # <<>>
    BY <1>3, <2>1
  <2>10. 0 \in Positions BY Numbers
  <2>11. Filled(c) = Offset(n + 1, 0)
    <3>1. Offset(n + 1, 0) = SegmentSize * n + 0 /\ SegmentSize * n \in Nat
      <4>1. (n + 1) - 1 = n BY <1>5
      <4> QED BY <1>5, <4>1, Product DEF Offset
    <3>2. CASE l = <<>>
      <4>1. n = 0 /\ SegmentSize * 0 = 0 BY <1>5, <3>2, Product
      <4> QED BY <1>4, <3>1, <3>2, <4>1
    <3>3. CASE l # <<>>
      <4>1. Filled(c) = SegmentSize * (n - 1) + SegmentSize BY <1>4, <1>8, <3>3
      <4>2. n - 1 \in Nat /\ (n - 1) + 1 = n BY <1>5, <3>3
      <4>3. SegmentSize * ((n - 1) + 1) = SegmentSize * (n - 1) + SegmentSize BY <4>2, Product
      <4> QED BY <3>1, <4>1, <4>2, <4>3
    <3> QED BY <3>2, <3>3
  <2>12. data' = [data EXCEPT ![t][0] = byte]
    <3>1. (IF Full(c) THEN 0 ELSE c.pos) = 0 BY <1>4, <1>8
    <3> QED BY <1>7, <1>8, <3>1 DEF Put
  <2>13. compress' = [compress EXCEPT ![ch] = [segment |-> t, pos |-> 0 + 1, finished |-> n]]
    <3>1. (IF Full(c) THEN 0 ELSE c.pos) = 0 BY <1>4, <1>8
    <3>2. c.finished + (IF Full(c) THEN 1 ELSE 0) = n
      <4>1. CASE l = <<>> BY <1>4, <1>5, <4>1
      <4>2. CASE l # <<>>
        <5>1. c.finished = n - 1 /\ Full(c) BY <1>4, <1>8, <4>2
        <5> QED BY <1>5, <5>1
      <4> QED BY <4>1, <4>2
    <3> QED BY <1>7, <1>8, <3>1, <3>2 DEF Put
  <2>14. (n + 1) - 1 = n BY <1>5
  <2>15. numSegments' \in Nat BY <1>1, <2>2
  <2>16. m \in Seq(Segments) /\ \A x \in Places \ {Free} : t \notin Range(L[x]) BY <2>6
  <2> HIDE DEF m, t
  <2>17. PutAt(L, M, ch, byte, t, 0)
    BY <2>7, <2>8, <2>11, <2>12, <2>13, <2>14, <2>16 DEF PutAt
  <2> QED BY <2>1, <2>6, <2>10, <2>15, <2>17
<1>9. CASE l # <<>> /\ ~Full(c)
  <2> DEFINE t == c.segment
  <2>1. t = l[n] /\ t \in Segments /\ t \in Range(l) BY <1>3, <1>4, <1>5, <1>9, SeqFacts
  <2>2. UNCHANGED <<top, made, next, numSegments>> /\ head' = head BY <1>4, <1>7, <1>9 DEF Put
  <2>3. data' = [data EXCEPT ![t][c.pos] = byte] BY <1>7, <1>9 DEF Put
  <2>4. compress' = [compress EXCEPT ![ch] = [segment |-> t, pos |-> c.pos + 1, finished |-> n - 1]]
    <3>1. c.finished + 0 = n - 1 BY <1>4, <1>5, <1>9
    <3> QED BY <1>7, <1>9, <3>1 DEF Put
  <2>5. (Lists(L))'
    <3>1. \A x : (Start(x))' = Start(x) BY <2>2 DEF Start
    <3> QED BY <2>2, <3>1 DEF Lists
  <2>6. Filled(c) = Offset(n, c.pos) BY <1>4, <1>9 DEF Offset
  <2>7. \A x \in Places \ {Free, Contents(ch)} : t \notin Range(L[x]) BY <1>2, <2>1 DEF Lists
  <2>8. c.pos \in Positions BY <1>4, <1>9
  <2> HIDE DEF t
  <2>9. PutAt(L, L, ch, byte, t, c.pos)
    BY <1>3, <1>9, <2>1, <2>3, <2>4, <2>5, <2>6, <2>7 DEF PutAt
  <2> QED BY <1>1, <2>1, <2>2, <2>8, <2>9
<1> QED BY <1>8, <1>9

-----------------------------------------------------------------------------
(* What the segments have                                                  *)

LEMMA DataFrame ==
  ASSUME NEW S, NEW l \in Seq(S), NEW dt, NEW du, \A s \in Range(l) : du[s] = dt[s]
  PROVE  /\ \A b, w : Holds(dt, l, b, w) => Holds(du, l, b, w)
         /\ \A k, chunks : Loaded(dt, l, k, chunks) => Loaded(du, l, k, chunks)
<1>1. \A i \in 1 .. Len(l) : du[l[i]] = dt[l[i]] BY SeqFacts
<1>2. ASSUME NEW b, NEW w, Holds(dt, l, b, w) PROVE Holds(du, l, b, w) BY <1>1, <1>2 DEF Holds
<1>3. ASSUME NEW k, NEW chunks, Loaded(dt, l, k, chunks) PROVE Loaded(du, l, k, chunks)
  BY <1>1, <1>3 DEF Loaded
<1> QED BY <1>2, <1>3

(* The writer of a channel is left alone by a step of another.             *)
LEMMA WriterFrame ==
  ASSUME NEW l \in Seq(Segments), NEW dt, NEW du, \A s \in Range(l) : du[s] = dt[s]
  PROVE  \A m, c, w, st, chunks : Writes(m, dt, l, c, w, st, chunks) =>
            Writes(m, du, l, c, w, st, chunks)
BY DataFrame DEF Writes

LEMMA ReaderFrame ==
  ASSUME NEW r \in Seq(Segments), NEW dt, NEW du, \A s \in Range(r) : du[s] = dt[s]
  PROVE  \A nx, ny, d, g, w : Reads(nx, dt, r, d, g, w) /\ Spells(ny, r, d.segment) =>
            Reads(ny, du, r, d, g, w)
<1> SUFFICES ASSUME NEW nx, NEW ny, NEW d, NEW g, NEW w,
                    Reads(nx, dt, r, d, g, w), Spells(ny, r, d.segment)
             PROVE  Reads(ny, du, r, d, g, w)
  OBVIOUS
<1>1. Holds(du, r, Len(g) - d.pos, w)
  <2>1. Holds(dt, r, Len(g) - d.pos, w) BY DEF Reads
  <2>2. \A b, v : Holds(dt, r, b, v) => Holds(du, r, b, v) BY DataFrame
  <2> QED BY <2>1, <2>2
<1> QED BY <1>1 DEF Reads

LEMMA EmptyList ==
  ASSUME NEW nx, NEW l
  PROVE  /\ Spells(nx, <<>>, Nil)
         /\ Spells(nx, l, Nil) => l = <<>>
<1>1. Spells(nx, <<>>, Nil) BY EmptyFacts DEF Spells, First, Leads
<1>2. ASSUME Spells(nx, l, Nil) PROVE l = <<>>
  <2>1. l \in Seq(Segments) /\ Nil = First(l, Nil) BY <1>2 DEF Spells
  <2>2. l # <<>> => l[1] \in Segments /\ l[1] # Nil BY <2>1, SeqFacts, Numbers
  <2> QED BY <2>1, <2>2 DEF First
<1> QED BY <1>1, <1>2

(* A reader starts at the first byte.                                      *)
LEMMA ReaderStarts ==
  ASSUME NEW nx, NEW dt, NEW l, NEW s, Spells(nx, l, s), NEW w \in Seq(Nat),
         Len(w) <= SegmentSize * Len(l), Holds(dt, l, 0, w)
  PROVE  Reads(nx, dt, l, NewIndex(s), <<>>, w)
<1>1. NewIndex(s).segment = s /\ NewIndex(s).pos = 0 BY DEF NewIndex
<1>2. Len(<<>>) = 0 /\ DOMAIN <<>> = {} OBVIOUS
<1>3. SegmentSize * Len(l) \in Nat
  <2>1. Len(l) \in Nat BY SeqFacts DEF Spells
  <2> QED BY <2>1, Product
<1>4. Len(<<>>) - NewIndex(s).pos = 0 BY <1>1, <1>2
<1>5. 0 + SegmentSize * Len(l) = SegmentSize * Len(l) BY <1>3
<1> QED BY <1>1, <1>2, <1>4, <1>5 DEF Reads

Crossed(nx, d) == [d EXCEPT !.segment = nx[d.segment], !.pos = 0]

(* At the end of a segment the reader moves on.                            *)
LEMMA ReaderCrosses ==
  ASSUME NEW nx, NEW dt, NEW r, NEW d \in IndexType, NEW g \in Seq(Nat), NEW w \in Seq(Nat),
         Reads(nx, dt, r, d, g, w), Full(d), NEW e, e = Crossed(nx, d)
  PROVE  Reads(nx, dt, Tail(r), e, g, w) /\ r # <<>> /\ d.segment = r[1] /\ ~Full(e)
<1> DEFINE t == Tail(r)
           b == Len(g) - d.pos
<1>1. r \in Seq(Segments) /\ IsInjective(r) /\ d.segment = First(r, Nil)
      /\ LinkedBy(nx, r) /\ Leads(nx, r, Nil)
  BY DEF Reads, Spells
<1>2. r # <<>> /\ d.segment = r[1] BY <1>1 DEF Full, First
<1>3. d.pos = SegmentSize /\ SegmentSize \in Nat \ {0} BY Numbers DEF Full
<1>4. e.segment = nx[d.segment] /\ e.pos = 0 BY DEF Crossed, IndexType
<1>5. Spells(nx, t, e.segment)
  <2>1. /\ t \in Seq(Segments) /\ IsInjective(t) /\ LinkedBy(nx, t) /\ Leads(nx, t, Nil)
        /\ nx[r[1]] = First(t, Nil)
    BY <1>1, <1>2, TailFacts
  <2> QED BY <1>2, <1>4, <2>1 DEF Spells
<1>6. /\ Len(g) \in Nat /\ Len(w) \in Nat /\ b \in Nat /\ Len(g) - e.pos = b + SegmentSize
      /\ Len(g) - e.pos >= 0
  <2>1. Len(g) \in Nat /\ Len(w) \in Nat BY SeqFacts
  <2>2. b >= 0 BY DEF Reads
  <2> QED BY <1>3, <1>4, <2>1, <2>2
<1>7. /\ Len(r) \in Nat \ {0} /\ Len(t) = Len(r) - 1 /\ Len(t) \in Nat
      /\ \A i \in 1 .. Len(t) : t[i] = r[i + 1] /\ i + 1 \in 1 .. Len(r)
  BY <1>1, <1>2
<1>8. Len(w) <= (b + SegmentSize) + SegmentSize * Len(t)
  <2>1. Len(t) + 1 = Len(r) BY <1>7
  <2>2. /\ SegmentSize * Len(t) \in Nat
        /\ SegmentSize * (Len(t) + 1) = SegmentSize * Len(t) + SegmentSize
    BY <1>7, Product
  <2>3. Len(w) <= b + SegmentSize * Len(r) BY DEF Reads
  <2>4. \A x, y, z, u \in Nat : u <= x + (y + z) => u <= (x + z) + y OBVIOUS
  <2>5. SegmentSize * Len(r) = SegmentSize * Len(t) + SegmentSize BY <2>1, <2>2
  <2> HIDE DEF b, t
  <2>6. Len(w) <= b + (SegmentSize * Len(t) + SegmentSize) BY <2>3, <2>5
  <2> QED BY <1>3, <1>6, <2>2, <2>4, <2>6
<1>9. Holds(dt, t, b + SegmentSize, w)
  <2> SUFFICES ASSUME NEW i \in 1 .. Len(t), NEW p \in Positions,
                      (b + SegmentSize) + Offset(i, p) < Len(w)
               PROVE  dt[t[i]][p] = w[(b + SegmentSize) + Offset(i, p) + 1]
    BY DEF Holds
  <2>1. i \in Nat \ {0} BY <1>7
  <2>2. Offset(i, p) \in Nat /\ Offset(i + 1, p) = Offset(i, p) + SegmentSize BY <2>1, Offsets
  <2>3. \A x, y, z \in Nat : (x + y) + z = x + (z + y) OBVIOUS
  <2>4. (b + SegmentSize) + Offset(i, p) = b + Offset(i + 1, p) BY <1>3, <1>6, <2>2, <2>3
  <2>5. Holds(dt, r, b, w) BY DEF Reads
  <2> HIDE DEF b, t
  <2>6. t[i] = r[i + 1] /\ i + 1 \in 1 .. Len(r) BY <1>7
  <2>7. b + Offset(i + 1, p) < Len(w) BY <2>4
  <2>8. dt[r[i + 1]][p] = w[b + Offset(i + 1, p) + 1] BY <2>5, <2>6, <2>7 DEF Holds
  <2> QED BY <2>4, <2>6, <2>8
<1> HIDE DEF b, t
<1>10. Reads(nx, dt, t, e, g, w)
  <2>1. \A i \in DOMAIN g \cap DOMAIN w : g[i] = w[i] BY DEF Reads
  <2> QED BY <1>4, <1>5, <1>6, <1>8, <1>9, <2>1 DEF Reads
<1>11. ~Full(e) BY <1>3, <1>4 DEF Full
<1> QED BY <1>2, <1>10, <1>11 DEF t

(* A reader that is not at the end of a segment gets the next byte of w.   *)
LEMMA ReaderGets ==
  ASSUME NEW nx, NEW dt \in [Segments -> [Positions -> Nat]], NEW r, NEW e \in IndexType,
         NEW g \in Seq(Nat), NEW w \in Seq(Nat), Reads(nx, dt, r, e, g, w), ~Full(e)
  PROVE  /\ e.segment = Nil => Reads(nx, dt, r, e, Append(g, Unwritten), w)
         /\ e.segment # Nil =>
              /\ e.segment \in Segments /\ e.pos \in Positions
              /\ Reads(nx, dt, r, [e EXCEPT !.pos = @ + 1], Append(g, dt[e.segment][e.pos]), w)
<1> DEFINE b == Len(g) - e.pos
<1>1. r \in Seq(Segments) /\ e.segment = First(r, Nil) BY DEF Reads, Spells
<1>2. /\ Len(g) \in Nat /\ Len(w) \in Nat /\ b \in Nat /\ e.pos \in 0 .. SegmentSize
      /\ e.pos \in Nat /\ SegmentSize \in Nat \ {0} /\ Len(r) \in Nat
      /\ SegmentSize * Len(r) \in Nat
  <2>1. Len(g) \in Nat /\ Len(w) \in Nat /\ Len(r) \in Nat BY <1>1, SeqFacts
  <2>2. b >= 0 BY DEF Reads
  <2>3. e.pos \in 0 .. SegmentSize BY DEF IndexType
  <2> QED BY <2>1, <2>2, <2>3, Numbers, Product
<1>3. r = <<>> <=> e.segment = Nil
  <2>1. r # <<>> => r[1] # Nil BY <1>1, SeqFacts, Numbers
  <2> QED BY <1>1, <2>1 DEF First
<1>4. ASSUME NEW x
      PROVE  /\ Len(Append(g, x)) = Len(g) + 1 /\ DOMAIN Append(g, x) = 1 .. Len(g) + 1
             /\ Append(g, x)[Len(g) + 1] = x
             /\ \A i \in 1 .. Len(g) : Append(g, x)[i] = g[i]
  OBVIOUS
<1>5. DOMAIN g = 1 .. Len(g) /\ DOMAIN w = 1 .. Len(w) BY SeqFacts
<1>6. /\ Spells(nx, r, e.segment) /\ Len(w) <= b + SegmentSize * Len(r)
      /\ Holds(dt, r, b, w) /\ \A i \in DOMAIN g \cap DOMAIN w : g[i] = w[i]
      /\ r = <<>> => e.pos = 0
  BY DEF Reads
<1>7. ASSUME NEW x, Len(g) + 1 \in 1 .. Len(w) => x = w[Len(g) + 1]
      PROVE  \A i \in DOMAIN Append(g, x) \cap DOMAIN w : Append(g, x)[i] = w[i]
  <2> DEFINE a == Append(g, x)
  <2>1. /\ DOMAIN a = 1 .. Len(g) + 1 /\ a[Len(g) + 1] = x
        /\ \A i \in 1 .. Len(g) : a[i] = g[i]
    BY <1>4
  <2> HIDE DEF a
  <2>2. \A i \in 1 .. Len(g) + 1 : i \in 1 .. Len(g) \/ i = Len(g) + 1 BY <1>2
  <2>3. \A i \in DOMAIN a \cap DOMAIN w : a[i] = w[i] BY <1>5, <1>6, <1>7, <2>1, <2>2
  <2> QED BY <2>3 DEF a
<1> HIDE DEF b
<1>8. ASSUME e.segment = Nil PROVE Reads(nx, dt, r, e, Append(g, Unwritten), w)
  <2>1. r = <<>> /\ e.pos = 0 /\ Len(r) = 0 BY <1>3, <1>6, <1>8
  <2>2. SegmentSize * Len(r) = 0 BY <2>1, Product
  <2>3. b = Len(g) /\ Len(w) <= Len(g) BY <1>2, <1>6, <2>1, <2>2 DEF b
  <2>4. Len(g) + 1 \notin 1 .. Len(w) BY <1>2, <2>3
  <2>5. Len(Append(g, Unwritten)) - e.pos = Len(g) + 1 BY <1>2, <1>4, <2>1
  <2>6. Len(g) + 1 >= 0 /\ Len(w) <= (Len(g) + 1) + SegmentSize * Len(r) BY <1>2, <2>2, <2>3
  <2>7. Holds(dt, r, Len(g) + 1, w)
    <3>1. 1 .. Len(r) = {} BY <2>1
    <3> QED BY <3>1 DEF Holds
  <2>8. \A i \in DOMAIN Append(g, Unwritten) \cap DOMAIN w : Append(g, Unwritten)[i] = w[i]
    BY <1>7, <2>4
  <2> QED BY <1>6, <2>1, <2>5, <2>6, <2>7, <2>8 DEF Reads
<1>9. ASSUME e.segment # Nil
      PROVE  /\ e.segment \in Segments /\ e.pos \in Positions
             /\ Reads(nx, dt, r, [e EXCEPT !.pos = @ + 1], Append(g, dt[e.segment][e.pos]), w)
  <2> DEFINE x == dt[e.segment][e.pos]
             f == [e EXCEPT !.pos = @ + 1]
  <2>1. r # <<>> /\ e.segment = r[1] /\ 1 \in 1 .. Len(r)
    <3>1. r # <<>> BY <1>3, <1>9
    <3>2. Len(r) > 0 BY <1>1, <3>1, SeqFacts
    <3> QED BY <1>1, <1>2, <3>1, <3>2 DEF First
  <2>2. e.segment \in Segments BY <1>1, <2>1, SeqFacts
  <2>3. e.pos \in Positions
    <3>1. e.pos # SegmentSize BY <1>9 DEF Full
    <3> QED BY <1>2, <3>1, Numbers
  <2>4. f.segment = e.segment /\ f.pos = e.pos + 1 BY DEF IndexType
  <2>5. Len(g) + 1 \in 1 .. Len(w) => x = w[Len(g) + 1]
    <3> SUFFICES ASSUME Len(g) + 1 \in 1 .. Len(w) PROVE x = w[Len(g) + 1] OBVIOUS
    <3>1. Offset(1, e.pos) = e.pos
      <4>1. SegmentSize * 0 = 0 BY <1>2, Product
      <4>2. SegmentSize * (1 - 1) = 0 BY <4>1
      <4> QED BY <1>2, <4>2 DEF Offset
    <3>2. b + e.pos = Len(g)
      <4>1. Len(g) \in Nat /\ e.pos \in Nat BY <1>2
      <4> QED BY <4>1 DEF b
    <3>3. b + Offset(1, e.pos) < Len(w) /\ b + Offset(1, e.pos) = Len(g) BY <1>2, <3>1, <3>2
    <3>4. dt[r[1]][e.pos] = w[b + Offset(1, e.pos) + 1] BY <1>6, <2>1, <2>3, <3>3 DEF Holds
    <3> QED BY <2>1, <3>3, <3>4
  <2>6. Len(Append(g, x)) - f.pos = b BY <1>2, <1>4, <2>4 DEF b
  <2>7. \A i \in DOMAIN Append(g, x) \cap DOMAIN w : Append(g, x)[i] = w[i] BY <1>7, <2>5
  <2> HIDE DEF x, f
  <2>8. Len(Append(g, x)) - f.pos >= 0 BY <1>2, <2>6
  <2>9. /\ Spells(nx, r, f.segment) /\ Holds(dt, r, Len(Append(g, x)) - f.pos, w)
        /\ Len(w) <= (Len(Append(g, x)) - f.pos) + SegmentSize * Len(r)
    BY <1>6, <2>4, <2>6
  <2>10. Reads(nx, dt, r, f, Append(g, x), w) BY <2>1, <2>7, <2>8, <2>9 DEF Reads
  <2> QED BY <2>2, <2>3, <2>10 DEF x, f
<1> QED BY <1>8, <1>9

(* What the segments have once a byte is put.                              *)
LEMMA PutFacts ==
  ASSUME Types, NEW L, Lists(L), NEW ch \in Channels, NEW l, l = L[Contents(ch)],
         CursorAt(compress[ch], l), NEW byte \in Nat, NEW M, NEW m, m = M[Contents(ch)],
         NEW target \in Segments, NEW pos \in Positions, PutAt(L, M, ch, byte, target, pos)
  PROVE  /\ CursorAt(compress'[ch], m) /\ Filled(compress'[ch]) = Filled(compress[ch]) + 1
         /\ compress' \in [Channels -> IndexType]
         /\ \A k \in Channels : k # ch => compress'[k] = compress[k]
         /\ data' \in [Segments -> [Positions -> Nat]]
         /\ \A x \in Places \ {Free, Contents(ch)} : \A s \in Range(L[x]) : data'[s] = data[s]
         /\ \A i \in 1 .. Len(m), p \in Positions : Offset(i, p) < Filled(compress[ch]) + 1 =>
              \/ Offset(i, p) = Filled(compress[ch]) /\ data'[m[i]][p] = byte
              \/ /\ Offset(i, p) < Filled(compress[ch]) /\ i \in 1 .. Len(l)
                 /\ data'[m[i]][p] = data[l[i]][p]
<1> DEFINE k == Filled(compress[ch])
           n == Len(m)
<1>1. /\ compress \in [Channels -> IndexType] /\ data \in [Segments -> [Positions -> Nat]]
  BY DEF Types
<1>2. Contents(ch) \in Places /\ \A x \in Places : L[x] \in Seq(Segments)
  BY PlaceFacts DEF Lists
<1>3. /\ (Lists(M))' /\ m \in Seq(Segments) /\ m # <<>> /\ m[n] = target /\ k = Offset(n, pos)
      /\ compress' = [compress EXCEPT ![ch] =
           [segment |-> target, pos |-> pos + 1, finished |-> n - 1]]
      /\ data' = [data EXCEPT ![target][pos] = byte]
      /\ n = Len(l) \/ (n = Len(l) + 1 /\ pos = 0)
      /\ \A i \in 1 .. Len(l) : m[i] = l[i]
      /\ \A x \in Places \ {Free, Contents(ch)} : target \notin Range(L[x])
  BY DEF PutAt
<1>4. n \in Nat \ {0} /\ n - 1 \in Nat /\ DOMAIN m = 1 .. n /\ Len(l) \in Nat
      /\ \A i \in 1 .. n : m[i] \in Segments
  BY <1>2, <1>3, SeqFacts
<1>5. IsInjective(m)
  <2>1. (Spells(next, M[Contents(ch)], Start(Contents(ch))))' BY <1>2, <1>3 DEF Lists
  <2> QED BY <2>1 DEF Spells
<1>6. pos \in Nat /\ pos + 1 \in 1 .. SegmentSize /\ target \in 0 .. MaxSegments BY Numbers
<1> HIDE DEF n, k
<1>7. compress'[ch] = [segment |-> target, pos |-> pos + 1, finished |-> n - 1] BY <1>1, <1>3
<1>8. CursorAt(compress'[ch], m) BY <1>3, <1>6, <1>7 DEF CursorAt, n
<1>9. Filled(compress'[ch]) = k + 1
  <2>1. Filled(compress'[ch]) = (pos + 1) + SegmentSize * (n - 1) BY <1>7 DEF Filled
  <2>2. k = SegmentSize * (n - 1) + pos
    <3>1. k = Offset(n, pos) BY <1>3
    <3> QED BY <3>1 DEF Offset
  <2>3. SegmentSize * (n - 1) \in Nat BY <1>4, Product
  <2> QED BY <1>6, <2>1, <2>2, <2>3
<1>10. compress' \in [Channels -> IndexType]
  <2>1. [segment |-> target, pos |-> pos + 1, finished |-> n - 1] \in IndexType
    <3>1. pos + 1 \in 0 .. SegmentSize BY <1>6
    <3> QED BY <1>4, <1>6, <3>1 DEF IndexType
  <2> QED BY <1>1, <1>3, <2>1
<1>11. \A c \in Channels : c # ch => compress'[c] = compress[c] BY <1>1, <1>3
<1>12. data' \in [Segments -> [Positions -> Nat]] BY <1>1, <1>3
<1>13. \A s \in Segments : s # target => data'[s] = data[s] BY <1>1, <1>3
<1>14. data'[target][pos] = byte
      /\ \A p \in Positions : p # pos => data'[target][p] = data[target][p]
  BY <1>1, <1>3
<1>15. \A x \in Places \ {Free, Contents(ch)} : \A s \in Range(L[x]) : data'[s] = data[s]
  <2>1. \A x \in Places : \A s \in Range(L[x]) : s \in Segments BY <1>2, SeqFacts
  <2> QED BY <1>3, <1>13, <2>1
<1>16. ASSUME NEW i \in 1 .. n, NEW p \in Positions, Offset(i, p) < k + 1
       PROVE  \/ Offset(i, p) = k /\ data'[m[i]][p] = byte
              \/ Offset(i, p) < k /\ i \in 1 .. Len(l) /\ data'[m[i]][p] = data[l[i]][p]
  <2>1. i \in Nat \ {0} /\ Offset(i, p) \in Nat /\ k \in Nat
    <3>1. k = Offset(n, pos) BY <1>3
    <3>2. i \in Nat \ {0} BY <1>4
    <3>3. Offset(i, p) \in Nat BY <3>2, Offsets
    <3>4. Offset(n, pos) \in Nat BY <1>4, Offsets
    <3> QED BY <3>1, <3>2, <3>3, <3>4
  <2>2. CASE Offset(i, p) = k
    <3>1. i = n /\ p = pos BY <1>3, <1>4, <2>1, <2>2, Offsets
    <3> QED BY <1>3, <1>14, <2>2, <3>1
  <2>3. CASE Offset(i, p) # k
    <3>1. Offset(i, p) < k BY <1>16, <2>1, <2>3
    <3>2. i \in 1 .. Len(l)
      <4>1. CASE n = Len(l) BY <4>1
      <4>2. CASE n = Len(l) + 1 /\ pos = 0
        <5>1. i # n
          <6>1. SUFFICES ASSUME i = n PROVE FALSE OBVIOUS
          <6>2. Offset(n, p) < SegmentSize * (n - 1) + 0 BY <1>3, <3>1, <4>2, <6>1 DEF Offset
          <6>3. SegmentSize * (n - 1) \in Nat BY <1>4, Product
          <6>4. Offset(n, p) < SegmentSize * (n - 1) BY <6>2, <6>3
          <6>5. n <= n - 1 BY <1>4, <6>4, Offsets
          <6> QED BY <1>4, <6>5
        <5> QED BY <1>4, <4>2, <5>1
      <4> QED BY <1>3, <4>1, <4>2
    <3>3. m[i] = l[i] /\ m[i] \in Segments BY <1>3, <1>4, <3>2
    <3>4. data'[m[i]][p] = data[m[i]][p]
      <4>1. CASE i = n
        <5>1. p # pos BY <1>3, <2>3, <4>1
        <5> QED BY <1>3, <1>14, <4>1, <5>1
      <4>2. CASE i # n
        <5>1. n \in 1 .. n BY <1>4
        <5>2. m[i] # m[n] BY <1>4, <1>5, <4>2, <5>1 DEF IsInjective
        <5> QED BY <1>3, <1>13, <3>3, <5>2
      <4> QED BY <4>1, <4>2
    <3> QED BY <3>1, <3>2, <3>3, <3>4
  <2> QED BY <2>2, <2>3
<1> QED BY <1>8, <1>9, <1>10, <1>11, <1>12, <1>15, <1>16 DEF k, n

-----------------------------------------------------------------------------
(* The steps                                                               *)

Core == \E L, R : Inv(L, R)

LEMMA SameLists ==
  ASSUME NEW L, Lists(L), UNCHANGED <<top, made, next>>, \A x \in Places : (Start(x))' = Start(x)
  PROVE  (Lists(L))'
BY DEF Lists

LEMMA SameStarts ==
  ASSUME UNCHANGED <<top, head>>,
         \/ ~Consumes /\ ~Consumes'
         \/ /\ Consumes /\ Consumes'
            /\ \A ch \in Channels : decompress'[ch].segment = decompress[ch].segment
  PROVE  \A x \in Places : (Start(x))' = Start(x)
<1> SUFFICES ASSUME NEW x \in Places PROVE (Start(x))' = Start(x) OBVIOUS
<1>1. CASE x = Free BY <1>1, StartFacts, StartFactsNext
<1>2. ASSUME NEW ch \in Channels, x = Contents(ch) PROVE (Start(x))' = Start(x)
  BY <1>2, StartFacts, StartFactsNext
<1>3. ASSUME NEW ch \in Channels, x = Unread(ch) PROVE (Start(x))' = Start(x)
  BY <1>3, StartFacts, StartFactsNext
<1> QED BY <1>1, <1>2, <1>3, PlaceFacts

(* What a channel's lists are.                                             *)
LEMMA ListFacts ==
  ASSUME Types, NEW L, Lists(L)
  PROVE  /\ L[Free] \in Seq(Segments)
         /\ \A ch \in Channels :
              /\ L[Contents(ch)] \in Seq(Segments) /\ Spells(next, L[Contents(ch)], head[ch])
              /\ L[Unread(ch)] \in Seq(Segments)
              /\ Consumes => Spells(next, L[Unread(ch)], decompress[ch].segment)
              /\ ~Consumes => L[Unread(ch)] = <<>>
<1>1. \A x \in Places : L[x] \in Seq(Segments) /\ Spells(next, L[x], Start(x)) BY DEF Lists
<1>2. ASSUME NEW ch \in Channels, ~Consumes PROVE L[Unread(ch)] = <<>>
  <2>1. Spells(next, L[Unread(ch)], Nil) BY <1>1, <1>2, PlaceFacts, StartFacts
  <2> QED BY <2>1, EmptyList
<1> QED BY <1>1, <1>2, PlaceFacts, StartFacts

(* The contents of all channels become what is to be read.                 *)
LEMMA Opened ==
  ASSUME Types, NEW L, Lists(L), ~Consumes, Consumes', UNCHANGED <<top, made, next>>,
         head' = [ch \in Channels |-> Nil],
         decompress' = [ch \in Channels |-> NewIndex(head[ch])]
  PROVE  \E M : /\ (Lists(M))'
                /\ \A ch \in Channels : M[Contents(ch)] = <<>> /\ M[Unread(ch)] = L[Contents(ch)]
<1>1. PICK M : M = [x \in Places |-> IF x = Free THEN L[Free]
                                     ELSE IF x[1] = "contents" THEN <<>> ELSE L[Contents(x[2])]]
  OBVIOUS
<1>2. ASSUME NEW ch \in Channels
      PROVE  M[Contents(ch)] = <<>> /\ M[Unread(ch)] = L[Contents(ch)]
  <2>1. Contents(ch) \in Places /\ Unread(ch) \in Places BY PlaceFacts
  <2>2. /\ Contents(ch)[1] = "contents" /\ Unread(ch)[1] = "unread" /\ Unread(ch)[2] = ch
        /\ Contents(ch) # Free /\ Unread(ch) # Free
    BY DEF Contents, Unread, Free
  <2> QED BY <1>1, <2>1, <2>2
<1>3. M[Free] = L[Free] BY <1>1, PlaceFacts
<1>4. /\ L[Free] \in Seq(Segments) /\ \A ch \in Channels : L[Contents(ch)] \in Seq(Segments)
      /\ \A ch \in Channels : L[Unread(ch)] = <<>>
  BY ListFacts
<1>5. M \in [Places -> Seq(Segments)]
  <2>1. \A ch \in Channels : M[Contents(ch)] \in Seq(Segments) /\ M[Unread(ch)] \in Seq(Segments)
    BY <1>2, <1>4, EmptyFacts
  <2>2. M[Free] \in Seq(Segments) BY <1>3, <1>4
  <2>3. \A x \in Places : M[x] \in Seq(Segments) BY <2>1, <2>2, PlaceFacts
  <2> QED BY <1>1, <2>3
<1>6. ASSUME NEW x \in Places PROVE (Spells(next, M[x], Start(x)))'
  <2>1. CASE x = Free
    <3>1. Spells(next, L[Free], Start(Free)) BY PlaceFacts DEF Lists
    <3> QED BY <1>3, <2>1, <3>1, StartFacts, StartFactsNext
  <2>2. ASSUME NEW ch \in Channels, x = Contents(ch) PROVE (Spells(next, M[x], Start(x)))'
    <3>1. (Start(x))' = Nil BY <2>2, StartFactsNext
    <3> QED BY <1>2, <2>2, <3>1, EmptyList
  <2>3. ASSUME NEW ch \in Channels, x = Unread(ch) PROVE (Spells(next, M[x], Start(x)))'
    <3>1. decompress'[ch].segment = head[ch] BY DEF NewIndex
    <3>2. (Start(x))' = head[ch] BY <2>3, <3>1, StartFactsNext
    <3> QED BY <1>2, <2>3, <3>2, ListFacts
  <2> QED BY <2>1, <2>2, <2>3, PlaceFacts
<1>7. ASSUME NEW x \in Places, NEW y \in Places, x # y PROVE Range(M[x]) \cap Range(M[y]) = {}
  <2> DEFINE Old(z) == IF z = Free THEN Free ELSE Contents(z[2])
  <2>1. ASSUME NEW z \in Places
        PROVE  \/ Range(M[z]) = {}
               \/ M[z] = L[Old(z)] /\ Old(z) \in Places
                  /\ (z = Free \/ \E ch \in Channels : z = Unread(ch))
    <3>1. CASE z = Free BY <1>3, <3>1, PlaceFacts
    <3>2. ASSUME NEW ch \in Channels, z = Contents(ch) PROVE Range(M[z]) = {}
      BY <1>2, <3>2, EmptyFacts
    <3>3. ASSUME NEW ch \in Channels, z = Unread(ch)
          PROVE  M[z] = L[Old(z)] /\ Old(z) \in Places
      <4>1. z[2] = ch /\ z # Free BY <3>3, PlaceFacts DEF Unread
      <4> QED BY <1>2, <3>3, <4>1, PlaceFacts
    <3> QED BY <3>1, <3>2, <3>3, PlaceFacts
  <2>2. ASSUME x = Free \/ \E ch \in Channels : x = Unread(ch),
               y = Free \/ \E ch \in Channels : y = Unread(ch)
        PROVE  Old(x) # Old(y)
    <3>1. \A ch \in Channels : Unread(ch)[2] = ch /\ Unread(ch) # Free BY PlaceFacts DEF Unread
    <3> QED BY <1>7, <2>2, <3>1, PlaceFacts
  <2> HIDE DEF Old
  <2>3. \A v, z \in Places : v # z => Range(L[v]) \cap Range(L[z]) = {} BY DEF Lists
  <2> QED BY <2>1, <2>2, <2>3
<1>8. ASSUME NEW s \in Segments PROVE s <= made <=> \E x \in Places : s \in Range(M[x])
  <2>1. s <= made <=> \E x \in Places : s \in Range(L[x]) BY DEF Lists
  <2>2. ASSUME NEW x \in Places, s \in Range(L[x]) PROVE \E y \in Places : s \in Range(M[y])
    <3>1. Range(<<>>) = {} BY EmptyFacts
    <3> QED BY <1>2, <1>3, <1>4, <2>2, <3>1, PlaceFacts
  <2>3. ASSUME NEW x \in Places, s \in Range(M[x]) PROVE \E y \in Places : s \in Range(L[y])
    <3>1. Range(<<>>) = {} BY EmptyFacts
    <3> QED BY <1>2, <1>3, <2>3, <3>1, PlaceFacts
  <2> QED BY <2>1, <2>2, <2>3
<1>9. (Lists(M))' BY <1>5, <1>6, <1>7, <1>8 DEF Lists
<1> QED BY <1>2, <1>9

LEMMA NewTypes ==
  /\ \A s \in 0 .. MaxSegments : NewIndex(s) \in IndexType
  /\ Nil \in 0 .. MaxSegments /\ Empty \in [Channels -> Seq(Nat)]
  /\ \A ch \in Channels : Empty[ch] = <<>> /\ Len(Empty[ch]) = 0
<1>1. 0 \in 0 .. SegmentSize BY Numbers
<1>2. ASSUME NEW s \in 0 .. MaxSegments PROVE NewIndex(s) \in IndexType
  BY <1>1 DEF NewIndex, IndexType
<1>3. Nil \in 0 .. MaxSegments BY Numbers
<1>4. Empty \in [Channels -> Seq(Nat)]
      /\ \A ch \in Channels : Empty[ch] = <<>> /\ Len(Empty[ch]) = 0
  BY EmptyFacts DEF Empty
<1> QED BY <1>2, <1>3, <1>4

(* Bytes of a channel that is idle are in its segments.                    *)
LEMMA IdleFacts ==
  ASSUME NEW L, NEW R, Inv(L, R), mode \in {"idle", "reading"}, NEW ch \in Channels
  PROVE  /\ CursorAt(compress[ch], L[Contents(ch)]) /\ Filled(compress[ch]) \in Nat
         /\ Len(stored[ch]) <= SegmentSize * Len(L[Contents(ch)])
         /\ Holds(data, L[Contents(ch)], 0, stored[ch]) /\ stored[ch] \in Seq(Nat)
         /\ stored[ch] = <<>> <=> L[Contents(ch)] = <<>>
<1> DEFINE l == L[Contents(ch)]
<1>1. Types /\ Lists(L) /\ WriterAt(ch, l) BY DEF Inv, WritersInv
<1>2. /\ CursorAt(compress[ch], l) /\ Len(stored[ch]) <= Filled(compress[ch])
      /\ Holds(data, l, 0, stored[ch]) /\ (stored[ch] = <<>> => l = <<>>)
  BY <1>1 DEF WriterAt, Writes
<1>3. compress[ch] \in IndexType /\ stored[ch] \in Seq(Nat) BY <1>1 DEF Types
<1>4. l \in Seq(Segments) BY <1>1, ListFacts
<1> HIDE DEF l
<1>5. /\ Filled(compress[ch]) \in Nat /\ Filled(compress[ch]) <= SegmentSize * Len(l)
      /\ l = <<>> => Filled(compress[ch]) = 0
  BY <1>2, <1>3, <1>4, CursorFacts
<1>6. Len(stored[ch]) \in Nat /\ SegmentSize * Len(l) \in Nat
      /\ (stored[ch] # <<>> <=> Len(stored[ch]) > 0)
  <2>1. Len(l) \in Nat BY <1>4, SeqFacts
  <2> QED BY <1>3, <2>1, SeqFacts, Product
<1>7. Len(stored[ch]) <= SegmentSize * Len(l) BY <1>2, <1>5, <1>6
<1>8. l = <<>> => stored[ch] = <<>> BY <1>2, <1>5, <1>6
<1> QED BY <1>2, <1>3, <1>5, <1>7, <1>8 DEF l

LEMMA InitDecompressStep ==
  ASSUME NEW L, NEW R, Inv(L, R), NEW consume \in BOOLEAN, InitDecompress(consume)
  PROVE  Core'
<1>1. /\ Types /\ Lists(L) /\ WritersInv(L) /\ ReadersInv(R) /\ ConsumesInv(L, R)
      /\ FileInv /\ ModesInv
  BY DEF Inv
<1>2. /\ mode = "idle" /\ mode' = (IF consume THEN "opened" ELSE "reading") /\ got' = Empty
      /\ UNCHANGED <<top, made, next, data, compress, bytes, numSegments, written, stored,
                     generation, file>>
  BY DEF InitDecompress, segments
<1>3. reader = "none" BY <1>1, <1>2 DEF Types, ModesInv
<1>4. \A ch \in Channels :
        /\ CursorAt(compress[ch], L[Contents(ch)])
        /\ Len(stored[ch]) <= SegmentSize * Len(L[Contents(ch)])
        /\ Holds(data, L[Contents(ch)], 0, stored[ch]) /\ stored[ch] \in Seq(Nat)
        /\ stored[ch] = <<>> <=> L[Contents(ch)] = <<>>
  BY <1>2, IdleFacts
<1>5. ~Consumes BY <1>3 DEF Consumes
<1>6. FileInv' BY <1>1, <1>2 DEF FileInv
<1>7. \A ch \in Channels : Spells(next, L[Contents(ch)], head[ch]) BY <1>1, ListFacts
<1>8. head \in [Channels -> 0 .. MaxSegments] BY <1>1 DEF Types
<1>9. ASSUME mode' = "reading"
      PROVE  \A ch \in Channels : (WriterAt(ch, L[Contents(ch)]))'
  <2> SUFFICES ASSUME NEW ch \in Channels PROVE (WriterAt(ch, L[Contents(ch)]))' OBVIOUS
  <2>1. WriterAt(ch, L[Contents(ch)]) BY <1>1 DEF WritersInv
  <2> QED BY <1>2, <1>9, <2>1 DEF WriterAt, Writes
<1>10. ASSUME mode' = "opened", NEW M, \A ch \in Channels : M[Contents(ch)] = <<>>
       PROVE  (WritersInv(M))'
  BY <1>10 DEF WritersInv, WriterAt, Writes
<1>11. ASSUME bytes = 0 PROVE Core'
  <2>1. reader' = "none" /\ UNCHANGED <<decompress, head>> BY <1>11 DEF InitDecompress
  <2>2. stored = Empty BY <1>1, <1>2, <1>11 DEF ModesInv
  <2>3. Types' BY <1>1, <1>2, <2>1, NewTypes DEF Types
  <2>4. (Lists(L))'
    <3>1. ~Consumes' BY <2>1 DEF Consumes
    <3>2. \A x \in Places : (Start(x))' = Start(x) BY <1>2, <1>5, <2>1, <3>1, SameStarts
    <3> QED BY <1>1, <1>2, <3>2, SameLists
  <2>5. (WritersInv(L))'
    <3>1. CASE mode' = "opened" BY <1>4, <1>10, <2>2, <3>1, NewTypes
    <3>2. CASE mode' = "reading" BY <1>9, <3>2 DEF WritersInv
    <3> QED BY <1>2, <3>1, <3>2
  <2>6. (ReadersInv(R))' /\ (ConsumesInv(L, R))' BY <2>1 DEF ReadersInv, ConsumesInv
  <2>7. ModesInv' BY <1>1, <1>2, <1>3, <1>11, <2>1, <2>2 DEF ModesInv
  <2>8. (Inv(L, R))' BY <1>6, <2>3, <2>4, <2>5, <2>6, <2>7 DEF Inv
  <2> QED BY <2>8 DEF Core
<1>12. ASSUME bytes # 0 PROVE Core'
  <2>1. /\ reader' = IF consume THEN "readBytesAndConsume" ELSE "readBytes"
        /\ decompress' = [ch \in Channels |-> NewIndex(head[ch])]
        /\ head' = IF consume THEN [ch \in Channels |-> Nil] ELSE head
    BY <1>12 DEF InitDecompress
  <2>2. stored # Empty BY <1>1, <1>2, <1>12 DEF ModesInv
  <2>3. decompress' \in [Channels -> IndexType] BY <1>8, <2>1, NewTypes
  <2>4. head' \in [Channels -> 0 .. MaxSegments] BY <1>8, <2>1, NewTypes
  <2>5. Types' BY <1>1, <1>2, <2>1, <2>3, <2>4, NewTypes DEF Types
  <2>6. ModesInv' BY <1>1, <1>2, <1>12, <2>1, <2>2 DEF ModesInv
  <2>7. PICK S : S = [ch \in Channels |-> L[Contents(ch)]] OBVIOUS
  <2>8. (ReadersInv(S))'
    <3> SUFFICES ASSUME NEW ch \in Channels PROVE (ReaderAt(ch, S[ch]))' BY DEF ReadersInv
    <3>1. Reads(next, data, L[Contents(ch)], NewIndex(head[ch]), <<>>, stored[ch])
      BY <1>4, <1>7, ReaderStarts
    <3>2. got'[ch] = <<>> /\ decompress'[ch] = NewIndex(head[ch]) /\ S[ch] = L[Contents(ch)]
      BY <1>2, <2>1, <2>7, NewTypes
    <3> QED BY <1>2, <3>1, <3>2 DEF ReaderAt
  <2>9. CASE consume
    <3>1. Consumes' BY <2>1, <2>9 DEF Consumes
    <3>2. PICK M : /\ (Lists(M))'
                   /\ \A ch \in Channels : M[Contents(ch)] = <<>> /\ M[Unread(ch)] = L[Contents(ch)]
      BY <1>1, <1>2, <1>5, <2>1, <2>9, <3>1, Opened
    <3>3. (WritersInv(M))' BY <1>2, <1>10, <2>9, <3>2
    <3>4. (ConsumesInv(M, S))' BY <2>7, <3>2 DEF ConsumesInv
    <3>5. (Inv(M, S))' BY <1>6, <2>5, <2>6, <2>8, <3>2, <3>3, <3>4 DEF Inv
    <3> QED BY <3>5 DEF Core
  <2>10. CASE ~consume
    <3>1. (Lists(L))'
      <4>1. ~Consumes' BY <2>1, <2>10 DEF Consumes
      <4>2. \A x \in Places : (Start(x))' = Start(x)
        BY <1>2, <1>5, <2>1, <2>10, <4>1, SameStarts
      <4> QED BY <1>1, <1>2, <4>2, SameLists
    <3>2. (WritersInv(L))' BY <1>2, <1>9, <2>10 DEF WritersInv
    <3>3. (ConsumesInv(L, S))' BY <2>1, <2>10 DEF ConsumesInv
    <3>4. (Inv(L, S))' BY <1>6, <2>5, <2>6, <2>8, <3>1, <3>2, <3>3 DEF Inv
    <3> QED BY <3>4 DEF Core
  <2> QED BY <2>9, <2>10
<1> QED BY <1>11, <1>12

LEMMA InitCompressStep ==
  ASSUME NEW L, NEW R, Inv(L, R), InitCompress
  PROVE  Core'
<1>1. /\ Types /\ Lists(L) /\ WritersInv(L) /\ ReadersInv(R) /\ ConsumesInv(L, R)
      /\ FileInv /\ ModesInv
  BY DEF Inv
<1>2. /\ mode = "opened" /\ mode' = "update" /\ written' = Empty
      /\ compress' = [ch \in Channels |-> NewIndex(head[ch])]
      /\ UNCHANGED <<top, made, next, data, head, decompress, bytes, numSegments, reader, got,
                     stored, generation, file>>
  BY DEF InitCompress, segments
<1>3. ASSUME NEW ch \in Channels
      PROVE  L[Contents(ch)] = <<>> /\ head[ch] = Nil
  <2>1. L[Contents(ch)] = <<>> BY <1>1, <1>2 DEF WritersInv, WriterAt, Writes
  <2>2. Spells(next, L[Contents(ch)], head[ch]) BY <1>1, ListFacts
  <2> QED BY <2>1, <2>2 DEF Spells, First
<1>4. (WritersInv(L))'
  <2> SUFFICES ASSUME NEW ch \in Channels PROVE (WriterAt(ch, L[Contents(ch)]))' BY DEF WritersInv
  <2>1. compress'[ch] = NewIndex(Nil) /\ L[Contents(ch)] = <<>> BY <1>2, <1>3
  <2>2. CursorAt(compress'[ch], <<>>) BY <2>1 DEF CursorAt
  <2>3. Filled(compress'[ch]) = 0
    <3>1. NewIndex(Nil).pos = 0 /\ NewIndex(Nil).finished = 0 BY DEF NewIndex
    <3>2. SegmentSize * 0 = 0 BY Numbers, Product
    <3> QED BY <2>1, <3>1, <3>2 DEF Filled
  <2>4. Len(written'[ch]) = 0 BY <1>2, NewTypes
  <2>5. Holds(data', <<>>, 0, written'[ch])
    <3>1. 1 .. Len(<<>>) = {} BY EmptyFacts
    <3> QED BY <3>1 DEF Holds
  <2> QED BY <1>2, <2>1, <2>2, <2>3, <2>4, <2>5 DEF WriterAt, Writes
<1>5. Types'
  <2>1. \A ch \in Channels : head[ch] \in 0 .. MaxSegments BY <1>1 DEF Types
  <2>2. compress' \in [Channels -> IndexType] BY <1>2, <2>1, NewTypes
  <2> QED BY <1>1, <1>2, <2>2, NewTypes DEF Types
<1>6. (Lists(L))'
  <2>1. Consumes' <=> Consumes BY <1>2 DEF Consumes
  <2>2. \A x \in Places : (Start(x))' = Start(x) BY <1>2, <2>1, SameStarts
  <2> QED BY <1>1, <1>2, <2>2, SameLists
<1>7. (ReadersInv(R))' /\ (ConsumesInv(L, R))' /\ FileInv'
  BY <1>1, <1>2 DEF ReadersInv, ReaderAt, ConsumesInv, FileInv
<1>8. ModesInv' BY <1>1, <1>2 DEF ModesInv
<1>9. (Inv(L, R))' BY <1>4, <1>5, <1>6, <1>7, <1>8 DEF Inv
<1> QED BY <1>9 DEF Core

LEMMA FinishReadingStep ==
  ASSUME NEW L, NEW R, Inv(L, R), FinishReading
  PROVE  Core'
<1>1. /\ Types /\ Lists(L) /\ WritersInv(L) /\ ReadersInv(R) /\ ConsumesInv(L, R)
      /\ FileInv /\ ModesInv
  BY DEF Inv
<1>2. /\ mode = "reading" /\ mode' = "idle" /\ reader' = "none" /\ got' = Empty
      /\ UNCHANGED <<top, made, next, data, head, compress, decompress, bytes, numSegments,
                     written, stored, generation, file>>
  BY DEF FinishReading, segments, cursors
<1>3. ~Consumes /\ ~Consumes' BY <1>1, <1>2 DEF Consumes, ModesInv
<1>4. (Lists(L))'
  <2>1. \A x \in Places : (Start(x))' = Start(x) BY <1>2, <1>3, SameStarts
  <2> QED BY <1>1, <1>2, <2>1, SameLists
<1>5. (WritersInv(L))'
  <2> SUFFICES ASSUME NEW ch \in Channels PROVE (WriterAt(ch, L[Contents(ch)]))' BY DEF WritersInv
  <2>1. WriterAt(ch, L[Contents(ch)]) BY <1>1 DEF WritersInv
  <2> QED BY <1>2, <2>1 DEF WriterAt, Writes
<1>6. Types' BY <1>1, <1>2, NewTypes DEF Types
<1>7. (ReadersInv(R))' /\ (ConsumesInv(L, R))' /\ FileInv'
  BY <1>1, <1>2 DEF ReadersInv, ConsumesInv, FileInv
<1>8. ModesInv' BY <1>1, <1>2 DEF ModesInv
<1>9. (Inv(L, R))' BY <1>4, <1>5, <1>6, <1>7, <1>8 DEF Inv
<1> QED BY <1>9 DEF Core

(* A storage has no bytes only if it has no contents.                      *)
LEMMA NoBytes ==
  ASSUME compress \in [Channels -> IndexType], NEW w \in [Channels -> Seq(Nat)],
         \A ch \in Channels : Filled(compress[ch]) \in Nat
                           /\ (Filled(compress[ch]) = 0 <=> w[ch] = <<>>)
  PROVE  BytesAt(compress) \in Nat /\ (BytesAt(compress) = 0 <=> w = Empty)
<1>1. /\ BytesAt(compress) \in Nat
      /\ BytesAt(compress) = 0 <=> \A ch \in Channels : Filled(compress[ch]) = 0
  BY BytesFacts
<1>2. w = Empty <=> \A ch \in Channels : w[ch] = <<>>
  <2>1. w = [ch \in Channels |-> w[ch]] OBVIOUS
  <2> QED BY <2>1 DEF Empty
<1> QED BY <1>1, <1>2

LEMMA FinishCompressStep ==
  ASSUME NEW L, NEW R, Inv(L, R), FinishCompress
  PROVE  Core'
<1>1. /\ Types /\ Lists(L) /\ WritersInv(L) /\ ReadersInv(R) /\ ConsumesInv(L, R)
      /\ FileInv /\ ModesInv
  BY DEF Inv
<1>2. /\ mode = "closing" /\ mode' = "idle" /\ bytes' = BytesAt(compress) /\ stored' = written
      /\ generation' = 1 - generation /\ written' = Empty
      /\ UNCHANGED <<top, made, next, data, head, compress, decompress, numSegments,
                     reader, got, file>>
  BY DEF FinishCompress, segments, cursors
<1>3. reader = "none" /\ ~Consumes /\ ~Consumes' BY <1>1, <1>2 DEF ModesInv, Types, Consumes
<1>4. (Lists(L))'
  <2>1. \A x \in Places : (Start(x))' = Start(x) BY <1>2, <1>3, SameStarts
  <2> QED BY <1>1, <1>2, <2>1, SameLists
<1>5. ASSUME NEW ch \in Channels
      PROVE  /\ CursorAt(compress[ch], L[Contents(ch)]) /\ Holds(data, L[Contents(ch)], 0, written[ch])
             /\ Len(written[ch]) = Filled(compress[ch]) /\ Filled(compress[ch]) \in Nat
             /\ Filled(compress[ch]) = 0 <=> written[ch] = <<>>
             /\ Filled(compress[ch]) = 0 <=> L[Contents(ch)] = <<>>
  <2>1. WriterAt(ch, L[Contents(ch)]) BY <1>1 DEF WritersInv
  <2>2. /\ CursorAt(compress[ch], L[Contents(ch)]) /\ Holds(data, L[Contents(ch)], 0, written[ch])
        /\ Len(written[ch]) = Filled(compress[ch])
    BY <1>2, <2>1 DEF WriterAt, Writes
  <2>3. /\ compress[ch] \in IndexType /\ L[Contents(ch)] \in Seq(Segments)
        /\ written[ch] \in Seq(Nat)
    BY <1>1, ListFacts DEF Types
  <2>4. /\ Filled(compress[ch]) \in Nat
        /\ L[Contents(ch)] = <<>> => Filled(compress[ch]) = 0
        /\ L[Contents(ch)] # <<>> => Filled(compress[ch]) > 0
    BY <2>2, <2>3, CursorFacts
  <2>5. written[ch] # <<>> <=> Len(written[ch]) > 0 BY <2>3, SeqFacts
  <2>6. \A k \in Nat : k > 0 <=> k # 0 OBVIOUS
  <2> QED BY <2>2, <2>4, <2>5, <2>6
<1>6. (WritersInv(L))'
  <2> SUFFICES ASSUME NEW ch \in Channels PROVE (WriterAt(ch, L[Contents(ch)]))' BY DEF WritersInv
  <2>1. Len(written[ch]) <= Filled(compress[ch])
    <3>1. \A k \in Nat : k <= k OBVIOUS
    <3> QED BY <1>5, <3>1
  <2> QED BY <1>2, <1>5, <2>1 DEF WriterAt, Writes
<1>7. BytesAt(compress) \in Nat /\ (BytesAt(compress) = 0 <=> written = Empty)
  BY <1>1, <1>5, NoBytes DEF Types
<1>8. Types'
  <2>1. 1 - generation \in {0, 1} BY <1>1 DEF Types
  <2> QED BY <1>1, <1>2, <1>7, <2>1, NewTypes DEF Types
<1>9. (ReadersInv(R))' /\ (ConsumesInv(L, R))' /\ FileInv'
  BY <1>1, <1>2, <1>3 DEF ReadersInv, ConsumesInv, FileInv
<1>10. ModesInv' BY <1>1, <1>2, <1>3, <1>7 DEF ModesInv
<1>11. (Inv(L, R))' BY <1>4, <1>6, <1>8, <1>9, <1>10 DEF Inv
<1> QED BY <1>11 DEF Core

LEMMA FinishLoadStep ==
  ASSUME NEW L, NEW R, Inv(L, R), FinishLoad
  PROVE  Core'
<1>1. /\ Types /\ Lists(L) /\ WritersInv(L) /\ ReadersInv(R) /\ ConsumesInv(L, R)
      /\ FileInv /\ ModesInv
  BY DEF Inv
<1>2. /\ mode = "discarded" /\ (\A ch \in Channels : Missing(ch) = 0) /\ mode' = "idle"
      /\ bytes' = BytesAt(compress) /\ stored' = file.stored /\ file' = NoFile
      /\ UNCHANGED <<top, made, next, data, head, compress, decompress, numSegments,
                     reader, got, written, generation>>
  BY DEF FinishLoad, segments, cursors
<1>3. reader = "none" /\ ~Consumes /\ ~Consumes' BY <1>1, <1>2 DEF ModesInv, Types, Consumes
<1>4. (Lists(L))'
  <2>1. \A x \in Places : (Start(x))' = Start(x) BY <1>2, <1>3, SameStarts
  <2> QED BY <1>1, <1>2, <2>1, SameLists
<1>5. file.stored \in [Channels -> Seq(Nat)]
      /\ file.chunks \in [Channels -> Seq([Positions -> Nat])]
  BY <1>1 DEF Types
<1>6. ASSUME NEW ch \in Channels
      PROVE  /\ CursorAt(compress[ch], L[Contents(ch)])
             /\ Holds(data, L[Contents(ch)], 0, file.stored[ch])
             /\ Len(file.stored[ch]) <= Filled(compress[ch]) /\ Filled(compress[ch]) \in Nat
             /\ Filled(compress[ch]) = 0 <=> file.stored[ch] = <<>>
             /\ Filled(compress[ch]) = 0 <=> L[Contents(ch)] = <<>>
  <2> DEFINE l == L[Contents(ch)]
             q == file.chunks[ch]
             w == file.stored[ch]
             k == Filled(compress[ch])
  <2>1. WriterAt(ch, l) BY <1>1 DEF WritersInv
  <2>2. CursorAt(compress[ch], l) /\ Loaded(data, l, k, q)
    BY <1>2, <2>1 DEF WriterAt, Writes
  <2>3. compress[ch] \in IndexType /\ l \in Seq(Segments) BY <1>1, ListFacts DEF Types
  <2>4. /\ k \in Nat
        /\ l = <<>> => k = 0
        /\ l # <<>> => k > 0
    BY <2>2, <2>3, CursorFacts
  <2>5. FileAt(q, w) BY <1>1 DEF FileInv
  <2>6. /\ w \in Seq(Nat) /\ Len(w) \in Nat /\ Len(q) \in Nat /\ SegmentSize * Len(q) \in Nat
        /\ q # <<>> <=> Len(q) > 0
    <3>1. q \in Seq([Positions -> Nat]) /\ w \in Seq(Nat) BY <1>5
    <3>2. Len(q) \in Nat /\ Len(w) \in Nat /\ (q # <<>> <=> Len(q) > 0) BY <3>1, SeqFacts
    <3> QED BY <3>1, <3>2, Product
  <2>7. SegmentSize * Len(q) - k = 0 BY <1>2 DEF Missing
  <2> HIDE DEF l, q, w, k
  <2>8. k = SegmentSize * Len(q) BY <2>4, <2>6, <2>7
  <2>9. k = 0 <=> q = <<>>
    <3>1. q = <<>> => k = 0
      <4>1. SegmentSize * 0 = 0 BY Numbers, Product
      <4> QED BY <2>6, <2>8, <4>1
    <3>2. q # <<>> => k > 0
      <4> SUFFICES ASSUME q # <<>> PROVE k > 0 OBVIOUS
      <4>1. 1 \in Nat /\ 1 <= Len(q) /\ SegmentSize \in Nat \ {0} BY <2>6, Numbers
      <4>2. SegmentSize * 1 <= SegmentSize * Len(q) BY <2>6, <4>1, Product
      <4>3. SegmentSize * 1 = SegmentSize BY <4>1
      <4> QED BY <2>4, <2>6, <2>8, <4>1, <4>2, <4>3
    <3> QED BY <2>4, <3>1, <3>2
  <2>10. Len(w) <= k BY <2>5, <2>8 DEF FileAt
  <2>11. Holds(data, l, 0, w)
    <3> SUFFICES ASSUME NEW i \in 1 .. Len(l), NEW p \in Positions, 0 + Offset(i, p) < Len(w)
                 PROVE  data[l[i]][p] = w[0 + Offset(i, p) + 1]
      BY DEF Holds
    <3>1. i \in Nat \ {0}
      <4>1. Len(l) \in Nat BY <2>3, SeqFacts DEF l
      <4> QED BY <4>1
    <3>2. Offset(i, p) \in Nat BY <3>1, Offsets
    <3>3. Offset(i, p) < Len(w) /\ 0 + Offset(i, p) = Offset(i, p) /\ Offset(i, p) < k
      BY <2>4, <2>6, <2>10, <3>2
    <3>4. i \in 1 .. Len(q) /\ data[l[i]][p] = q[i][p] BY <2>2, <3>3 DEF Loaded, l, q, k
    <3>5. q[i][p] = w[Offset(i, p) + 1] BY <2>5, <3>3, <3>4 DEF FileAt
    <3> QED BY <3>3, <3>4, <3>5
  <2>12. w = <<>> <=> q = <<>> BY <2>5 DEF FileAt
  <2>13. k = 0 <=> l = <<>> BY <2>4
  <2>14. CursorAt(compress[ch], l) BY <2>2 DEF l
  <2> QED BY <2>4, <2>9, <2>10, <2>11, <2>12, <2>13, <2>14 DEF l, w, k
<1>7. (WritersInv(L))'
  <2> SUFFICES ASSUME NEW ch \in Channels PROVE (WriterAt(ch, L[Contents(ch)]))' BY DEF WritersInv
  <2> QED BY <1>2, <1>6 DEF WriterAt, Writes
<1>8. BytesAt(compress) \in Nat /\ (BytesAt(compress) = 0 <=> file.stored = Empty)
  BY <1>1, <1>5, <1>6, NoBytes DEF Types
<1>9. NoFile \in [chunks : [Channels -> Seq([Positions -> Nat])], stored : [Channels -> Seq(Nat)]]
  <2>1. Empty \in [Channels -> Seq([Positions -> Nat])] BY EmptyFacts DEF Empty
  <2> QED BY <2>1, NewTypes DEF NoFile
<1>10. Types' BY <1>1, <1>2, <1>5, <1>8, <1>9 DEF Types
<1>11. FileInv'
  <2> SUFFICES ASSUME NEW ch \in Channels PROVE FileAt(file'.chunks[ch], file'.stored[ch])
    BY DEF FileInv
  <2>1. file'.chunks[ch] = <<>> /\ file'.stored[ch] = <<>> BY <1>2, NewTypes DEF NoFile
  <2>2. Len(<<>>) = 0 /\ SegmentSize * 0 = 0 /\ 1 .. 0 = {} /\ 0 <= 0
    BY EmptyFacts, Numbers, Product
  <2> QED BY <2>1, <2>2 DEF FileAt
<1>12. (ReadersInv(R))' /\ (ConsumesInv(L, R))'
  BY <1>1, <1>2, <1>3 DEF ReadersInv, ConsumesInv
<1>13. ModesInv' BY <1>1, <1>2, <1>3, <1>8 DEF ModesInv
<1>14. (Inv(L, R))' BY <1>4, <1>7, <1>10, <1>11, <1>12, <1>13 DEF Inv
<1> QED BY <1>14 DEF Core

(* A byte put on ch leaves the other channels, and what is to be read.     *)
PutDone(R, M, ch, byte, l, m) ==
  /\ (Lists(M))' /\ m = M[Contents(ch)] /\ (ReadersInv(R))' /\ (ConsumesInv(M, R))'
  /\ \A k \in Channels : k # ch => (WriterAt(k, M[Contents(k)]))'
  /\ CursorAt(compress'[ch], m) /\ Filled(compress'[ch]) = Filled(compress[ch]) + 1
  /\ \A i \in 1 .. Len(m), p \in Positions : Offset(i, p) < Filled(compress[ch]) + 1 =>
       \/ Offset(i, p) = Filled(compress[ch]) /\ data'[m[i]][p] = byte
       \/ /\ Offset(i, p) < Filled(compress[ch]) /\ i \in 1 .. Len(l)
          /\ data'[m[i]][p] = data[l[i]][p]

LEMMA PutStep ==
  ASSUME NEW L, NEW R, Inv(L, R), mode \in {"update", "closing", "discarded"},
         NEW ch \in Channels, NEW byte \in Nat, Put(ch, byte),
         UNCHANGED <<decompress, bytes, mode, reader, got, stored, generation, file>>,
         \A k \in Channels : k # ch => written'[k] = written[k],
         written' \in [Channels -> Seq(Nat)]
  PROVE  /\ Types' /\ \E M, m : PutDone(R, M, ch, byte, L[Contents(ch)], m)
         /\ Filled(compress[ch]) \in Nat
<1> DEFINE l == L[Contents(ch)]
<1>1. /\ Types /\ Lists(L) /\ WritersInv(L) /\ ReadersInv(R) /\ ConsumesInv(L, R)
      /\ FileInv /\ ModesInv
  BY DEF Inv
<1>2. WriterAt(ch, l) BY <1>1 DEF WritersInv
<1>3. CursorAt(compress[ch], l) BY <1>2 DEF WriterAt, Writes
<1>4. l \in Seq(Segments) /\ compress[ch] \in IndexType BY <1>1, ListFacts DEF Types
<1>5. Filled(compress[ch]) \in Nat BY <1>3, <1>4, CursorFacts
<1>6. /\ \E M, target, pos : /\ target \in Segments /\ pos \in Positions
                             /\ PutAt(L, M, ch, byte, target, pos)
      /\ next' \in [Segments -> 0 .. MaxSegments] /\ top' \in 0 .. MaxSegments
      /\ head' \in [Channels -> 0 .. MaxSegments] /\ made' \in 0 .. MaxSegments
      /\ numSegments' \in Nat
  BY <1>1, <1>3, PutPlace
<1>7. PICK M, target, pos : /\ target \in Segments /\ pos \in Positions
                            /\ PutAt(L, M, ch, byte, target, pos)
  BY <1>6
<1>8. PICK m : m = M[Contents(ch)] OBVIOUS
<1>9. /\ CursorAt(compress'[ch], m) /\ Filled(compress'[ch]) = Filled(compress[ch]) + 1
      /\ compress' \in [Channels -> IndexType]
      /\ \A k \in Channels : k # ch => compress'[k] = compress[k]
      /\ data' \in [Segments -> [Positions -> Nat]]
      /\ \A x \in Places \ {Free, Contents(ch)} : \A s \in Range(L[x]) : data'[s] = data[s]
      /\ \A i \in 1 .. Len(m), p \in Positions : Offset(i, p) < Filled(compress[ch]) + 1 =>
           \/ Offset(i, p) = Filled(compress[ch]) /\ data'[m[i]][p] = byte
           \/ /\ Offset(i, p) < Filled(compress[ch]) /\ i \in 1 .. Len(l)
              /\ data'[m[i]][p] = data[l[i]][p]
  BY <1>1, <1>3, <1>7, <1>8, PutFacts
<1>10. (Lists(M))' /\ \A x \in Places \ {Free, Contents(ch)} : M[x] = L[x]
  BY <1>7 DEF PutAt
<1>11. Types' BY <1>1, <1>6, <1>9 DEF Types
<1>12. ASSUME NEW k \in Channels, k # ch PROVE (WriterAt(k, M[Contents(k)]))'
  <2>1. Contents(k) \in Places \ {Free, Contents(ch)} BY <1>12, PlaceFacts
  <2>2. M[Contents(k)] = L[Contents(k)] /\ \A s \in Range(L[Contents(k)]) : data'[s] = data[s]
    BY <1>9, <1>10, <2>1
  <2>3. L[Contents(k)] \in Seq(Segments) BY <1>1, ListFacts
  <2>4. WriterAt(k, L[Contents(k)]) BY <1>1 DEF WritersInv
  <2>5. Writes(mode, data', L[Contents(k)], compress[k], written[k], stored[k], file.chunks[k])
    BY <2>2, <2>3, <2>4, WriterFrame DEF WriterAt
  <2> QED BY <1>9, <1>12, <2>2, <2>5 DEF WriterAt
<1>13. (ConsumesInv(M, R))'
  <2>1. \A k \in Channels : M[Unread(k)] = L[Unread(k)] BY <1>10, PlaceFacts
  <2> QED BY <1>1, <2>1 DEF ConsumesInv
<1>14. (ReadersInv(R))'
  <2> SUFFICES ASSUME reader # "none", NEW k \in Channels PROVE (ReaderAt(k, R[k]))'
    BY DEF ReadersInv
  <2>1. Consumes BY <1>1 DEF ModesInv, Types, Consumes
  <2>2. Consumes' BY <2>1 DEF Consumes
  <2>3. R[k] = L[Unread(k)] /\ R[k] = M[Unread(k)]
    BY <1>1, <1>13, <2>1, <2>2 DEF ConsumesInv, Consumes
  <2>4. Unread(k) \in Places \ {Free, Contents(ch)} BY PlaceFacts
  <2>5. \A s \in Range(R[k]) : data'[s] = data[s] BY <1>9, <2>3, <2>4
  <2>6. (Spells(next, M[Unread(k)], Start(Unread(k))))' BY <1>10, <2>4 DEF Lists
  <2>7. Spells(next', R[k], decompress[k].segment) BY <2>2, <2>3, <2>6, StartFactsNext
  <2>8. ReaderAt(k, R[k]) BY <1>1 DEF ReadersInv
  <2>9. R[k] \in Seq(Segments) BY <2>7 DEF Spells
  <2>10. Reads(next', data', R[k], decompress[k], got[k], stored[k])
    BY <2>5, <2>7, <2>8, <2>9, ReaderFrame DEF ReaderAt
  <2> QED BY <2>10 DEF ReaderAt
<1>15. PutDone(R, M, ch, byte, l, m) BY <1>8, <1>9, <1>10, <1>12, <1>13, <1>14 DEF PutDone
<1> QED BY <1>5, <1>11, <1>15

LEMMA WriteStep ==
  ASSUME NEW L, NEW R, Inv(L, R), NEW ch \in Channels, Write(ch)
  PROVE  Core'
<1> DEFINE l == L[Contents(ch)]
           w == written[ch]
           byte == Byte(Len(w) + 1)
           k == Filled(compress[ch])
<1>1. Types /\ FileInv /\ ModesInv /\ WriterAt(ch, l) BY DEF Inv, WritersInv
<1>2. /\ mode \in {"update", "closing"} /\ Put(ch, byte)
      /\ written' = [written EXCEPT ![ch] = Append(@, byte)]
      /\ UNCHANGED <<decompress, bytes, mode, reader, got, stored, generation, file>>
  BY DEF Write
<1>3. w \in Seq(Nat) /\ Len(w) \in Nat /\ written \in [Channels -> Seq(Nat)]
  BY <1>1, SeqFacts DEF Types
<1>4. byte \in Nat
  <2>1. generation \in Nat BY <1>1 DEF Types
  <2> QED BY <1>3, <2>1 DEF Byte
<1>5. /\ written' \in [Channels -> Seq(Nat)] /\ written'[ch] = Append(w, byte)
      /\ \A j \in Channels : j # ch => written'[j] = written[j]
  BY <1>2, <1>3, <1>4
<1>6. Types' /\ k \in Nat /\ \E M, m : PutDone(R, M, ch, byte, l, m) BY <1>2, <1>4, <1>5, PutStep
<1>7. PICK M, m : PutDone(R, M, ch, byte, l, m) BY <1>6
<1>8. Len(w) = k /\ Holds(data, l, 0, w) BY <1>1, <1>2 DEF WriterAt, Writes
<1>9. PICK v : v = Append(w, byte) OBVIOUS
<1>10. Len(v) = k + 1 /\ v[k + 1] = byte /\ \A i \in 1 .. k : v[i] = w[i]
  BY <1>3, <1>4, <1>8, <1>9
<1> HIDE DEF byte, k
<1>11. Holds(data', m, 0, v)
  <2> SUFFICES ASSUME NEW i \in 1 .. Len(m), NEW p \in Positions, 0 + Offset(i, p) < Len(v)
               PROVE  data'[m[i]][p] = v[0 + Offset(i, p) + 1]
    BY DEF Holds
  <2>1. i \in Nat \ {0}
    <3>1. (Lists(M))' /\ m = M[Contents(ch)] BY <1>7 DEF PutDone
    <3>2. M[Contents(ch)] \in Seq(Segments) BY <3>1, PlaceFacts DEF Lists
    <3> QED BY <3>1, <3>2, SeqFacts
  <2>2. Offset(i, p) \in Nat BY <2>1, Offsets
  <2>3. 0 + Offset(i, p) = Offset(i, p) /\ Offset(i, p) < k + 1 BY <1>10, <2>2
  <2>4. \/ Offset(i, p) = k /\ data'[m[i]][p] = byte
        \/ Offset(i, p) < k /\ i \in 1 .. Len(l) /\ data'[m[i]][p] = data[l[i]][p]
    BY <1>7, <2>3 DEF PutDone, k
  <2>5. ASSUME Offset(i, p) < k, i \in 1 .. Len(l), data'[m[i]][p] = data[l[i]][p]
        PROVE  data'[m[i]][p] = v[0 + Offset(i, p) + 1]
    <3>1. data[l[i]][p] = w[Offset(i, p) + 1] BY <1>8, <2>3, <2>5 DEF Holds
    <3>2. Offset(i, p) + 1 \in 1 .. k BY <1>6, <2>2, <2>5
    <3> QED BY <1>10, <2>3, <2>5, <3>1, <3>2
  <2> QED BY <1>10, <2>3, <2>4, <2>5
<1>12. (WriterAt(ch, m))'
  <2>1. CursorAt(compress'[ch], m) /\ Filled(compress'[ch]) = k + 1 BY <1>7 DEF PutDone, k
  <2>2. written'[ch] = v BY <1>5, <1>9
  <2> QED BY <1>2, <1>10, <1>11, <2>1, <2>2 DEF WriterAt, Writes
<1>13. (WritersInv(M))' BY <1>7, <1>12 DEF PutDone, WritersInv
<1>14. FileInv' /\ ModesInv' BY <1>1, <1>2 DEF FileInv, ModesInv
<1>15. (Inv(M, R))' BY <1>6, <1>7, <1>13, <1>14 DEF Inv, PutDone
<1> QED BY <1>15 DEF Core

LEMMA LoadByteStep ==
  ASSUME NEW L, NEW R, Inv(L, R), NEW ch \in Channels, LoadByte(ch)
  PROVE  Core'
<1> DEFINE l == L[Contents(ch)]
           q == file.chunks[ch]
           k == Filled(compress[ch])
           j == k \div SegmentSize + 1
           o == k % SegmentSize
           n == SegmentSize * Len(q) - Missing(ch)
<1>1. Types /\ Lists(L) /\ FileInv /\ ModesInv /\ WriterAt(ch, l) BY DEF Inv, WritersInv
<1>2. /\ mode = "discarded" /\ Missing(ch) > 0
      /\ Put(ch, q[n \div SegmentSize + 1][n % SegmentSize])
      /\ UNCHANGED <<decompress, bytes, mode, reader, got, written, stored, generation, file>>
  BY DEF LoadByte, streams
<1>3. CursorAt(compress[ch], l) /\ Loaded(data, l, k, q)
  BY <1>1, <1>2 DEF WriterAt, Writes
<1>4. l \in Seq(Segments) /\ compress[ch] \in IndexType /\ q \in Seq([Positions -> Nat])
      /\ written \in [Channels -> Seq(Nat)]
  BY <1>1, ListFacts DEF Types
<1>5. k \in Nat BY <1>3, <1>4, CursorFacts
<1>6. Len(q) \in Nat /\ SegmentSize * Len(q) \in Nat
  <2>1. Len(q) \in Nat BY <1>4, SeqFacts
  <2> QED BY <2>1, Product
<1>7. n = k /\ k < SegmentSize * Len(q) /\ k + 1 <= SegmentSize * Len(q)
  <2>1. Missing(ch) = SegmentSize * Len(q) - k BY DEF Missing
  <2> HIDE DEF k, q
  <2> QED BY <1>2, <1>5, <1>6, <2>1
<1>8. j \in Nat \ {0} /\ o \in Positions /\ k = Offset(j, o)
  <2> HIDE DEF k
  <2> QED BY <1>5, Division
<1>9. PICK byte : byte = q[n \div SegmentSize + 1][n % SegmentSize] OBVIOUS
<1>10. byte = q[j][o] BY <1>7, <1>9
<1> HIDE DEF j, o, k, q
<1>11. j \in 1 .. Len(q) BY <1>6, <1>7, <1>8, Offsets
<1>12. byte \in Nat BY <1>4, <1>8, <1>10, <1>11
<1>13. Put(ch, byte) BY <1>2, <1>9
<1>14. Types' /\ \E M, m : PutDone(R, M, ch, byte, l, m) BY <1>2, <1>4, <1>12, <1>13, PutStep
<1>15. PICK M, m : PutDone(R, M, ch, byte, l, m) BY <1>14
<1>16. Loaded(data', m, k + 1, q)
  <2> SUFFICES ASSUME NEW i \in 1 .. Len(m), NEW p \in Positions, Offset(i, p) < k + 1
               PROVE  i \in 1 .. Len(q) /\ data'[m[i]][p] = q[i][p]
    BY <1>7 DEF Loaded
  <2>1. i \in Nat \ {0}
    <3>1. (Lists(M))' /\ m = M[Contents(ch)] BY <1>15 DEF PutDone
    <3>2. M[Contents(ch)] \in Seq(Segments) BY <3>1, PlaceFacts DEF Lists
    <3> QED BY <3>1, <3>2, SeqFacts
  <2>2. \/ Offset(i, p) = k /\ data'[m[i]][p] = byte
        \/ Offset(i, p) < k /\ i \in 1 .. Len(l) /\ data'[m[i]][p] = data[l[i]][p]
    BY <1>15 DEF PutDone, k
  <2>3. ASSUME Offset(i, p) = k, data'[m[i]][p] = byte
        PROVE  i \in 1 .. Len(q) /\ data'[m[i]][p] = q[i][p]
    <3>0. Offset(i, p) = Offset(j, o) BY <1>8, <2>3
    <3>1. i = j /\ p = o BY <1>8, <2>1, <3>0, Offsets
    <3> QED BY <1>10, <1>11, <2>3, <3>1
  <2>4. ASSUME Offset(i, p) < k, i \in 1 .. Len(l), data'[m[i]][p] = data[l[i]][p]
        PROVE  i \in 1 .. Len(q) /\ data'[m[i]][p] = q[i][p]
    BY <1>3, <2>4 DEF Loaded
  <2> QED BY <2>2, <2>3, <2>4
<1>17. (WriterAt(ch, m))'
  <2>1. CursorAt(compress'[ch], m) /\ Filled(compress'[ch]) = k + 1 BY <1>15 DEF PutDone, k
  <2>2. file'.chunks[ch] = q BY <1>2 DEF q
  <2> QED BY <1>2, <1>16, <2>1, <2>2 DEF WriterAt, Writes
<1>18. (WritersInv(M))' BY <1>15, <1>17 DEF PutDone, WritersInv
<1>19. FileInv' /\ ModesInv' BY <1>1, <1>2 DEF FileInv, ModesInv
<1>20. (Inv(M, R))' BY <1>14, <1>15, <1>18, <1>19 DEF Inv, PutDone
<1> QED BY <1>20 DEF Core

(* The whole of what is in some lists goes to the free list.               *)
Empties(L, gone, lists) ==
  /\ gone \in {"contents", "unread"} /\ lists \in [Channels -> Seq(Segments)]
  /\ \A ch \in Channels : IsInjective(lists[ch]) /\ Range(lists[ch]) = Range(L[<<gone, ch>>])
  /\ Release(Joined(lists)) /\ made' = made
  /\ \A ch \in Channels : (Start(<<gone, ch>>))' = Nil
  /\ \A x \in Places \ {Free} :
       (\A ch \in Channels : x # <<gone, ch>>) => (Start(x))' = Start(x)

HasEmptied(L, M, gone) ==
  /\ (Lists(M))' /\ \A ch \in Channels : M[<<gone, ch>>] = <<>>
  /\ \A x \in Places \ {Free} : (\A ch \in Channels : x # <<gone, ch>>) => M[x] = L[x]

LEMMA Emptied ==
  ASSUME Types, NEW L, Lists(L), NEW gone, NEW lists, Empties(L, gone, lists)
  PROVE  /\ next' \in [Segments -> 0 .. MaxSegments] /\ top' \in 0 .. MaxSegments
         /\ \E M : HasEmptied(L, M, gone)
<1>a. /\ gone \in {"contents", "unread"} /\ lists \in [Channels -> Seq(Segments)]
      /\ \A ch \in Channels : IsInjective(lists[ch]) /\ Range(lists[ch]) = Range(L[<<gone, ch>>])
      /\ Release(Joined(lists)) /\ made' = made
      /\ \A ch \in Channels : (Start(<<gone, ch>>))' = Nil
      /\ \A x \in Places \ {Free} :
           (\A ch \in Channels : x # <<gone, ch>>) => (Start(x))' = Start(x)
  BY DEF Empties
<1> USE <1>a
<1> DEFINE K == Joined(lists)
           Goes(x) == \E ch \in Channels : x = <<gone, ch>>
<1>0. \A ch \in Channels : <<gone, ch>> \in Places \ {Free}
  <2> SUFFICES ASSUME NEW ch \in Channels PROVE <<gone, ch>> \in Places \ {Free} OBVIOUS
  <2>1. gone = "contents" \/ gone = "unread" OBVIOUS
  <2> QED BY <2>1, PlaceFacts DEF Contents, Unread
<1>1. \A x, y \in Places : x # y => Range(L[x]) \cap Range(L[y]) = {} BY DEF Lists
<1>2. \A x \in Places : L[x] \in Seq(Segments) /\ Spells(next, L[x], Start(x)) BY DEF Lists
<1>3. /\ K \in Seq(Segments) /\ IsInjective(K)
      /\ \A y : y \in Range(K) <=> \E ch \in Channels : y \in Range(lists[ch])
  <2>1. ASSUME NEW ch \in Channels, NEW c \in Channels, ch # c
        PROVE  Range(lists[ch]) \cap Range(lists[c]) = {}
    <3>1. <<gone, ch>> # <<gone, c>> BY <2>1
    <3> QED BY <1>0, <1>1, <3>1
  <2> QED BY <2>1, JoinedFacts
<1> HIDE DEF K
<1>4. \A y : y \in Range(K) <=> \E x \in Places : Goes(x) /\ y \in Range(L[x])
  <2> TAKE y
  <2>1. y \in Range(K) <=> \E ch \in Channels : y \in Range(L[<<gone, ch>>]) BY <1>3
  <2> QED BY <1>0, <2>1
<1>5. PICK M : M = [x \in Places |-> IF x = Free THEN K \o L[Free]
                                     ELSE IF Goes(x) THEN <<>> ELSE L[x]]
  OBVIOUS
<1>6. /\ Free \in Places /\ ~Goes(Free) BY <1>0, PlaceFacts
<1>7. M \in [Places -> Seq(Segments)]
  <2>1. K \o L[Free] \in Seq(Segments) BY <1>2, <1>3, <1>6
  <2>2. <<>> \in Seq(Segments) BY EmptyFacts
  <2> HIDE DEF Goes
  <2> QED BY <1>2, <1>5, <2>1, <2>2
<1>8. /\ M[Free] = K \o L[Free]
      /\ \A x \in Places \ {Free} : M[x] = IF Goes(x) THEN <<>> ELSE L[x]
  BY <1>5, <1>6
<1> HIDE DEF Goes
<1>9. Range(K) \cap Range(L[Free]) = {}
  <2>1. ASSUME NEW y, y \in Range(K) PROVE y \notin Range(L[Free])
    <3>1. PICK x \in Places : Goes(x) /\ y \in Range(L[x]) BY <1>4, <2>1
    <3> QED BY <1>1, <1>6, <3>1
  <2> QED BY <2>1
<1>10. \A s \in Range(K) : \E x \in Places \ {Free} : s \in Range(L[x])
  <2> SUFFICES ASSUME NEW s \in Range(K) PROVE \E x \in Places \ {Free} : s \in Range(L[x]) OBVIOUS
  <2>1. PICK x \in Places : Goes(x) /\ s \in Range(L[x]) BY <1>4
  <2> QED BY <1>6, <2>1
<1>11. ASSUME NEW x \in Places \ {Free}
       PROVE  Spells(next, M[x], (Start(x))') /\ Range(M[x]) = Range(L[x]) \ Range(K)
  <2>1. CASE Goes(x)
    <3>1. (Start(x))' = Nil /\ M[x] = <<>> BY <1>8, <2>1 DEF Goes
    <3>2. \A y \in Range(L[x]) : y \in Range(K) BY <1>4, <2>1
    <3> QED BY <3>1, <3>2, EmptyList, EmptyFacts
  <2>2. CASE ~Goes(x)
    <3>1. (Start(x))' = Start(x) /\ M[x] = L[x] BY <1>8, <2>2 DEF Goes
    <3>2. ASSUME NEW y \in Range(L[x]) PROVE y \notin Range(K)
      <4> SUFFICES ASSUME y \in Range(K) PROVE FALSE OBVIOUS
      <4>1. PICK z \in Places : Goes(z) /\ y \in Range(L[z]) BY <1>4
      <4> QED BY <1>1, <2>2, <4>1
    <3> QED BY <1>2, <3>1, <3>2
  <2> QED BY <2>1, <2>2
<1>12. Release(K) BY DEF K
<1>13. (Lists(M))' /\ next' \in [Segments -> 0 .. MaxSegments] /\ top' \in 0 .. MaxSegments
  <2>1. \A x \in Places \ {Free} : /\ Spells(next, M[x], (Start(x))')
                                   /\ Range(M[x]) = Range(L[x]) \ Range(K)
    BY <1>11
  <2>2. K \in Seq(Segments) /\ IsInjective(K) BY <1>3
  <2>3. M[Free] = K \o L[Free] BY <1>8
  <2>4. Moves(L, M, K) BY <1>7, <1>9, <1>10, <2>1, <2>2, <2>3 DEF Moves
  <2> QED BY <1>12, <2>4, ReleaseStep
<1>14. \A ch \in Channels : M[<<gone, ch>>] = <<>> BY <1>0, <1>8 DEF Goes
<1>15. \A x \in Places \ {Free} : (\A ch \in Channels : x # <<gone, ch>>) => M[x] = L[x]
  BY <1>8 DEF Goes
<1>16. HasEmptied(L, M, gone) BY <1>13, <1>14, <1>15 DEF HasEmptied
<1> QED BY <1>13, <1>16

LEMMA FinishConsumingStep ==
  ASSUME NEW L, NEW R, Inv(L, R), FinishConsuming
  PROVE  Core'
<1>1. /\ Types /\ Lists(L) /\ WritersInv(L) /\ ReadersInv(R) /\ ConsumesInv(L, R)
      /\ FileInv /\ ModesInv
  BY DEF Inv
<1>2. /\ mode = "update" /\ mode' = "closing" /\ reader' = "none" /\ got' = Empty
      /\ decompress' = [ch \in Channels |-> [decompress[ch] EXCEPT !.segment = Nil]]
      /\ Release(Collected)
      /\ UNCHANGED <<made, data, head, compress, bytes, numSegments, written, stored,
                     generation, file>>
  BY DEF FinishConsuming
<1>3. ~Consumes' BY <1>2 DEF Consumes
<1>4. ASSUME NEW ch \in Channels PROVE List(decompress[ch].segment) = L[Unread(ch)]
  <2>1. CASE Consumes
    <3>1. Spells(next, L[Unread(ch)], decompress[ch].segment) BY <1>1, <2>1, ListFacts
    <3> QED BY <3>1, ListKnown
  <2>2. CASE ~Consumes
    <3>1. reader = "none" BY <1>1, <1>2, <2>2 DEF ModesInv, Types, Consumes
    <3>2. decompress[ch].segment = Nil BY <1>1, <1>2, <3>1 DEF ModesInv
    <3>3. List(Nil) = <<>> BY EmptyList, ListKnown
    <3>4. L[Unread(ch)] = <<>> BY <1>1, <2>2, ListFacts
    <3> QED BY <3>2, <3>3, <3>4
  <2> QED BY <2>1, <2>2
<1>5. \A ch \in Channels : L[Unread(ch)] \in Seq(Segments) /\ IsInjective(L[Unread(ch)])
  BY <1>1, PlaceFacts DEF Lists, Spells
<1>6. PICK lists : lists = [ch \in Channels |-> Reverse(L[Unread(ch)])] OBVIOUS
<1>7. /\ lists \in [Channels -> Seq(Segments)]
      /\ \A ch \in Channels : IsInjective(lists[ch]) /\ Range(lists[ch]) = Range(L[Unread(ch)])
  <2>1. \A ch \in Channels : /\ Reverse(L[Unread(ch)]) \in Seq(Segments)
                             /\ IsInjective(Reverse(L[Unread(ch)]))
                             /\ Range(Reverse(L[Unread(ch)])) = Range(L[Unread(ch)])
    BY <1>5, ReverseFacts
  <2> QED BY <1>6, <2>1
<1>8. Collected = Joined(lists)
  <2>1. [ch \in Channels |-> Reverse(List(decompress[ch].segment))] = lists BY <1>4, <1>6
  <2> QED BY <2>1 DEF Collected
<1>9. Empties(L, "unread", lists)
  <2>1. \A ch \in Channels : (Start(<<"unread", ch>>))' = Nil BY <1>3, StartFactsNext DEF Unread
  <2>2. ASSUME NEW x \in Places \ {Free}, \A ch \in Channels : x # <<"unread", ch>>
        PROVE  (Start(x))' = Start(x)
    <3>1. PICK ch \in Channels : x = Contents(ch) BY <2>2, PlaceFacts DEF Unread
    <3> QED BY <1>2, <3>1, StartFacts, StartFactsNext
  <2> QED BY <1>2, <1>7, <1>8, <2>1, <2>2 DEF Empties, Unread
<1>10. /\ next' \in [Segments -> 0 .. MaxSegments] /\ top' \in 0 .. MaxSegments
       /\ \E M : HasEmptied(L, M, "unread")
  BY <1>1, <1>9, Emptied
<1>11. PICK M : HasEmptied(L, M, "unread") BY <1>10
<1>12. (Lists(M))' /\ \A ch \in Channels : M[Contents(ch)] = L[Contents(ch)]
  <2>1. \A ch, k \in Channels : Contents(ch) # <<"unread", k>> BY DEF Contents
  <2> QED BY <1>11, <2>1, PlaceFacts DEF HasEmptied
<1>13. (WritersInv(M))'
  <2> SUFFICES ASSUME NEW ch \in Channels PROVE (WriterAt(ch, M[Contents(ch)]))' BY DEF WritersInv
  <2>1. WriterAt(ch, L[Contents(ch)]) BY <1>1 DEF WritersInv
  <2> QED BY <1>2, <1>12, <2>1 DEF WriterAt, Writes
<1>14. Types'
  <2>1. \A ch \in Channels : [decompress[ch] EXCEPT !.segment = Nil] \in IndexType
    <3>1. \A ch \in Channels : decompress[ch] \in IndexType BY <1>1 DEF Types
    <3>2. Nil \in 0 .. MaxSegments BY NewTypes
    <3> QED BY <3>1, <3>2 DEF IndexType
  <2>2. decompress' \in [Channels -> IndexType] BY <1>2, <2>1
  <2> QED BY <1>1, <1>2, <1>10, <2>2, NewTypes DEF Types
<1>15. (ReadersInv(R))' /\ (ConsumesInv(M, R))' /\ FileInv'
  BY <1>1, <1>2 DEF ReadersInv, ConsumesInv, FileInv
<1>16. ModesInv'
  <2>1. \A ch \in Channels : decompress'[ch].segment = Nil
    <3>1. \A ch \in Channels : decompress[ch] \in IndexType BY <1>1 DEF Types
    <3> QED BY <1>2, <3>1 DEF IndexType
  <2> QED BY <1>1, <1>2, <2>1 DEF ModesInv
<1>17. (Inv(M, R))' BY <1>12, <1>13, <1>14, <1>15, <1>16 DEF Inv
<1> QED BY <1>17 DEF Core

(* A file made of the contents has what is stored.                         *)
LEMMA Dumped ==
  ASSUME NEW l \in Seq(Segments), NEW w \in Seq(Nat), data \in [Segments -> [Positions -> Nat]],
         Holds(data, l, 0, w), Len(w) <= SegmentSize * Len(l), w = <<>> <=> l = <<>>
  PROVE  /\ [i \in DOMAIN l |-> data[l[i]]] \in Seq([Positions -> Nat])
         /\ FileAt([i \in DOMAIN l |-> data[l[i]]], w)
<1> DEFINE q == [i \in DOMAIN l |-> data[l[i]]]
<1>1. DOMAIN l = 1 .. Len(l) /\ Len(l) \in Nat /\ \A i \in 1 .. Len(l) : l[i] \in Segments
  BY SeqFacts
<1>2. q \in [1 .. Len(l) -> [Positions -> Nat]] BY <1>1
<1>3. q \in Seq([Positions -> Nat]) /\ Len(q) = Len(l) BY <1>1, <1>2
<1>4. q = <<>> <=> l = <<>>
  <2>1. q # <<>> <=> Len(q) > 0 BY <1>3, SeqFacts
  <2>2. l # <<>> <=> Len(l) > 0 BY SeqFacts
  <2> QED BY <1>3, <2>1, <2>2
<1>5. \A i \in 1 .. Len(l) : q[i] = data[l[i]] BY <1>1
<1> HIDE DEF q
<1>6. ASSUME NEW i \in 1 .. Len(q), NEW p \in Positions, Offset(i, p) < Len(w)
      PROVE  q[i][p] = w[Offset(i, p) + 1]
  <2>1. i \in Nat \ {0} BY <1>1, <1>3
  <2>2. Offset(i, p) \in Nat BY <2>1, Offsets
  <2>3. 0 + Offset(i, p) = Offset(i, p) BY <2>2
  <2>4. data[l[i]][p] = w[0 + Offset(i, p) + 1] BY <1>3, <1>6, <2>3 DEF Holds
  <2> QED BY <1>3, <1>5, <2>3, <2>4
<1>7. FileAt(q, w) BY <1>3, <1>4, <1>6 DEF FileAt
<1> QED BY <1>3, <1>7 DEF q

LEMMA DiscardStep ==
  ASSUME NEW L, NEW R, Inv(L, R), Discard
  PROVE  Core'
<1>1. /\ Types /\ Lists(L) /\ WritersInv(L) /\ ReadersInv(R) /\ ConsumesInv(L, R)
      /\ FileInv /\ ModesInv
  BY DEF Inv
<1>2. /\ mode = "idle" /\ mode' = "discarded" /\ bytes' = 0 /\ stored' = Empty
      /\ head' = [ch \in Channels |-> Nil]
      /\ compress' = [ch \in Channels |-> NewIndex(Nil)]
      /\ decompress' = [ch \in Channels |-> NewIndex(Nil)]
      /\ Release(Joined([ch \in Channels |-> List(head[ch])]))
      /\ UNCHANGED <<made, data, numSegments, reader, got, written, generation>>
  BY DEF Discard
<1>3. reader = "none" /\ ~Consumes /\ ~Consumes' BY <1>1, <1>2 DEF ModesInv, Types, Consumes
<1>4. \A ch \in Channels : List(head[ch]) = L[Contents(ch)] BY <1>1, ListFacts, ListKnown
<1>5. PICK lists : lists = [ch \in Channels |-> L[Contents(ch)]] OBVIOUS
<1>6. /\ lists \in [Channels -> Seq(Segments)]
      /\ \A ch \in Channels : IsInjective(lists[ch]) /\ Range(lists[ch]) = Range(L[Contents(ch)])
  <2>1. \A ch \in Channels : L[Contents(ch)] \in Seq(Segments) /\ IsInjective(L[Contents(ch)])
    BY <1>1, PlaceFacts DEF Lists, Spells
  <2> QED BY <1>5, <2>1
<1>7. [ch \in Channels |-> List(head[ch])] = lists BY <1>4, <1>5
<1>8. Empties(L, "contents", lists)
  <2>1. \A ch \in Channels : (Start(<<"contents", ch>>))' = Nil
    BY <1>2, StartFactsNext DEF Contents
  <2>2. ASSUME NEW x \in Places \ {Free}, \A ch \in Channels : x # <<"contents", ch>>
        PROVE  (Start(x))' = Start(x)
    <3>1. PICK ch \in Channels : x = Unread(ch) BY <2>2, PlaceFacts DEF Contents
    <3> QED BY <1>3, <3>1, StartFacts, StartFactsNext
  <2> QED BY <1>2, <1>6, <1>7, <2>1, <2>2 DEF Empties, Contents
<1>9. /\ next' \in [Segments -> 0 .. MaxSegments] /\ top' \in 0 .. MaxSegments
      /\ \E M : HasEmptied(L, M, "contents")
  BY <1>1, <1>8, Emptied
<1>10. PICK M : HasEmptied(L, M, "contents") BY <1>9
<1>11. (Lists(M))' /\ \A ch \in Channels : M[Contents(ch)] = <<>>
  BY <1>10 DEF HasEmptied, Contents
<1>12. /\ file' \in [chunks : [Channels -> Seq([Positions -> Nat])],
                     stored : [Channels -> Seq(Nat)]]
       /\ \A ch \in Channels : FileAt(file'.chunks[ch], file'.stored[ch])
  <2>1. CASE file' = NoFile
    <3>1. Empty \in [Channels -> Seq([Positions -> Nat])] BY EmptyFacts DEF Empty
    <3>2. FileAt(<<>>, <<>>)
      <4>1. Len(<<>>) = 0 /\ SegmentSize * 0 = 0 /\ 1 .. 0 = {} /\ 0 <= 0
        BY EmptyFacts, Numbers, Product
      <4> QED BY <4>1 DEF FileAt
    <3> QED BY <2>1, <3>1, <3>2, NewTypes DEF NoFile
  <2>2. CASE file' # NoFile
    <3> DEFINE q == [ch \in Channels |-> LET l == List(head[ch])
                                         IN [i \in DOMAIN l |-> data[l[i]]]]
    <3>1. file' = [chunks |-> q, stored |-> stored] BY <2>2 DEF Discard
    <3>2. stored \in [Channels -> Seq(Nat)] BY <1>1 DEF Types
    <3>3. ASSUME NEW ch \in Channels
          PROVE  q[ch] \in Seq([Positions -> Nat]) /\ FileAt(q[ch], stored[ch])
      <4>1. q[ch] = [i \in DOMAIN L[Contents(ch)] |-> data[L[Contents(ch)][i]]] BY <1>4
      <4>2. /\ Len(stored[ch]) <= SegmentSize * Len(L[Contents(ch)])
            /\ Holds(data, L[Contents(ch)], 0, stored[ch]) /\ stored[ch] \in Seq(Nat)
            /\ stored[ch] = <<>> <=> L[Contents(ch)] = <<>>
        BY <1>2, IdleFacts
      <4>3. L[Contents(ch)] \in Seq(Segments) /\ data \in [Segments -> [Positions -> Nat]]
        BY <1>1, ListFacts DEF Types
      <4> HIDE DEF q
      <4> QED BY <4>1, <4>2, <4>3, Dumped
    <3>4. q \in [Channels -> Seq([Positions -> Nat])]
      <4>1. q = [ch \in Channels |-> q[ch]] OBVIOUS
      <4> HIDE DEF q
      <4> QED BY <3>3, <4>1
    <3> HIDE DEF q
    <3> QED BY <3>1, <3>2, <3>3, <3>4
  <2> QED BY <2>1, <2>2
<1>13. (WritersInv(M))'
  <2> SUFFICES ASSUME NEW ch \in Channels PROVE (WriterAt(ch, M[Contents(ch)]))' BY DEF WritersInv
  <2>1. compress'[ch] = NewIndex(Nil) /\ M[Contents(ch)] = <<>> BY <1>2, <1>11
  <2>2. CursorAt(compress'[ch], <<>>) BY <2>1 DEF CursorAt
  <2>3. Filled(compress'[ch]) = 0
    <3>1. NewIndex(Nil).pos = 0 /\ NewIndex(Nil).finished = 0 BY DEF NewIndex
    <3>2. SegmentSize * 0 = 0 BY Numbers, Product
    <3> QED BY <2>1, <3>1, <3>2 DEF Filled
  <2>4. Loaded(data', <<>>, 0, file'.chunks[ch])
    <3>1. 1 .. Len(<<>>) = {} BY EmptyFacts
    <3>2. 0 <= SegmentSize * Len(file'.chunks[ch])
      <4>1. file'.chunks[ch] \in Seq([Positions -> Nat]) BY <1>12
      <4>2. Len(file'.chunks[ch]) \in Nat BY <4>1, SeqFacts
      <4>3. SegmentSize * Len(file'.chunks[ch]) \in Nat BY <4>2, Product
      <4> QED BY <4>3
    <3> QED BY <3>1, <3>2 DEF Loaded
  <2> QED BY <1>2, <2>1, <2>2, <2>3, <2>4 DEF WriterAt, Writes
<1>14. Types'
  <2>1. /\ head' \in [Channels -> 0 .. MaxSegments] /\ compress' \in [Channels -> IndexType]
        /\ decompress' \in [Channels -> IndexType]
    BY <1>2, NewTypes
  <2> QED BY <1>1, <1>2, <1>9, <1>12, <2>1, NewTypes DEF Types
<1>15. (ReadersInv(R))' /\ (ConsumesInv(M, R))' /\ FileInv'
  BY <1>1, <1>2, <1>3, <1>12 DEF ReadersInv, ConsumesInv, FileInv
<1>16. ModesInv'
  <2>1. \A ch \in Channels : decompress'[ch].segment = Nil BY <1>2 DEF NewIndex
  <2> QED BY <1>1, <1>2, <1>3, <2>1 DEF ModesInv
<1>17. (Inv(M, R))' BY <1>11, <1>13, <1>14, <1>15, <1>16 DEF Inv
<1> QED BY <1>17 DEF Core

LEMMA ReadStep ==
  ASSUME NEW L, NEW R, Inv(L, R), NEW ch \in Channels, Read(ch)
  PROVE  Core'
<1> DEFINE d == decompress[ch]
           r == R[ch]
           u == Unread(ch)
           Gives == Full(d) /\ Consumes
<1>1. /\ Types /\ Lists(L) /\ WritersInv(L) /\ ReadersInv(R) /\ ConsumesInv(L, R)
      /\ FileInv /\ ModesInv
  BY DEF Inv
<1>2. PICK e : e = IF Full(d) THEN [d EXCEPT !.segment = next[d.segment], !.pos = 0] ELSE d
  OBVIOUS
<1>3. /\ reader # "none"
      /\ IF e.segment = Nil
         THEN /\ got' = [got EXCEPT ![ch] = Append(@, Unwritten)]
              /\ decompress' = [decompress EXCEPT ![ch] = e]
         ELSE /\ got' = [got EXCEPT ![ch] = Append(@, data[e.segment][e.pos])]
              /\ decompress' = [decompress EXCEPT ![ch] = [e EXCEPT !.pos = @ + 1]]
      /\ IF Gives THEN Release(<<d.segment>>) ELSE UNCHANGED <<next, top>>
      /\ UNCHANGED <<made, data, head, compress, bytes, numSegments, mode, reader,
                     written, stored, generation, file>>
  BY <1>2 DEF Read, Consumes
<1>4. /\ d \in IndexType /\ got[ch] \in Seq(Nat) /\ stored[ch] \in Seq(Nat)
      /\ got \in [Channels -> Seq(Nat)] /\ decompress \in [Channels -> IndexType]
      /\ data \in [Segments -> [Positions -> Nat]] /\ next \in [Segments -> 0 .. MaxSegments]
  BY <1>1 DEF Types
<1>5. \A k \in Channels : Reads(next, data, R[k], decompress[k], got[k], stored[k])
  BY <1>1, <1>3 DEF ReadersInv, ReaderAt
<1>6. PICK s : s = IF Full(d) THEN Tail(r) ELSE r OBVIOUS
<1>7. /\ Reads(next, data, s, e, got[ch], stored[ch]) /\ ~Full(e)
      /\ Full(d) => r # <<>> /\ d.segment = r[1]
  <2>1. CASE Full(d)
    <3>1. e = Crossed(next, d) /\ s = Tail(r) BY <1>2, <1>6, <2>1 DEF Crossed
    <3>2. Reads(next, data, r, d, got[ch], stored[ch]) BY <1>5
    <3> HIDE DEF d, r
    <3>3. /\ Reads(next, data, Tail(r), e, got[ch], stored[ch])
          /\ r # <<>> /\ d.segment = r[1] /\ ~Full(e)
      BY <1>4, <2>1, <3>1, <3>2, ReaderCrosses
    <3> QED BY <3>1, <3>3
  <2>2. CASE ~Full(d) BY <1>2, <1>5, <1>6, <2>2
  <2> QED BY <2>1, <2>2
<1>8. r \in Seq(Segments) /\ IsInjective(r) /\ s \in Seq(Segments)
  BY <1>5, <1>7 DEF Reads, Spells
<1>9. e \in IndexType
  <2>1. CASE Full(d)
    <3>1. d.segment \in Segments BY <1>7, <1>8, <2>1, SeqFacts
    <3>2. next[d.segment] \in 0 .. MaxSegments /\ 0 \in 0 .. SegmentSize BY <1>4, <3>1, Numbers
    <3> QED BY <1>2, <1>4, <2>1, <3>2 DEF IndexType
  <2> QED BY <1>2, <1>4, <2>1
<1>10. PICK f, g : f = decompress'[ch] /\ g = got'[ch] OBVIOUS
<1>11. /\ Reads(next, data, s, f, g, stored[ch]) /\ f \in IndexType /\ f.segment = e.segment
       /\ g \in Seq(Nat)
       /\ decompress' = [decompress EXCEPT ![ch] = f] /\ got' = [got EXCEPT ![ch] = g]
  <2>1. CASE e.segment = Nil
    <3>1. f = e /\ g = Append(got[ch], Unwritten) BY <1>3, <1>4, <1>10, <2>1
    <3>2. g \in Seq(Nat) BY <1>4, <3>1 DEF Unwritten
    <3> QED BY <1>3, <1>4, <1>7, <1>9, <2>1, <3>1, <3>2, ReaderGets
  <2>2. CASE e.segment # Nil
    <3>1. f = [e EXCEPT !.pos = @ + 1] /\ g = Append(got[ch], data[e.segment][e.pos])
      BY <1>3, <1>4, <1>10, <2>2
    <3>2. /\ e.segment \in Segments /\ e.pos \in Positions
          /\ Reads(next, data, s, f, g, stored[ch])
      BY <1>4, <1>7, <1>9, <2>2, <3>1, ReaderGets
    <3>3. g \in Seq(Nat)
      <4>1. data[e.segment][e.pos] \in Nat BY <1>4, <3>2
      <4> QED BY <1>4, <3>1, <4>1
    <3>4. f \in IndexType /\ f.segment = e.segment
      <4>1. e.pos + 1 \in 0 .. SegmentSize BY <3>2, Numbers
      <4> QED BY <1>9, <3>1, <4>1 DEF IndexType
    <3> QED BY <1>3, <2>2, <3>1, <3>2, <3>3, <3>4
  <2> QED BY <2>1, <2>2
<1>12. decompress' \in [Channels -> IndexType] /\ got' \in [Channels -> Seq(Nat)]
       /\ decompress'[ch] = f /\ got'[ch] = g
       /\ \A k \in Channels : k # ch => decompress'[k] = decompress[k] /\ got'[k] = got[k]
  BY <1>4, <1>11
<1>13. PICK S : S = [k \in Channels |-> IF k = ch THEN s ELSE R[k]] OBVIOUS
<1>14. \A k \in Channels : Reads(next, data, S[k], decompress'[k], got'[k], stored[k])
  BY <1>5, <1>11, <1>12, <1>13
<1>15. FileInv' /\ ModesInv'
  <2>1. FileInv' BY <1>1, <1>3 DEF FileInv
  <2>2. ModesInv' BY <1>1, <1>3 DEF ModesInv
  <2> QED BY <2>1, <2>2
<1>16. Consumes' <=> Consumes BY <1>3 DEF Consumes
<1>17. CASE ~Gives
  <2>1. UNCHANGED <<next, top>> BY <1>3, <1>17
  <2>2. Types' BY <1>1, <1>3, <1>12, <2>1 DEF Types
  <2>3. Consumes => s = r /\ f.segment = d.segment BY <1>2, <1>6, <1>11, <1>17
  <2>4. (Lists(L))'
    <3>1. Consumes => \A k \in Channels : decompress'[k].segment = decompress[k].segment
      BY <1>12, <2>3
    <3>2. \A x \in Places : (Start(x))' = Start(x) BY <1>3, <1>16, <2>1, <3>1, SameStarts
    <3> QED BY <1>1, <1>3, <2>1, <3>2, SameLists
  <2>5. (WritersInv(L))' BY <1>1, <1>3 DEF WritersInv, WriterAt
  <2>6. (ReadersInv(S))' BY <1>3, <1>14, <2>1 DEF ReadersInv, ReaderAt
  <2>7. (ConsumesInv(L, S))' BY <1>1, <1>13, <1>16, <2>3 DEF ConsumesInv, Consumes
  <2>8. (Inv(L, S))' BY <1>15, <2>2, <2>4, <2>5, <2>6, <2>7 DEF Inv
  <2> QED BY <2>8 DEF Core
<1>18. CASE Gives
  <2>1. PICK K : K = <<d.segment>> OBVIOUS
  <2>2. r = L[u] /\ r # <<>> /\ d.segment = r[1] /\ s = Tail(r)
    BY <1>1, <1>6, <1>7, <1>18 DEF ConsumesInv, Consumes
  <2>3. d.segment \in Segments /\ d.segment \in Range(r) BY <1>8, <2>2, SeqFacts
  <2>4. K \in Seq(Segments) /\ IsInjective(K) /\ Range(K) = {d.segment}
    <3>1. DOMAIN K = {1} /\ K[1] = d.segment BY <2>1
    <3>2. Range(K) = {d.segment} BY <3>1 DEF Range
    <3>3. IsInjective(K) BY <3>1 DEF IsInjective
    <3> QED BY <2>1, <2>3, <3>2, <3>3
  <2>5. PICK M : M = [x \in Places |-> IF x = Free THEN K \o L[Free] ELSE IF x = u THEN s ELSE L[x]]
    OBVIOUS
  <2>6. u \in Places \ {Free} /\ Free \in Places BY PlaceFacts
  <2>7. \A x \in Places : L[x] \in Seq(Segments) /\ Spells(next, L[x], Start(x)) BY <1>1 DEF Lists
  <2>8. \A x, y \in Places : x # y => Range(L[x]) \cap Range(L[y]) = {} BY <1>1 DEF Lists
  <2>9. M \in [Places -> Seq(Segments)] /\ M[Free] = K \o L[Free] /\ M[u] = s
        /\ \A x \in Places \ {Free, u} : M[x] = L[x]
    <3>1. K \o L[Free] \in Seq(Segments) BY <2>4, <2>6, <2>7
    <3> HIDE DEF u
    <3> QED BY <1>8, <2>5, <2>6, <2>7, <3>1
  <2>10. Range(s) = Range(r) \ {d.segment} BY <1>8, <2>2, TailFacts
  <2>11. ASSUME NEW x \in Places \ {Free}
         PROVE  Spells(next, M[x], (Start(x))') /\ Range(M[x]) = Range(L[x]) \ Range(K)
    <3>1. CASE x = u
      <4>1. (Start(x))' = f.segment BY <1>12, <1>16, <1>18, <3>1, StartFactsNext
      <4>2. Spells(next, s, e.segment) BY <1>7 DEF Reads
      <4> QED BY <1>11, <2>2, <2>4, <2>9, <2>10, <3>1, <4>1, <4>2
    <3>2. CASE x # u
      <4>1. (Start(x))' = Start(x)
        <5>1. ASSUME NEW k \in Channels, x = Contents(k) PROVE (Start(x))' = Start(x)
          BY <1>3, <5>1, StartFacts, StartFactsNext
        <5>2. ASSUME NEW k \in Channels, x = Unread(k) PROVE (Start(x))' = Start(x)
          <6>1. k # ch BY <3>2, <5>2
          <6> QED BY <1>12, <1>16, <5>2, <6>1, StartFacts, StartFactsNext
        <5> QED BY <5>1, <5>2, PlaceFacts
      <4>2. Range(L[x]) \cap Range(r) = {} BY <2>2, <2>6, <2>8, <3>2
      <4> HIDE DEF u
      <4> QED BY <2>3, <2>4, <2>7, <2>9, <3>2, <4>1, <4>2
    <3> QED BY <3>1, <3>2
  <2>12. Moves(L, M, K)
    <3>1. Range(K) \cap Range(L[Free]) = {} BY <2>2, <2>3, <2>4, <2>6, <2>8
    <3>2. \A t \in Range(K) : \E x \in Places \ {Free} : t \in Range(L[x])
      BY <2>2, <2>3, <2>4, <2>6
    <3>3. \A x \in Places \ {Free} : /\ Spells(next, M[x], (Start(x))')
                                     /\ Range(M[x]) = Range(L[x]) \ Range(K)
      BY <2>11
    <3> QED BY <2>4, <2>9, <3>1, <3>2, <3>3 DEF Moves
  <2>13. (Lists(M))' /\ next' \in [Segments -> 0 .. MaxSegments] /\ top' \in 0 .. MaxSegments
    BY <1>1, <1>3, <1>18, <2>1, <2>12, ReleaseStep
  <2>14. Types' BY <1>1, <1>3, <1>12, <2>13 DEF Types
  <2>15. (ConsumesInv(M, S))'
    <3> SUFFICES ASSUME NEW k \in Channels PROVE S[k] = M[Unread(k)] BY DEF ConsumesInv
    <3>1. CASE k = ch BY <1>13, <2>9, <3>1
    <3>2. CASE k # ch
      <4>1. Unread(k) \in Places \ {Free, u} BY <3>2, PlaceFacts
      <4>2. R[k] = L[Unread(k)] BY <1>1, <1>18 DEF ConsumesInv, Consumes
      <4> QED BY <1>13, <2>9, <3>2, <4>1, <4>2
    <3> QED BY <3>1, <3>2
  <2>16. (ReadersInv(S))'
    <3> SUFFICES ASSUME NEW k \in Channels PROVE (ReaderAt(k, S[k]))' BY DEF ReadersInv
    <3>1. (Spells(next, M[Unread(k)], Start(Unread(k))))' BY <2>13, PlaceFacts DEF Lists
    <3>2. S[k] = M[Unread(k)] BY <1>16, <1>18, <2>15 DEF ConsumesInv, Consumes
    <3>3. Spells(next', S[k], decompress'[k].segment) BY <1>16, <1>18, <3>1, <3>2, StartFactsNext
    <3>4. S[k] \in Seq(Segments) BY <3>3 DEF Spells
    <3>5. Reads(next', data, S[k], decompress'[k], got'[k], stored[k])
      BY <1>14, <3>3, <3>4, ReaderFrame
    <3> QED BY <1>3, <3>5 DEF ReaderAt
  <2>17. (WritersInv(M))'
    <3> SUFFICES ASSUME NEW k \in Channels PROVE (WriterAt(k, M[Contents(k)]))' BY DEF WritersInv
    <3>1. Contents(k) \in Places \ {Free, u} BY PlaceFacts
    <3>2. WriterAt(k, L[Contents(k)]) BY <1>1 DEF WritersInv
    <3> QED BY <1>3, <2>9, <3>1, <3>2 DEF WriterAt
  <2>18. (Inv(M, S))' BY <1>15, <2>13, <2>14, <2>15, <2>16, <2>17 DEF Inv
  <2> QED BY <2>18 DEF Core
<1> QED BY <1>17, <1>18

-----------------------------------------------------------------------------
(* Theorems                                                                *)

LEMMA InitCore == Init => Core
<1> SUFFICES ASSUME Init PROVE Core OBVIOUS
<1>1. PICK L, R : L = [x \in Places |-> <<>>] /\ R = L OBVIOUS
<1>2. /\ top = Nil /\ made = 0 /\ next = [s \in Segments |-> Nil]
      /\ data = [s \in Segments |-> [i \in Positions |-> Unwritten]]
      /\ head = [ch \in Channels |-> Nil] /\ compress = [ch \in Channels |-> NewIndex(Nil)]
      /\ decompress = [ch \in Channels |-> NewIndex(Nil)]
      /\ bytes = 0 /\ numSegments = 0 /\ mode = "idle" /\ reader = "none"
      /\ got = Empty /\ written = Empty /\ stored = Empty /\ generation = 0 /\ file = NoFile
  BY DEF Init
<1>3. NoFile \in [chunks : [Channels -> Seq([Positions -> Nat])], stored : [Channels -> Seq(Nat)]]
  <2>1. Empty \in [Channels -> Seq([Positions -> Nat])] BY EmptyFacts DEF Empty
  <2> QED BY <2>1, NewTypes DEF NoFile
<1>4. Types
  <2>1. /\ top \in 0 .. MaxSegments /\ made \in 0 .. MaxSegments
        /\ next \in [Segments -> 0 .. MaxSegments] /\ head \in [Channels -> 0 .. MaxSegments]
    BY <1>2, Numbers
  <2>2. data \in [Segments -> [Positions -> Nat]] BY <1>2 DEF Unwritten
  <2>3. compress \in [Channels -> IndexType] /\ decompress \in [Channels -> IndexType]
    BY <1>2, NewTypes
  <2> QED BY <1>2, <1>3, <2>1, <2>2, <2>3, NewTypes DEF Types
<1>5. ~Consumes BY <1>2 DEF Consumes
<1>6. \A x \in Places : Start(x) = Nil BY <1>2, <1>5, PlaceFacts, StartFacts
<1>7. Lists(L)
  <2>1. L \in [Places -> Seq(Segments)] BY <1>1, EmptyFacts
  <2>2. \A x \in Places : Spells(next, L[x], Start(x)) BY <1>1, <1>6, EmptyList
  <2>3. \A x \in Places : Range(L[x]) = {} BY <1>1, EmptyFacts
  <2>4. \A s \in Segments : ~(s <= made) BY <1>2, Numbers
  <2> QED BY <2>1, <2>2, <2>3, <2>4 DEF Lists
<1>8. WritersInv(L)
  <2> SUFFICES ASSUME NEW ch \in Channels PROVE WriterAt(ch, L[Contents(ch)]) BY DEF WritersInv
  <2>1. compress[ch] = NewIndex(Nil) /\ L[Contents(ch)] = <<>> BY <1>1, <1>2, PlaceFacts
  <2>2. CursorAt(compress[ch], <<>>) BY <2>1 DEF CursorAt
  <2>3. Filled(compress[ch]) = 0
    <3>1. NewIndex(Nil).pos = 0 /\ NewIndex(Nil).finished = 0 BY DEF NewIndex
    <3>2. SegmentSize * 0 = 0 BY Numbers, Product
    <3> QED BY <2>1, <3>1, <3>2 DEF Filled
  <2>4. Len(stored[ch]) <= 0 BY <1>2, NewTypes
  <2>5. Holds(data, <<>>, 0, stored[ch])
    <3>1. 1 .. Len(<<>>) = {} BY EmptyFacts
    <3> QED BY <3>1 DEF Holds
  <2> QED BY <1>2, <2>1, <2>2, <2>3, <2>4, <2>5 DEF WriterAt, Writes
<1>9. FileInv
  <2> SUFFICES ASSUME NEW ch \in Channels PROVE FileAt(file.chunks[ch], file.stored[ch])
    BY DEF FileInv
  <2>1. file.chunks[ch] = <<>> /\ file.stored[ch] = <<>> BY <1>2, NewTypes DEF NoFile
  <2>2. Len(<<>>) = 0 /\ SegmentSize * 0 = 0 /\ 1 .. 0 = {} /\ 0 <= 0
    BY EmptyFacts, Numbers, Product
  <2> QED BY <2>1, <2>2 DEF FileAt
<1>10. ReadersInv(R) /\ ConsumesInv(L, R) BY <1>2 DEF ReadersInv, ConsumesInv
<1>11. ModesInv BY <1>2 DEF ModesInv, NewIndex
<1>12. Inv(L, R) BY <1>4, <1>7, <1>8, <1>9, <1>10, <1>11 DEF Inv
<1> QED BY <1>12 DEF Core

LEMMA NextCore == Core /\ [Next]_vars => Core'
<1> SUFFICES ASSUME Core, [Next]_vars PROVE Core' OBVIOUS
<1>1. PICK L, R : Inv(L, R) BY DEF Core
<1>2. CASE UNCHANGED vars
  <2>1. UNCHANGED <<top, made, next, data, head, compress, decompress, bytes, numSegments, mode,
                    reader, got, written, stored, generation, file>>
    BY <1>2 DEF vars, segments, cursors, streams
  <2>2. Types' /\ FileInv' /\ ModesInv' BY <1>1, <2>1 DEF Inv, Types, FileInv, ModesInv
  <2>3. (WritersInv(L))' /\ (ReadersInv(R))' /\ (ConsumesInv(L, R))'
    BY <1>1, <2>1 DEF Inv, WritersInv, WriterAt, ReadersInv, ReaderAt, ConsumesInv
  <2>4. (Lists(L))'
    <3>1. Consumes' <=> Consumes BY <2>1 DEF Consumes
    <3>2. \A x \in Places : (Start(x))' = Start(x) BY <2>1, <3>1, SameStarts
    <3> QED BY <1>1, <2>1, <3>2, SameLists DEF Inv
  <2>5. (Inv(L, R))' BY <2>2, <2>3, <2>4 DEF Inv
  <2> QED BY <2>5 DEF Core
<1>3. CASE Next
  <2>1. ASSUME NEW consume \in BOOLEAN, InitDecompress(consume) PROVE Core'
    BY <1>1, <2>1, InitDecompressStep
  <2>2. ASSUME NEW ch \in Channels, Read(ch) PROVE Core' BY <1>1, <2>2, ReadStep
  <2>3. ASSUME NEW ch \in Channels, Write(ch) PROVE Core' BY <1>1, <2>3, WriteStep
  <2>4. ASSUME NEW ch \in Channels, LoadByte(ch) PROVE Core' BY <1>1, <2>4, LoadByteStep
  <2>5. CASE InitCompress BY <1>1, <2>5, InitCompressStep
  <2>6. CASE FinishConsuming BY <1>1, <2>6, FinishConsumingStep
  <2>7. CASE FinishReading BY <1>1, <2>7, FinishReadingStep
  <2>8. CASE FinishCompress BY <1>1, <2>8, FinishCompressStep
  <2>9. CASE Discard BY <1>1, <2>9, DiscardStep
  <2>10. CASE FinishLoad BY <1>1, <2>10, FinishLoadStep
  <2> QED BY <1>3, <2>1, <2>2, <2>3, <2>4, <2>5, <2>6, <2>7, <2>8, <2>9, <2>10 DEF Next
<1> QED BY <1>2, <1>3

(* In every state of a storage its lists are apart and end, the cursors    *)
(* are where the bytes written and delivered say, and the segments hold    *)
(* those bytes.                                                            *)
THEOREM Invariant == Spec => []Core
BY InitCore, NextCore, PTL DEF Spec

(* The fields of a CompressedStorage keep their types.                     *)
THEOREM TypeCorrect == Spec => []TypeOK
<1>1. Core => TypeOK
  <2> SUFFICES ASSUME Core PROVE TypeOK OBVIOUS
  <2>1. Types BY DEF Core, Inv
  <2> QED BY <2>1 DEF Types, TypeOK
<1> QED BY <1>1, Invariant, PTL

(* readBytes and readBytesAndConsume deliver what the last compression of  *)
(* the channel wrote, also into segments that writeBytes has taken again,  *)
(* through a scratch file too; and a storage with contents is not opened   *)
(* as empty.                                                               *)
THEOREM ReadersGetWhatWasWritten == Spec => []ReadsBack
<1>1. Core => ReadsBack
  <2> SUFFICES ASSUME Core PROVE ReadsBack OBVIOUS
  <2>1. PICK L, R : Inv(L, R) BY DEF Core
  <2>2. ASSUME NEW ch \in Channels, NEW i \in DOMAIN got[ch] \cap DOMAIN stored[ch],
               reader # "none"
        PROVE  got[ch][i] = stored[ch][i]
    BY <2>1, <2>2 DEF Inv, ReadersInv, ReaderAt, Reads
  <2>3. mode \in {"reading", "opened", "update"} => (reader = "none" <=> stored = Empty)
    BY <2>1 DEF Inv, ModesInv
  <2> QED BY <2>2, <2>3 DEF ReadsBack
<1> QED BY <1>1, Invariant, PTL

(* No segment is lost or used twice: readBytesAndConsume, releaseSegments  *)
(* and writeBytes hand each from one list to another.                      *)
THEOREM NoSegmentLost == Spec => []SegmentsConserved
<1>1. Core => SegmentsConserved
  <2> SUFFICES ASSUME Core PROVE SegmentsConserved OBVIOUS
  <2>1. PICK L, R : Inv(L, R) BY DEF Core
  <2>2. Lists(L) BY <2>1 DEF Inv
  <2>3. \A x \in Places : Spells(next, L[x], Start(x)) BY <2>2 DEF Lists
  <2>4. [x \in Places |-> List(Start(x))] = L
    <3>1. \A x \in Places : List(Start(x)) = L[x] BY <2>3, ListKnown
    <3>2. L = [x \in Places |-> L[x]] BY <2>2 DEF Lists
    <3> QED BY <3>1, <3>2
  <2> DEFINE Uses(s) == {use \in Places \X Segments :
                           use[2] \in DOMAIN L[use[1]] /\ L[use[1]][use[2]] = s}
  <2>5. ASSUME NEW s \in Segments PROVE Cardinality(Uses(s)) = IF s <= made THEN 1 ELSE 0
    <3>1. s <= made <=> \E x \in Places : s \in Range(L[x]) BY <2>2 DEF Lists
    <3>2. CASE s <= made
      <4>1. PICK x \in Places : s \in Range(L[x]) BY <3>1, <3>2
      <4>2. L[x] \in Seq(Segments) /\ IsInjective(L[x]) BY <2>3 DEF Spells
      <4>3. PICK i \in 1 .. Len(L[x]) : s = L[x][i] BY <4>1, <4>2, SeqFacts
      <4>4. DOMAIN L[x] = 1 .. Len(L[x]) /\ i \in Segments
        <5>1. Len(L[x]) \in 0 .. MaxSegments BY <4>2, Bounded
        <5> QED BY <4>2, <5>1, SeqFacts, Numbers
      <4>5. <<x, i>> \in Uses(s) BY <4>3, <4>4
      <4>6. ASSUME NEW use \in Uses(s) PROVE use = <<x, i>>
        <5>1. PICK y \in Places, j \in Segments : use = <<y, j>> OBVIOUS
        <5>2. j \in DOMAIN L[y] /\ L[y][j] = s BY <5>1
        <5>3. s \in Range(L[y]) BY <5>2 DEF Range
        <5>4. y = x BY <2>2, <4>1, <5>3 DEF Lists
        <5>5. j = i BY <4>2, <4>3, <4>4, <5>2, <5>4 DEF IsInjective
        <5> QED BY <5>1, <5>4, <5>5
      <4> HIDE DEF Uses
      <4>7. Uses(s) = {<<x, i>>} BY <4>5, <4>6
      <4> QED BY <3>2, <4>7, FS_Singleton
    <3>3. CASE ~(s <= made)
      <4>1. ASSUME NEW use \in Uses(s) PROVE FALSE
        <5>1. PICK y \in Places, j \in Segments : use = <<y, j>> OBVIOUS
        <5>2. j \in DOMAIN L[y] /\ L[y][j] = s BY <5>1
        <5>3. s \in Range(L[y]) BY <5>2 DEF Range
        <5> QED BY <3>1, <3>3, <5>3
      <4> HIDE DEF Uses
      <4>2. Uses(s) = {} BY <4>1
      <4> QED BY <3>3, <4>2, FS_EmptySet
    <3> QED BY <3>2, <3>3
  <2> QED BY <2>4, <2>5, Zenon DEF SegmentsConserved
<1> QED BY <1>1, Invariant, PTL

=============================================================================
