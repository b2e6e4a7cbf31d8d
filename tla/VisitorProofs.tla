---------------------------- MODULE VisitorProofs ----------------------------
(***************************************************************************)
(* Theorems about what a visitor sends: where its URL and the redirects of *)
(* the target lead, for every template, id and path, and its upload, for   *)
(* any number of uploads over one connection.                              *)
(*                                                                         *)
(* The argument about the URL: as long as the server follows redirects up, *)
(* the visitor's URL is the one that the template makes of some id and     *)
(* path (UrlInv); and what lies around the id in a template leaves exactly *)
(* the id between a prefix and a suffix (FoundInHost), or the id at the    *)
(* head and the path at the end (FoundInPath).                             *)
(*                                                                         *)
(* The argument about uploads: a writer waits for 'drain' at most once, so *)
(* that when a flush calls all who wait, a writer that becomes idle has    *)
(* just had its packets taken and puts in no others (AllCalled).           *)
(***************************************************************************)
EXTENDS VisitorUrl, TunnelWriter, SequenceTheorems, FiniteSetTheorems, TLAPS

-----------------------------------------------------------------------------
(* The URL of a tunnel *)

\* A part of a sequence.
LEMMA Slice ==
    ASSUME NEW S, NEW u \in Seq(S), NEW m \in Nat \ {0}, NEW n \in Nat, n <= Len(u), m <= n + 1
    PROVE  /\ SubSeq(u, m, n) \in Seq(S) /\ Len(SubSeq(u, m, n)) = n - m + 1
           /\ \A i \in 1 .. n - m + 1 : SubSeq(u, m, n)[i] = u[m + i - 1]
<1>1. Len(u) \in Nat
  BY LenProperties
<1>2. \A i \in m .. n : u[i] \in S
  <2>1. \A i \in m .. n : i \in 1 .. Len(u)
    BY <1>1
  <2>2. QED
    BY <2>1, ElementOfSeq
<1>3. m \in Int /\ n \in Int
  OBVIOUS
<1>4. /\ SubSeq(u, m, n) \in Seq(S)
      /\ Len(SubSeq(u, m, n)) = IF m <= n THEN n - m + 1 ELSE 0
      /\ \A i \in 1 .. n - m + 1 : SubSeq(u, m, n)[i] = u[m + i - 1]
  BY <1>2, <1>3, SubSeqProperties
<1>5. ~(m <= n) => n - m + 1 = 0
  OBVIOUS
<1>6. QED
  BY <1>4, <1>5

\* The elements of a concatenation.
LEMMA Concat ==
    ASSUME NEW S, NEW a \in Seq(S), NEW b \in Seq(S)
    PROVE  /\ a \o b \in Seq(S) /\ Len(a \o b) = Len(a) + Len(b)
           /\ Len(a) \in Nat /\ Len(b) \in Nat
           /\ \A i \in 1 .. Len(a) : (a \o b)[i] = a[i]
           /\ \A i \in 1 .. Len(b) : (a \o b)[Len(a) + i] = b[i]
<1>1. Len(a) \in Nat /\ Len(b) \in Nat
  BY LenProperties
<1>2. /\ a \o b \in Seq(S) /\ Len(a \o b) = Len(a) + Len(b)
      /\ \A i \in 1 .. Len(a) + Len(b) :
            (a \o b)[i] = IF i <= Len(a) THEN a[i] ELSE b[i - Len(a)]
  BY ConcatProperties
<1>3. \A i \in 1 .. Len(a) : i \in 1 .. Len(a) + Len(b) /\ i <= Len(a)
  BY <1>1
<1>4. \A i \in 1 .. Len(b) : /\ Len(a) + i \in 1 .. Len(a) + Len(b)
                             /\ ~(Len(a) + i <= Len(a)) /\ (Len(a) + i) - Len(a) = i
  BY <1>1
<1>5. QED
  BY <1>1, <1>2, <1>3, <1>4

LEMMA PrefixOf ==
    ASSUME NEW S, NEW s \in Seq(S), NEW t \in Seq(S), Len(s) <= Len(t),
           \A i \in 1 .. Len(s) : s[i] = t[i]
    PROVE  IsPrefix(s, t)
<1> DEFINE l == Len(s)
           u == SubSeq(s, 1, l)
           w == SubSeq(t, 1, l)
<1>1. l \in Nat /\ l - 1 + 1 = l /\ 1 <= l + 1 /\ l <= Len(s) /\ l <= Len(t)
      /\ \A i \in 1 .. l : 1 + i - 1 = i
  BY LenProperties
<1> HIDE DEF l
<1>2. u \in Seq(S) /\ Len(u) = l - 1 + 1 /\ \A i \in 1 .. l - 1 + 1 : u[i] = s[1 + i - 1]
  BY <1>1, Slice
<1>3. w \in Seq(S) /\ Len(w) = l - 1 + 1 /\ \A i \in 1 .. l - 1 + 1 : w[i] = t[1 + i - 1]
  BY <1>1, Slice
<1> HIDE DEF u, w
<1>4. \A i \in 1 .. l : u[i] = w[i]
  BY <1>1, <1>2, <1>3 DEF l
<1>5. u = w
  BY <1>1, <1>2, <1>3, <1>4, SeqEqual
<1>6. QED
  BY <1>5 DEF IsPrefix, u, w, l

LEMMA Reversed ==
    ASSUME NEW S, NEW s \in Seq(S)
    PROVE  /\ Reverse(s) \in Seq(S) /\ Len(Reverse(s)) = Len(s)
           /\ \A i \in 1 .. Len(s) : Reverse(s)[i] = s[(Len(s) - i) + 1]
<1>1. Len(s) \in Nat
  BY LenProperties
<1>2. \A i \in 1 .. Len(s) : s[(Len(s) - i) + 1] \in S
  <2>1. \A i \in 1 .. Len(s) : (Len(s) - i) + 1 \in 1 .. Len(s)
    BY <1>1
  <2>2. QED
    BY <2>1, ElementOfSeq
<1>3. Reverse(s) \in [1 .. Len(s) -> S]
  BY <1>2 DEF Reverse
<1>4. Reverse(s) \in Seq(S)
  BY <1>1, <1>3
<1>5. Len(Reverse(s)) = Len(s)
  <2>1. DOMAIN Reverse(s) = 1 .. Len(s)
    BY DEF Reverse
  <2>2. DOMAIN Reverse(s) = 1 .. Len(Reverse(s)) /\ Len(Reverse(s)) \in Nat
    BY <1>4, LenProperties
  <2>3. QED
    BY <1>1, <2>1, <2>2
<1>6. QED
  BY <1>4, <1>5 DEF Reverse

LEMMA SuffixOf ==
    ASSUME NEW S, NEW s \in Seq(S), NEW t \in Seq(S), Len(s) <= Len(t),
           \A i \in 1 .. Len(s) : s[i] = t[Len(t) - Len(s) + i]
    PROVE  IsSuffix(s, t)
<1>1. Len(s) \in Nat /\ Len(t) \in Nat
  BY LenProperties
<1>2. /\ Reverse(s) \in Seq(S) /\ Len(Reverse(s)) = Len(s)
      /\ \A i \in 1 .. Len(s) : Reverse(s)[i] = s[(Len(s) - i) + 1]
  BY Reversed
<1>3. /\ Reverse(t) \in Seq(S) /\ Len(Reverse(t)) = Len(t)
      /\ \A i \in 1 .. Len(t) : Reverse(t)[i] = t[(Len(t) - i) + 1]
  BY Reversed
<1>4. \A i \in 1 .. Len(s) : Reverse(s)[i] = Reverse(t)[i]
  <2>1. SUFFICES ASSUME NEW i \in 1 .. Len(s) PROVE Reverse(s)[i] = Reverse(t)[i]
    OBVIOUS
  <2>2. (Len(s) - i) + 1 \in 1 .. Len(s) /\ i \in 1 .. Len(t)
        /\ Len(t) - Len(s) + ((Len(s) - i) + 1) = (Len(t) - i) + 1
    BY <1>1
  <2>3. s[(Len(s) - i) + 1] = t[Len(t) - Len(s) + ((Len(s) - i) + 1)]
    BY <2>2
  <2>4. QED
    BY <1>2, <1>3, <2>2, <2>3
<1>5. IsPrefix(Reverse(s), Reverse(t))
  BY <1>2, <1>3, <1>4, PrefixOf
<1>6. QED
  BY <1>5 DEF IsSuffix

\* The pieces of a name around the id.
LEMMA Around ==
    ASSUME NEW S, NEW b \in Seq(S), NEW x \in S, NEW s \in Seq(S),
           NEW u, u = b \o <<x>> \o s
    PROVE  /\ u \in Seq(S) /\ Len(u) = Len(b) + 1 + Len(s)
           /\ Len(b) \in Nat /\ Len(s) \in Nat
           /\ \A i \in 1 .. Len(b) : u[i] = b[i]
           /\ u[Len(b) + 1] = x
           /\ \A i \in 1 .. Len(s) : u[Len(b) + 1 + i] = s[i]
<1> DEFINE o == <<x>>
           a == b \o o
<1>1. o \in Seq(S) /\ Len(o) = 1 /\ o[1] = x
  OBVIOUS
<1> HIDE DEF o
<1>0. \A c, d \in Seq(S) :
         /\ c \o d \in Seq(S) /\ Len(c \o d) = Len(c) + Len(d)
         /\ Len(c) \in Nat /\ Len(d) \in Nat
         /\ \A i \in 1 .. Len(c) : (c \o d)[i] = c[i]
         /\ \A i \in 1 .. Len(d) : (c \o d)[Len(c) + i] = d[i]
  BY Concat
<1>2. /\ a \in Seq(S) /\ Len(a) = Len(b) + Len(o)
      /\ Len(b) \in Nat /\ Len(o) \in Nat
      /\ \A i \in 1 .. Len(b) : a[i] = b[i]
      /\ \A i \in 1 .. Len(o) : a[Len(b) + i] = o[i]
  BY <1>0, <1>1, Zenon
<1>3. u = a \o s
  BY DEF o
<1> HIDE DEF a
<1>4. /\ a \o s \in Seq(S) /\ Len(a \o s) = Len(a) + Len(s)
      /\ Len(a) \in Nat /\ Len(s) \in Nat
      /\ \A i \in 1 .. Len(a) : (a \o s)[i] = a[i]
      /\ \A i \in 1 .. Len(s) : (a \o s)[Len(a) + i] = s[i]
  BY <1>0, <1>2, Zenon
<1>5. a[Len(b) + 1] = x /\ Len(a) = Len(b) + 1
  BY <1>1, <1>2
<1>6. \A i \in 1 .. Len(b) + 1 : i \in 1 .. Len(a)
  BY <1>5
<1>7. (\A i \in 1 .. Len(b) : i \in 1 .. Len(b) + 1) /\ Len(b) + 1 \in 1 .. Len(b) + 1
  BY <1>2
<1>8. \A i \in 1 .. Len(b) + 1 : u[i] = a[i]
  BY <1>3, <1>4, <1>6
<1>9. /\ \A i \in 1 .. Len(b) : u[i] = b[i]
      /\ u[Len(b) + 1] = x
  BY <1>2, <1>5, <1>7, <1>8
<1>10. /\ u \in Seq(S) /\ Len(u) = Len(b) + 1 + Len(s)
       /\ \A i \in 1 .. Len(s) : u[Len(b) + 1 + i] = s[i]
  BY <1>3, <1>4, <1>5
<1>11. QED
  BY <1>2, <1>4, <1>9, <1>10

\* The id is found between what the template has around it.
LEMMA FoundInHost ==
    ASSUME NEW S, NEW x \in S, NEW path,
           template.before \in Seq(S), template.after \in Seq(S)
    PROVE  FromHost(template.before \o <<x>> \o template.after, path)
               = [id |-> <<x>>, path |-> path]
<1> DEFINE b == template.before
           s == template.after
           u == b \o <<x>> \o s
<1>0. b \in Seq(S) /\ s \in Seq(S) /\ u = b \o <<x>> \o s
      /\ template.before = b /\ template.after = s
  OBVIOUS
<1> HIDE DEF b, s, u
<1>1. /\ u \in Seq(S) /\ Len(u) = Len(b) + 1 + Len(s)
      /\ Len(b) \in Nat /\ Len(s) \in Nat
      /\ \A i \in 1 .. Len(b) : u[i] = b[i]
      /\ u[Len(b) + 1] = x
      /\ \A i \in 1 .. Len(s) : u[Len(b) + 1 + i] = s[i]
  BY <1>0, Around
<1>2. IsPrefix(b, u)
  <2>1. Len(b) <= Len(u) /\ \A i \in 1 .. Len(b) : b[i] = u[i]
    BY <1>1
  <2>2. QED
    BY <1>0, <1>1, <2>1, PrefixOf
<1>3. IsSuffix(s, u)
  <2>1. Len(s) <= Len(u) /\ Len(u) - Len(s) = Len(b) + 1
    BY <1>1
  <2>2. \A i \in 1 .. Len(s) : s[i] = u[Len(u) - Len(s) + i]
    BY <1>1, <2>1
  <2>3. QED
    BY <1>0, <1>1, <2>1, <2>2, SuffixOf
<1>4. SubSeq(u, Len(b) + 1, Len(u) - Len(s)) = <<x>>
  <2> DEFINE k == Len(b) + 1
             q == SubSeq(u, k, k)
  <2>1. Len(u) - Len(s) = k /\ k \in Nat \ {0} /\ k <= Len(u) /\ k <= k + 1 /\ k - k + 1 = 1
        /\ k + 1 - 1 = k /\ u[k] = x
    BY <1>1
  <2> HIDE DEF k
  <2>2. q \in Seq(S) /\ Len(q) = k - k + 1 /\ \A i \in 1 .. k - k + 1 : q[i] = u[k + i - 1]
    BY <1>1, <2>1, Slice
  <2> HIDE DEF q
  <2>3. q \in Seq(S) /\ Len(q) = 1 /\ q[1] = x
    <3>1. 1 \in 1 .. 1
      OBVIOUS
    <3>2. QED
      BY <2>1, <2>2, <3>1
  <2>4. q = <<x>>
    <3>1. <<x>> \in Seq(S) /\ Len(<<x>>) = 1 /\ <<x>>[1] = x
      OBVIOUS
    <3>2. \A i \in 1 .. 1 : i = 1
      OBVIOUS
    <3>3. QED
      BY <2>3, <3>1, <3>2, SeqEqual
  <2>5. QED
    BY <2>1, <2>4 DEF k, q
<1>5. QED
  <2>1. FromHost(u, path) = [id |-> <<x>>, path |-> path]
    BY <1>0, <1>2, <1>3, <1>4 DEF FromHost
  <2>2. QED
    BY <2>1 DEF b, s, u

\* So it is in a path, behind which the path at the target follows.
LEMMA FoundInPath ==
    ASSUME NEW S, NEW x \in S, NEW path \in Seq(S) \ {<<>>},
           template.before \in Seq(S), template.after \in Seq(S)
    PROVE  FromPath(template.before \o <<x>> \o template.after \o path)
               = [id |-> <<x>>, path |-> path]
<1> DEFINE b == template.before
           s == template.after
           u == b \o <<x>> \o s \o path
<1>0. b \in Seq(S) /\ s \in Seq(S) /\ u = b \o <<x>> \o s \o path
      /\ template.before = b /\ template.after = s
  OBVIOUS
<1> HIDE DEF b, s, u
<1> DEFINE w == b \o <<x>> \o s
           r == SubSeq(u, Len(b) + 1, Len(u))
           q == SubSeq(r, 2 + Len(s), Len(r))
<1>1. /\ w \in Seq(S) /\ Len(w) = Len(b) + 1 + Len(s)
      /\ Len(b) \in Nat /\ Len(s) \in Nat
      /\ \A i \in 1 .. Len(b) : w[i] = b[i]
      /\ w[Len(b) + 1] = x
      /\ \A i \in 1 .. Len(s) : w[Len(b) + 1 + i] = s[i]
  BY <1>0, Around
<1>2. path \in Seq(S) /\ Len(path) \in Nat \ {0}
  BY EmptySeq
<1>3. u = w \o path
  BY <1>0
<1> HIDE DEF w
<1>4. /\ w \o path \in Seq(S) /\ Len(w \o path) = Len(w) + Len(path)
      /\ \A i \in 1 .. Len(w) : (w \o path)[i] = w[i]
      /\ \A i \in 1 .. Len(path) : (w \o path)[Len(w) + i] = path[i]
  <2>1. \A c, d \in Seq(S) :
           /\ c \o d \in Seq(S) /\ Len(c \o d) = Len(c) + Len(d)
           /\ \A i \in 1 .. Len(c) : (c \o d)[i] = c[i]
           /\ \A i \in 1 .. Len(d) : (c \o d)[Len(c) + i] = d[i]
    BY Concat
  <2>2. QED
    BY <1>1, <1>2, <2>1, Zenon
<1>5. u \in Seq(S) /\ Len(u) = Len(b) + 1 + Len(s) + Len(path)
  BY <1>1, <1>3, <1>4
<1>6. /\ \A i \in 1 .. Len(b) : u[i] = b[i]
      /\ u[Len(b) + 1] = x
      /\ \A i \in 1 .. Len(s) : u[Len(b) + 1 + i] = s[i]
      /\ \A i \in 1 .. Len(path) : u[Len(b) + 1 + Len(s) + i] = path[i]
  <2>1. \A i \in 1 .. Len(b) : i \in 1 .. Len(w)
    BY <1>1
  <2>2. Len(b) + 1 \in 1 .. Len(w)
    BY <1>1
  <2>3. \A i \in 1 .. Len(s) : Len(b) + 1 + i \in 1 .. Len(w)
    BY <1>1
  <2>4. QED
    BY <1>1, <1>3, <1>4, <2>1, <2>2, <2>3
<1>7. IsPrefix(b, u)
  <2>1. Len(b) <= Len(u) /\ \A i \in 1 .. Len(b) : b[i] = u[i]
    BY <1>1, <1>2, <1>5, <1>6
  <2>2. QED
    BY <1>0, <1>5, <2>1, PrefixOf
<1>8. /\ r \in Seq(S) /\ Len(r) = 1 + Len(s) + Len(path)
      /\ \A i \in 1 .. 1 + Len(s) + Len(path) : r[i] = u[Len(b) + i]
  <2>1. /\ Len(b) + 1 \in Nat \ {0} /\ Len(u) \in Nat /\ Len(u) <= Len(u)
        /\ Len(b) + 1 <= Len(u) + 1
        /\ Len(u) - (Len(b) + 1) + 1 = 1 + Len(s) + Len(path)
    BY <1>1, <1>2, <1>5
  <2>2. /\ r \in Seq(S) /\ Len(r) = Len(u) - (Len(b) + 1) + 1
        /\ \A i \in 1 .. Len(u) - (Len(b) + 1) + 1 : r[i] = u[Len(b) + 1 + i - 1]
    <3>1. \A m \in Nat \ {0}, n \in Nat : n <= Len(u) /\ m <= n + 1 =>
             /\ SubSeq(u, m, n) \in Seq(S) /\ Len(SubSeq(u, m, n)) = n - m + 1
             /\ \A i \in 1 .. n - m + 1 : SubSeq(u, m, n)[i] = u[m + i - 1]
      BY <1>5, Slice
    <3>2. QED
      BY <2>1, <3>1, Zenon
  <2>3. \A i \in 1 .. 1 + Len(s) + Len(path) : Len(b) + 1 + i - 1 = Len(b) + i
    BY <1>1, <1>2
  <2> HIDE DEF r
  <2>4. Len(r) = 1 + Len(s) + Len(path)
    BY <2>1, <2>2
  <2>5. \A i \in 1 .. 1 + Len(s) + Len(path) : r[i] = u[Len(b) + 1 + i - 1]
    BY <2>1, <2>2, Zenon
  <2>6. QED
    BY <2>2, <2>3, <2>4, <2>5, Zenon
<1> HIDE DEF r
<1>9. /\ r[1] = x
      /\ \A i \in 1 .. Len(s) : r[1 + i] = s[i]
      /\ \A i \in 1 .. Len(path) : r[1 + Len(s) + i] = path[i]
  <2>1. 1 \in 1 .. 1 + Len(s) + Len(path)
    BY <1>1, <1>2
  <2>2. \A i \in 1 .. Len(s) : 1 + i \in 1 .. 1 + Len(s) + Len(path)
                               /\ Len(b) + (1 + i) = Len(b) + 1 + i
    BY <1>1, <1>2
  <2>3. \A i \in 1 .. Len(path) : 1 + Len(s) + i \in 1 .. 1 + Len(s) + Len(path)
                               /\ Len(b) + (1 + Len(s) + i) = Len(b) + 1 + Len(s) + i
    BY <1>1, <1>2
  <2>4. r[1] = u[Len(b) + 1]
    BY <1>8, <2>1
  <2>5. \A i \in 1 .. Len(s) : r[1 + i] = u[Len(b) + 1 + i]
    BY <1>8, <2>2
  <2>6. \A i \in 1 .. Len(path) : r[1 + Len(s) + i] = u[Len(b) + 1 + Len(s) + i]
    BY <1>8, <2>3
  <2>7. QED
    BY <1>6, <2>4, <2>5, <2>6
<1>10. r # <<>>
  <2>1. Len(r) # 0
    BY <1>1, <1>2, <1>8
  <2>2. QED
    BY <2>1, EmptySeq
<1>11. q = path
  <2>1. /\ 2 + Len(s) \in Nat \ {0} /\ Len(r) \in Nat /\ Len(r) <= Len(r)
        /\ 2 + Len(s) <= Len(r) + 1 /\ Len(r) - (2 + Len(s)) + 1 = Len(path)
    BY <1>1, <1>2, <1>8
  <2>2. /\ q \in Seq(S) /\ Len(q) = Len(r) - (2 + Len(s)) + 1
        /\ \A i \in 1 .. Len(r) - (2 + Len(s)) + 1 : q[i] = r[2 + Len(s) + i - 1]
    BY <1>8, <2>1, Slice
  <2>3. \A i \in 1 .. Len(path) : 2 + Len(s) + i - 1 = 1 + Len(s) + i
    BY <1>1, <1>2
  <2> HIDE DEF q
  <2>4. Len(q) = Len(path)
    BY <2>1, <2>2
  <2>5. \A i \in 1 .. Len(path) : q[i] = r[2 + Len(s) + i - 1]
    BY <2>1, <2>2, Zenon
  <2>6. \A i \in 1 .. Len(path) : q[i] = path[i]
    BY <1>9, <2>3, <2>5, Zenon
  <2>7. QED
    BY <1>2, <2>2, <2>4, <2>6, SeqEqual
<1>12. IsPrefix(s, Tail(r))
  <2>1. /\ Tail(r) \in Seq(S) /\ Len(Tail(r)) = Len(r) - 1
        /\ \A i \in 1 .. Len(Tail(r)) : Tail(r)[i] = r[i + 1]
    BY <1>8, <1>10, HeadTailProperties
  <2>2. Len(s) <= Len(Tail(r)) /\ \A i \in 1 .. Len(s) : i \in 1 .. Len(Tail(r)) /\ i + 1 = 1 + i
    BY <1>1, <1>2, <1>8, <2>1
  <2>3. \A i \in 1 .. Len(s) : s[i] = Tail(r)[i]
    BY <1>9, <2>1, <2>2
  <2>4. QED
    BY <1>0, <2>1, <2>2, <2>3, PrefixOf
<1>13. Behind(r) = path /\ path # <<>>
  BY <1>0, <1>11 DEF Behind, q
<1>14. SubSeq(u, Len(template.before) + 1, Len(u)) = r
  BY <1>0 DEF r
<1>15. QED
  <2>1. FromPath(u) = [id |-> <<x>>, path |-> path]
    BY <1>0, <1>7, <1>9, <1>10, <1>12, <1>13, <1>14 DEF FromPath
  <2>2. QED
    BY <2>1 DEF b, s, u

-----------------------------------------------------------------------------
(* Where the visitor is *)

\* What the URL of an id and a path stands for, and that URL.
Means(id, path) == [id |-> <<id>>, path |-> path]
PageOf(id, path) ==
    [scheme |-> origin.scheme, host |-> Composed(template, id, path).host,
     port |-> origin.port, path |-> Composed(template, id, path).path]

\* The visitor is at the URL of an id, where it came on, and as far as that is known,
\* this is what the target meant.
AtTunnel ==
    \E id \in Tunnel, path \in TargetPath :
        /\ page = PageOf(id, path)
        /\ reached \in {Nowhere, Means(id, path)}
        /\ meant = Means(id, path) \/ (meant = Nowhere /\ targetHost = <<>>)

\* Or it has followed its target elsewhere.
Elsewhere ==
    page.host = Foreign /\ meant = Nowhere /\ reached = Nowhere /\ targetHost # <<>>

UrlInv ==
    /\ template \in Template /\ front \in FrontServer /\ targetHost \in {<<>>, Local}
    /\ redirects \in Nat
    /\ origin \in [scheme : Scheme, port : Port]
    /\ Reaches(front, origin.scheme, origin.port)
    /\ Followed => AtTunnel \/ Elsewhere

\* The id and the path of a tunnel's URL are found in it again.
LEMMA UrlFound ==
    ASSUME UrlInv, NEW id \in Tunnel, NEW path \in TargetPath, page = PageOf(id, path)
    PROVE  Extracted(HostName, page.path) = Means(id, path)
<1> DEFINE S == STRING
<1>1. /\ template.before \in Seq(S) /\ template.after \in Seq(S) /\ id \in S
      /\ path \in Seq(S) \ {<<>>} /\ template.isSubdomain \in BOOLEAN
  BY UrlAssumption DEF UrlInv
<1> HIDE DEF S
<1>2. CASE template.isSubdomain
  <2>1. page.host = template.before \o <<id>> \o template.after /\ page.path = path
    BY <1>2 DEF PageOf, Composed
  <2>2. page.host \in Seq(S) /\ Len(page.host) # 0
    <3>1. \A b \in Seq(S), s \in Seq(S) : \A u : u = b \o <<id>> \o s =>
              u \in Seq(S) /\ Len(u) = Len(b) + 1 + Len(s) /\ Len(b) \in Nat /\ Len(s) \in Nat
      BY <1>1, Around
    <3>2. /\ page.host \in Seq(S)
          /\ Len(page.host) = Len(template.before) + 1 + Len(template.after)
          /\ Len(template.before) \in Nat /\ Len(template.after) \in Nat
      BY <1>1, <2>1, <3>1, Zenon
    <3>3. \A l \in Int, m \in Nat, n \in Nat : l = m + 1 + n => l # 0
      OBVIOUS
    <3>4. Len(page.host) \in Int
      BY <3>2, LenProperties
    <3>5. QED
      BY <3>2, <3>3, <3>4, Zenon
  <2>3. page.host # <<>>
    BY <2>2, EmptySeq
  <2>4. HostName = page.host
    BY <2>3 DEF HostName, Headers, UrlInv, FrontServer
  <2>6. FromHost(page.host, path) = [id |-> <<id>>, path |-> path]
    BY <1>1, <2>1, FoundInHost, Zenon
  <2>7. QED
    BY <1>2, <2>1, <2>4, <2>6 DEF Extracted, Means
<1>3. CASE ~template.isSubdomain
  <2>1. page.path = template.before \o <<id>> \o template.after \o path
    BY <1>3 DEF PageOf, Composed
  <2>3. FromPath(page.path) = [id |-> <<id>>, path |-> path]
    BY <1>1, <2>1, FoundInPath, Zenon
  <2>4. QED
    BY <1>3, <2>3 DEF Extracted, Means
<1>4. QED
  BY <1>2, <1>3

\* What a URL stands for is not nothing.
LEMMA MeansSomething ==
    ASSUME NEW id, NEW path
    PROVE  Means(id, path) # Nowhere
<1>1. <<id>> # <<>>
  OBVIOUS
<1>2. Means(id, path).id = <<id>> /\ Nowhere.id = <<>>
  BY DEF Means, Nowhere
<1>3. QED
  BY <1>1, <1>2

-----------------------------------------------------------------------------
(* The redirects *)

LEMMA UrlResolve ==
    ASSUME UrlInv, Resolve
    PROVE  UrlInv'
<1>1. UNCHANGED <<template, front, targetHost, page, origin, meant, redirects>>
      /\ page.host # Foreign /\ reached' = Extracted(HostName, page.path)
  BY DEF Resolve
<1>2. ASSUME Followed' PROVE AtTunnel'
  <2>1. Followed /\ ~Elsewhere
    BY <1>1, <1>2 DEF Followed, Elsewhere
  <2>2. PICK id \in Tunnel, path \in TargetPath :
           page = PageOf(id, path) /\ (meant = Means(id, path) \/ (meant = Nowhere /\ targetHost = <<>>))
    BY <2>1 DEF UrlInv, AtTunnel
  <2>3. reached' = Means(id, path)
    BY <1>1, <2>2, UrlFound
  <2>4. (page = PageOf(id, path))'
    BY <1>1, <2>2 DEF PageOf, Composed
  <2>5. QED
    BY <1>1, <2>2, <2>3, <2>4 DEF AtTunnel, Means
<1>3. QED
  BY <1>1, <1>2 DEF UrlInv, Followed

\* A path at the target of the tunnel, as long as the host name holds the id.
LEMMA UrlRedirect ==
    ASSUME UrlInv, Redirect
    PROVE  UrlInv'
<1>1. UNCHANGED <<template, front, targetHost, origin>> /\ redirects' = redirects + 1
      /\ reached' = Nowhere /\ reached # Nowhere
  BY DEF Redirect
<1>2. redirects' \in Nat /\ redirects' # 0
  BY <1>1 DEF UrlInv
<1>3. ASSUME Followed' PROVE AtTunnel' \/ Elsewhere'
  <2>1. template.isSubdomain /\ front # "renames" /\ Followed /\ ~Elsewhere
    BY <1>1, <1>2, <1>3 DEF Followed, Elsewhere
  <2>2. PICK id \in Tunnel, at0 \in TargetPath :
           page = PageOf(id, at0) /\ reached = Means(id, at0)
    BY <1>1, <2>1 DEF UrlInv, AtTunnel
  <2>3. PICK path \in TargetPath :
          \/ \E host \in {Local, Foreign}, scheme \in Scheme, port \in Port :
                /\ page' = Rewritten([scheme |-> scheme, host |-> host, port |-> port,
                                      path |-> path])
                /\ meant' = IF host = Local THEN [reached EXCEPT !.path = path] ELSE Nowhere
          \/ page' = [page EXCEPT !.path = path] /\ meant' = [reached EXCEPT !.path = path]
    BY DEF Redirect
  <2>4. [reached EXCEPT !.path = path] = Means(id, path)
    BY <2>2 DEF Means
  <2>5. [page EXCEPT !.path = path] = PageOf(id, path)
    <3>1. PICK h : \A p : Composed(template, id, p) = [host |-> h, path |-> p]
      BY <2>1 DEF Composed
    <3>2. \A p : PageOf(id, p) = [scheme |-> origin.scheme, host |-> h, port |-> origin.port, path |-> p]
      BY <3>1 DEF PageOf
    <3>3. QED
      BY <2>2, <3>2
  <2>6. (PageOf(id, path))' = PageOf(id, path) /\ (Means(id, path))' = Means(id, path)
    BY <1>1 DEF PageOf, Composed, Means
  <2>7. ASSUME page' = PageOf(id, path),
               meant' = Means(id, path) \/ (meant' = Nowhere /\ targetHost = <<>>)
        PROVE  AtTunnel'
    BY <1>1, <2>6, <2>7 DEF AtTunnel
  <2>8. ASSUME NEW host \in {Local, Foreign}, NEW scheme \in Scheme, NEW port \in Port,
               page' = Rewritten([scheme |-> scheme, host |-> host, port |-> port,
                                  path |-> path]),
               meant' = IF host = Local THEN [reached EXCEPT !.path = path] ELSE Nowhere
        PROVE  AtTunnel' \/ Elsewhere'
    <3> DEFINE location == [scheme |-> scheme, host |-> host, port |-> port, path |-> path]
    <3>1. Headers.host = page.host /\ Headers.port = origin.port /\ Proto = origin.scheme
      <4>1. /\ page.scheme = origin.scheme /\ page.port = origin.port
            /\ origin.scheme \in {"http", "https"} /\ front \in {"none", "keeps", "nginx"}
            /\ (front = "none" => origin.scheme = "http") /\ (front = "nginx" => origin.port = "")
        BY <2>1, <2>2 DEF UrlInv, PageOf, FrontServer, Scheme, Reaches
      <4>2. QED
        BY <4>1 DEF Headers, Proto
    <3>2. Public(location) = PageOf(id, path)
      <4>1. page.host = Composed(template, id, path).host /\ Composed(template, id, path).path = path
        BY <2>1, <2>2 DEF PageOf, Composed
      <4>2. Public(location) = [scheme |-> origin.scheme, host |-> page.host,
                                port |-> origin.port, path |-> path]
        <5>1. [location EXCEPT !.scheme = Proto]
                  = [scheme |-> Proto, host |-> host, port |-> port, path |-> path]
          OBVIOUS
        <5>2. [[scheme |-> Proto, host |-> host, port |-> port, path |-> path]
                  EXCEPT !.host = Headers.host]
                  = [scheme |-> Proto, host |-> Headers.host, port |-> port, path |-> path]
          OBVIOUS
        <5>3. [[scheme |-> Proto, host |-> Headers.host, port |-> port, path |-> path]
                  EXCEPT !.port = Headers.port]
                  = [scheme |-> Proto, host |-> Headers.host, port |-> Headers.port,
                     path |-> path]
          OBVIOUS
        <5>4. Public(location) = [[[location EXCEPT !.scheme = Proto]
                  EXCEPT !.host = Headers.host] EXCEPT !.port = Headers.port]
          BY DEF Public
        <5> HIDE DEF location
        <5>5. QED
          BY <3>1, <5>1, <5>2, <5>3, <5>4
      <4>3. QED
        BY <4>1, <4>2 DEF PageOf
    <3>3. location.host = host
      OBVIOUS
    <3>4. CASE host = Local
      <4>1. page' = Public(location)
        BY <2>8, <3>3, <3>4 DEF Rewritten, UrlInv
      <4>2. meant' = Means(id, path)
        BY <2>4, <2>8, <3>4
      <4>3. QED
        BY <2>7, <3>2, <4>1, <4>2
    <3>5. CASE host = Foreign
      <4>1. Foreign # Local /\ Foreign # <<>>
        <5>1. "foreign" # "local"
          OBVIOUS
        <5>2. QED
          BY <5>1 DEF Foreign, Local
      <4>2. meant' = Nowhere
        BY <2>8, <3>5, <4>1
      <4>3. CASE targetHost = <<>>
        <5>1. page' = Public(location)
          BY <2>8, <4>3 DEF Rewritten
        <5>2. QED
          BY <2>7, <3>2, <4>2, <4>3, <5>1
      <4>4. CASE targetHost # <<>>
        <5>1. targetHost = Local
          BY <4>4 DEF UrlInv
        <5>2. page' = location
          BY <2>8, <3>3, <3>5, <4>1, <4>4, <5>1 DEF Rewritten
        <5>3. page'.host = Foreign
          BY <3>3, <3>5, <5>2
        <5>4. QED
          BY <1>1, <4>2, <4>4, <5>3 DEF Elsewhere
      <4>5. QED
        BY <4>3, <4>4
    <3>6. QED
      BY <3>4, <3>5
  <2>9. CASE page' = [page EXCEPT !.path = path] /\ meant' = [reached EXCEPT !.path = path]
    BY <2>4, <2>5, <2>7, <2>9
  <2>10. QED
    BY <2>3, <2>8, <2>9
<1>4. QED
  BY <1>1, <1>2, <1>3 DEF UrlInv

\* For any templates, ids and paths: after redirects that the server follows up, the
\* visitor is at the URL of an id and a path, or where the target sent it elsewhere.
THEOREM UrlInvariant == UrlSpec => []UrlInv
<1>1. UrlInit => UrlInv
  <2>1. SUFFICES ASSUME UrlInit PROVE UrlInv
    OBVIOUS
  <2>2. PICK scheme \in Scheme, port \in Port, id \in Tunnel, path \in TargetPath :
          /\ Reaches(front, scheme, port)
          /\ origin = [scheme |-> scheme, port |-> port]
          /\ meant = [id |-> <<id>>, path |-> path]
          /\ page = [scheme |-> scheme, host |-> Composed(template, id, path).host,
                     port |-> port, path |-> Composed(template, id, path).path]
    BY <2>1 DEF UrlInit
  <2>3. AtTunnel
    BY <2>1, <2>2 DEF AtTunnel, PageOf, Means, UrlInit
  <2>4. origin \in [scheme : Scheme, port : Port] /\ Reaches(front, origin.scheme, origin.port)
    BY <2>2
  <2>5. QED
    BY <2>1, <2>3, <2>4 DEF UrlInv, UrlInit
<1>2. UrlInv /\ [UrlNext]_urlVars => UrlInv'
  <2>1. SUFFICES ASSUME UrlInv, [UrlNext]_urlVars PROVE UrlInv'
    OBVIOUS
  <2>2. CASE Resolve
    BY <2>1, <2>2, UrlResolve
  <2>3. CASE Redirect
    BY <2>1, <2>3, UrlRedirect
  <2>4. CASE UNCHANGED urlVars
    BY <2>1, <2>4 DEF UrlInv, urlVars, Followed, AtTunnel, Elsewhere, PageOf, Means, Reaches
  <2>5. QED
    BY <2>1, <2>2, <2>3, <2>4 DEF UrlNext
<1>3. QED
  BY <1>1, <1>2, PTL DEF UrlSpec

\* For any templates, ids and paths: the id and the path are found in the visitor's URL
\* behind every front server, and a redirect by the target to itself leads back to it.
THEOREM RedirectsReturnHolds == UrlSpec => []RedirectsReturn
<1>1. UrlInv => RedirectsReturn
  <2>1. SUFFICES ASSUME UrlInv, Followed
                 PROVE  /\ meant # Nowhere =>
                              /\ reached \in {Nowhere, meant}
                              /\ Extracted(HostName, page.path) = meant
                              /\ page.scheme = origin.scheme /\ page.port = origin.port
                        /\ meant = Nowhere /\ targetHost # <<>> => page.host = Foreign
    BY DEF RedirectsReturn
  <2>2. CASE AtTunnel
    <3>1. PICK id \in Tunnel, path \in TargetPath :
             /\ page = PageOf(id, path) /\ reached \in {Nowhere, Means(id, path)}
             /\ meant = Means(id, path) \/ (meant = Nowhere /\ targetHost = <<>>)
      BY <2>2 DEF AtTunnel
    <3>2. Extracted(HostName, page.path) = Means(id, path)
      BY <2>1, <3>1, UrlFound
    <3>3. page.scheme = origin.scheme /\ page.port = origin.port
      BY <3>1 DEF PageOf
    <3>4. QED
      BY <3>1, <3>2, <3>3, MeansSomething
  <2>3. CASE Elsewhere
    BY <2>3 DEF Elsewhere
  <2>4. QED
    BY <2>1, <2>2, <2>3 DEF UrlInv
<1>2. QED
  BY <1>1, UrlInvariant, PTL

-----------------------------------------------------------------------------
(* Folds over a sequence *)

\* A finite set of numbers has a greatest one.
LEMMA MaxIn ==
    ASSUME NEW D \in SUBSET Nat, IsFiniteSet(D), D # {}
    PROVE  Max(D) \in D /\ \A y \in D : Max(D) >= y
<1> DEFINE Bad == {s \in SUBSET D : s # {} /\ ~ \E x \in s : \A y \in s : x >= y}
<1>1. Bad = {}
  <2> SUFFICES ASSUME Bad # {} PROVE FALSE
    OBVIOUS
  <2>1. PICK s \in Bad : \A t \in Bad : ~ (<<t, s>> \in StrictSubsetOrdering(D))
    <3>1. IsWellFoundedOn(StrictSubsetOrdering(D), SUBSET D)
      BY FS_StrictSubsetOrderingWellFounded, FS_FiniteSubsetsOfFinite
    <3> HIDE DEF Bad
    <3>2. Bad \subseteq SUBSET D
      BY DEF Bad
    <3> QED  BY <3>1, <3>2, WFMin
  <2>2. PICK z \in s : TRUE
    OBVIOUS
  <2>3. s \ {z} \notin Bad
    <3>1. <<s \ {z}, s>> \in StrictSubsetOrdering(D)
      BY DEF StrictSubsetOrdering
    <3> QED  BY <2>1, <3>1
  <2>4. CASE s = {z}
    BY <2>4
  <2>5. CASE s # {z}
    <3>1. PICK x \in s \ {z} : \A y \in s \ {z} : x >= y
      BY <2>3, <2>5
    <3>2. CASE x >= z
      BY <3>1, <3>2
    <3>3. CASE z >= x
      <4>1. \A y \in s : z >= y
        BY <3>1, <3>3
      <4> QED  BY <4>1
    <3> QED  BY <3>2, <3>3
  <2> QED  BY <2>4, <2>5
<1>2. \E x \in D : \A y \in D : x >= y
  BY <1>1
<1> QED  BY <1>2 DEF Max

\* The function of sets of positions that FoldLeft(Called, base, ws) is computed with.
FoldsOver(base, ws, U, g) ==
    g = [s \in SUBSET U |-> IF s = {} THEN base ELSE Called(g[s \ {Max(s)}], ws[Max(s)])]

\* There is such a function: the callbacks up to a position are those up to the one
\* before it, and one more.
LEMMA FoldExists ==
    ASSUME NEW base, NEW ws, NEW D \in SUBSET Nat, IsFiniteSet(D)
    PROVE  \E h : FoldsOver(base, ws, D, h)
<1> DEFINE Bad == {s \in SUBSET D : ~ \E h : FoldsOver(base, ws, s, h)}
<1>1. Bad = {}
  <2> SUFFICES ASSUME Bad # {} PROVE FALSE
    OBVIOUS
  <2>1. PICK s \in Bad : \A t \in Bad : ~ (<<t, s>> \in StrictSubsetOrdering(D))
    <3>1. IsWellFoundedOn(StrictSubsetOrdering(D), SUBSET D)
      BY FS_StrictSubsetOrderingWellFounded, FS_FiniteSubsetsOfFinite
    <3> HIDE DEF Bad
    <3>2. Bad \subseteq SUBSET D
      BY DEF Bad
    <3> QED  BY <3>1, <3>2, WFMin
  <2>2. s # {}
    <3> DEFINE h0 == [u \in SUBSET {} |-> base]
    <3>1. FoldsOver(base, ws, {}, h0)
      BY DEF FoldsOver
    <3> HIDE DEF h0
    <3> QED  BY <3>1
  <2> DEFINE m == Max(s)
  <2>3. m \in s /\ \A y \in s : m >= y
    <3>1. IsFiniteSet(s) /\ s \in SUBSET Nat
      BY FS_Subset
    <3> QED  BY <2>2, <3>1, MaxIn
  <2>4. ASSUME NEW u \in SUBSET s, m \in u
        PROVE  Max(u) = m
    <3>1. IsFiniteSet(u) /\ u \in SUBSET Nat
      BY FS_Subset
    <3>2. Max(u) \in u /\ \A y \in u : Max(u) >= y
      BY <2>4, <3>1, MaxIn
    <3> HIDE DEF m
    <3>3. Max(u) >= m /\ m >= Max(u) /\ Max(u) \in Nat /\ m \in Nat
      BY <2>3, <2>4, <3>1, <3>2
    <3> QED  BY <3>3
  <2> HIDE DEF m
  <2>5. s \ {m} \notin Bad
    <3>1. <<s \ {m}, s>> \in StrictSubsetOrdering(D)
      BY <2>3 DEF StrictSubsetOrdering
    <3> QED  BY <2>1, <3>1
  <2>6. PICK h : FoldsOver(base, ws, s \ {m}, h)
    BY <2>5
  <2> DEFINE g == [u \in SUBSET s |-> IF m \in u THEN Called(h[u \ {m}], ws[m]) ELSE h[u]]
  <2>7. ASSUME NEW u \in SUBSET s
        PROVE  g[u] = IF u = {} THEN base ELSE Called(g[u \ {Max(u)}], ws[Max(u)])
    <3>1. CASE m \in u
      <4>1. Max(u) = m /\ u # {}
        BY <2>4, <3>1
      <4>2. g[u \ {m}] = h[u \ {m}]
        OBVIOUS
      <4>3. g[u] = Called(h[u \ {m}], ws[m])
        BY <3>1
      <4> HIDE DEF g
      <4> QED  BY <4>1, <4>2, <4>3
    <3>2. CASE m \notin u
      <4>1. u \in SUBSET (s \ {m}) /\ u \ {Max(u)} \in SUBSET (s \ {m})
        BY <3>2
      <4>2. g[u] = h[u] /\ g[u \ {Max(u)}] = h[u \ {Max(u)}]
        BY <3>2
      <4>3. h[u] = IF u = {} THEN base ELSE Called(h[u \ {Max(u)}], ws[Max(u)])
        BY <2>6, <4>1 DEF FoldsOver
      <4> HIDE DEF g
      <4> QED  BY <4>2, <4>3
    <3> QED  BY <3>1, <3>2
  <2>8. FoldsOver(base, ws, s, g)
    <3>1. g = [u \in SUBSET s |-> g[u]]
      OBVIOUS
    <3> HIDE DEF g
    <3> QED  BY <2>7, <3>1 DEF FoldsOver
  <2> HIDE DEF g
  <2> QED  BY <2>1, <2>8
<1> QED  BY <1>1

\* What all callbacks come to is what such a function says of all positions.
LEMMA FoldUnfolded ==
    ASSUME NEW base, NEW ws, NEW h, FoldsOver(base, ws, DOMAIN ws, h)
    PROVE  \E g : FoldsOver(base, ws, DOMAIN ws, g) /\ FoldLeft(Called, base, ws) = g[DOMAIN ws]
BY DEF FoldsOver, FoldLeft, MapThenFoldSet

-----------------------------------------------------------------------------
(* Uploads: a writer with packets in the write buffer waits or is destroyed *)

Busy == {"writing", "final", "destroyed"}

Packets == [kind : {"header", "attachment", "end", "ping"}, writer : Writer \cup {"nobody"}]

ConnTypeOK(c) ==
    c \in [open : BOOLEAN, writable : BOOLEAN, buffer : Seq(Packets), waiting : Seq(Writer),
           phase : [Writer -> Busy \cup {"idle", "finished"}], queue : [Writer -> Nat],
           sent : {c.sent}]

\* Nobody listens twice for one 'drain'.
Once(ws) == \A i, j \in 1 .. Len(ws) : ws[i] = ws[j] => i = j

\* Whose packets are in the buffer, and who waits for them to leave it.
Owners(c) == {w \in Writer : \E i \in 1 .. Len(c.buffer) : c.buffer[i].writer = w}
Waiters(c) == {w \in Writer : \E i \in 1 .. Len(c.waiting) : c.waiting[i] = w}

\* A writer whose packets have not left the buffer is not called back by accident: it
\* is busy; so is one that waits, and it waits once.
ConnInv(c) ==
    /\ ConnTypeOK(c)
    /\ \A w \in Owners(c) \cup Waiters(c) : c.phase[w] \in Busy
    /\ Once(c.waiting)

\* What c has become after the writers W were called: the others are as they were,
\* and only writers of W have packets or wait, and they are busy.
CallsMade(r, c, W) ==
    /\ ConnInv(r)
    /\ r.open = c.open /\ r.writable = c.writable
    /\ \A w \in Writer \ W : r.phase[w] = c.phase[w]
    /\ Owners(r) \subseteq W /\ Waiters(r) \subseteq W

\* Packets of w at the end of a buffer are of nobody else.
LEMMA BufferGrows ==
    ASSUME NEW b \in Seq(Packets), NEW ps \in Seq(Packets), NEW w,
           \A i \in 1 .. Len(ps) : ps[i].writer = w
    PROVE  /\ b \o ps \in Seq(Packets)
           /\ \A i \in 1 .. Len(b \o ps) :
                 (b \o ps)[i].writer = w \/ \E j \in 1 .. Len(b) : (b \o ps)[i] = b[j]
<1>1. b \o ps \in Seq(Packets) /\ Len(b \o ps) = Len(b) + Len(ps)
  OBVIOUS
<1>2. ASSUME NEW i \in 1 .. Len(b \o ps)
      PROVE  (b \o ps)[i].writer = w \/ \E j \in 1 .. Len(b) : (b \o ps)[i] = b[j]
  <2>1. CASE i <= Len(b)
    <3>1. (b \o ps)[i] = b[i] /\ i \in 1 .. Len(b)
      BY <2>1
    <3> QED  BY <3>1
  <2>2. CASE i > Len(b)
    <3>1. (b \o ps)[i] = ps[i - Len(b)] /\ i - Len(b) \in 1 .. Len(ps)
      BY <1>1, <2>2
    <3> QED  BY <3>1
  <2> QED  BY <2>1, <2>2
<1> QED  BY <1>1, <1>2

\* One that did not wait may be added to those who do.
LEMMA WaitingGrows ==
    ASSUME NEW ws \in Seq(Writer), Once(ws), NEW w \in Writer,
           \A i \in 1 .. Len(ws) : ws[i] # w
    PROVE  /\ Append(ws, w) \in Seq(Writer) /\ Once(Append(ws, w))
           /\ \A i \in 1 .. Len(Append(ws, w)) :
                 Append(ws, w)[i] = w \/ \E j \in 1 .. Len(ws) : Append(ws, w)[i] = ws[j]
<1>1. /\ Append(ws, w) \in Seq(Writer) /\ Len(Append(ws, w)) = Len(ws) + 1
      /\ \A i \in 1 .. Len(ws) : Append(ws, w)[i] = ws[i]
      /\ Append(ws, w)[Len(ws) + 1] = w
      /\ Len(ws) \in Nat
  OBVIOUS
<1> DEFINE more == Append(ws, w)
<1> HIDE DEF more
<1>2. /\ more \in Seq(Writer) /\ Len(more) = Len(ws) + 1
      /\ \A i \in 1 .. Len(ws) : more[i] = ws[i]
      /\ more[Len(ws) + 1] = w
  BY <1>1 DEF more
<1>3. Once(more)
  BY <1>1, <1>2 DEF Once
<1>4. \A i \in 1 .. Len(more) : more[i] = w \/ \E j \in 1 .. Len(ws) : more[i] = ws[j]
  BY <1>1, <1>2
<1> QED  BY <1>1, <1>3, <1>4 DEF more

\* The packets of a chunk, or of several, are the writer's.
LEMMA ChunkIsOwn ==
    ASSUME NEW w \in Writer, NEW n \in Nat
    PROVE  /\ ChunkPackets(w, n) \in Seq(Packets) /\ Len(ChunkPackets(w, n)) = n + 1
           /\ \A i \in 1 .. Len(ChunkPackets(w, n)) : ChunkPackets(w, n)[i].writer = w
<1> DEFINE head == <<Packet("header", w)>>
           rest == [i \in 1 .. n |-> Packet("attachment", w)]
<1>1. Packet("header", w) \in Packets /\ Packet("attachment", w) \in Packets
  BY DEF Packet, Packets
<1>2. head \in Seq(Packets) /\ Len(head) = 1 /\ head[1].writer = w
  BY <1>1 DEF Packet
<1>3. rest \in Seq(Packets) /\ Len(rest) = n /\ \A i \in 1 .. n : rest[i].writer = w
  BY <1>1 DEF Packet
<1> HIDE DEF head, rest
<1>4. /\ head \o rest \in Seq(Packets) /\ Len(head \o rest) = Len(head) + Len(rest)
      /\ \A i \in 1 .. Len(head) : (head \o rest)[i] = head[i]
      /\ \A i \in 1 .. Len(rest) : (head \o rest)[Len(head) + i] = rest[i]
  <2>1. \A a, b \in Seq(Packets) :
           /\ a \o b \in Seq(Packets) /\ Len(a \o b) = Len(a) + Len(b)
           /\ \A i \in 1 .. Len(a) : (a \o b)[i] = a[i]
           /\ \A i \in 1 .. Len(b) : (a \o b)[Len(a) + i] = b[i]
    BY Concat
  <2> QED  BY <1>2, <1>3, <2>1, Zenon
<1> DEFINE all == head \o rest
<1> HIDE DEF all
<1>5. ASSUME NEW i \in 1 .. n + 1 PROVE all[i].writer = w
  <2>1. CASE i = 1
    BY <1>2, <1>4, <2>1 DEF all
  <2>2. CASE i # 1
    <3>1. i - 1 \in 1 .. n /\ 1 + (i - 1) = i
      BY <2>2
    <3>2. all[1 + (i - 1)] = rest[i - 1]
      BY <1>2, <1>3, <1>4, <3>1 DEF all
    <3> QED  BY <1>3, <3>1, <3>2
  <2> QED  BY <2>1, <2>2
<1>6. all \in Seq(Packets) /\ Len(all) = n + 1
  BY <1>2, <1>3, <1>4 DEF all
<1> QED  BY <1>5, <1>6 DEF ChunkPackets, head, rest, all

\* A writer that is called, having been busy, and that had nothing in the buffer.
LEMMA OneCall ==
    ASSUME NEW r, NEW c, NEW W, CallsMade(r, c, W),
           NEW w \in Writer, w \notin W, c.phase[w] \in Busy
    PROVE  CallsMade(Called(r, w), c, W \cup {w})
<1>1. /\ ConnTypeOK(r) /\ Once(r.waiting)
      /\ \A x \in Owners(r) \cup Waiters(r) : r.phase[x] \in Busy /\ x \in W
      /\ r.open = c.open /\ r.writable = c.writable
      /\ \A x \in Writer \ W : r.phase[x] = c.phase[x]
  BY DEF CallsMade, ConnInv
<1>2. r.phase[w] \in Busy /\ w \notin Owners(r) /\ w \notin Waiters(r)
  BY <1>1
<1>3. CASE r.phase[w] = "destroyed"
  BY <1>3 DEF Called, CallsMade
<1>4. ASSUME NEW p \in {"finished", "idle"}, NEW d, d = [r EXCEPT !.phase[w] = p]
      PROVE  CallsMade(d, c, W \cup {w})
  <2>1. /\ d.open = r.open /\ d.writable = r.writable /\ d.buffer = r.buffer
        /\ d.waiting = r.waiting /\ d.queue = r.queue /\ d.sent = r.sent
        /\ d.phase = [r.phase EXCEPT ![w] = p] /\ ConnTypeOK(d)
    BY <1>1, <1>4 DEF ConnTypeOK
  <2>2. Owners(d) = Owners(r) /\ Waiters(d) = Waiters(r)
    BY <2>1 DEF Owners, Waiters
  <2>3. \A x \in Writer : x # w => d.phase[x] = r.phase[x]
    BY <1>1, <2>1 DEF ConnTypeOK
  <2>4. ConnInv(d)
    <3>1. \A x \in Owners(d) \cup Waiters(d) : d.phase[x] \in Busy
      BY <1>1, <1>2, <2>2, <2>3 DEF Owners, Waiters
    <3> QED  BY <1>1, <2>1, <3>1 DEF ConnInv
  <2> QED  BY <1>1, <2>1, <2>2, <2>3, <2>4 DEF CallsMade
<1>5. CASE r.phase[w] = "writing" /\ r.queue[w] # 0
  <2> DEFINE ps == ChunkPackets(w, r.queue[w])
             buf == r.buffer \o ps
             wait == Append(r.waiting, w)
             d == [Queued(r, w, ps) EXCEPT !.queue[w] = 0]
  <2>1. /\ r.buffer \in Seq(Packets) /\ r.waiting \in Seq(Writer) /\ r.queue[w] \in Nat
    BY <1>1 DEF ConnTypeOK
  <2>2. /\ buf \in Seq(Packets)
        /\ \A i \in 1 .. Len(buf) : buf[i].writer = w \/ \E j \in 1 .. Len(r.buffer) : buf[i] = r.buffer[j]
    <3>1. ps \in Seq(Packets) /\ \A i \in 1 .. Len(ps) : ps[i].writer = w
      BY <2>1, ChunkIsOwn
    <3> HIDE DEF ps
    <3> QED  BY <2>1, <3>1, BufferGrows
  <2>3. /\ wait \in Seq(Writer) /\ Once(wait)
        /\ \A i \in 1 .. Len(wait) : wait[i] = w \/ \E j \in 1 .. Len(r.waiting) : wait[i] = r.waiting[j]
    <3>1. \A i \in 1 .. Len(r.waiting) : r.waiting[i] # w
      BY <1>2 DEF Waiters
    <3> QED  BY <1>1, <2>1, <3>1, WaitingGrows
  <2>4. Queued(r, w, ps) = [r EXCEPT !.buffer = buf, !.waiting = wait]
    BY DEF Queued
  <2> HIDE DEF ps, buf, wait
  <2>5. /\ d.open = r.open /\ d.writable = r.writable /\ d.buffer = buf /\ d.waiting = wait
        /\ d.phase = r.phase /\ d.queue = [r.queue EXCEPT ![w] = 0] /\ d.sent = r.sent
        /\ ConnTypeOK(d)
    <3>1. [r EXCEPT !.buffer = buf, !.waiting = wait] = [[r EXCEPT !.buffer = buf] EXCEPT !.waiting = wait]
      BY <1>1 DEF ConnTypeOK
    <3> QED  BY <1>1, <2>2, <2>3, <2>4, <3>1 DEF ConnTypeOK
  <2>6. Owners(d) \subseteq Owners(r) \cup {w}
    BY <2>2, <2>5 DEF Owners
  <2>7. Waiters(d) \subseteq Waiters(r) \cup {w}
    BY <2>3, <2>5 DEF Waiters
  <2>8. ConnInv(d)
    BY <1>1, <1>2, <2>3, <2>5, <2>6, <2>7 DEF ConnInv
  <2>9. CallsMade(d, c, W \cup {w})
    BY <1>1, <2>5, <2>6, <2>7, <2>8 DEF CallsMade
  <2> QED  BY <1>5, <2>9 DEF Called, ps
<1> QED
  <2>1. CASE r.phase[w] = "final"
    BY <1>4, <2>1 DEF Called
  <2>2. CASE r.phase[w] = "writing" /\ r.queue[w] = 0
    BY <1>4, <2>2 DEF Called
  <2> QED  BY <1>2, <1>3, <1>5, <2>1, <2>2 DEF Busy

\* All who wait are called, one after the other.
LEMMA AllCalled ==
    ASSUME NEW c, ConnInv(c), Len(c.buffer) = 0, Len(c.waiting) = 0,
           NEW ws \in Seq(Writer), Once(ws), \A i \in 1 .. Len(ws) : c.phase[ws[i]] \in Busy
    PROVE  CallsMade(FoldLeft(Called, c, ws), c, {ws[i] : i \in 1 .. Len(ws)})
<1> DEFINE D == 1 .. Len(ws)
           Names(s) == {ws[i] : i \in s}
<1>1. DOMAIN ws = D /\ D \in SUBSET Nat /\ Len(ws) \in Nat /\ \A i \in D : ws[i] \in Writer
  OBVIOUS
<1>2. IsFiniteSet(D)
  BY <1>1, FS_Interval
<1>3. PICK g : FoldsOver(c, ws, D, g) /\ FoldLeft(Called, c, ws) = g[D]
  <2> HIDE DEF D
  <2>1. PICK h : FoldsOver(c, ws, D, h)
    BY <1>1, <1>2, FoldExists
  <2> QED  BY <1>1, <2>1, FoldUnfolded
<1> DEFINE Bad == {s \in SUBSET D : ~ CallsMade(g[s], c, Names(s))}
<1>4. Bad = {}
  <2> SUFFICES ASSUME Bad # {} PROVE FALSE
    OBVIOUS
  <2>1. PICK s \in Bad : \A t \in Bad : ~ (<<t, s>> \in StrictSubsetOrdering(D))
    <3>1. IsWellFoundedOn(StrictSubsetOrdering(D), SUBSET D)
      <4> HIDE DEF D
      <4> QED  BY <1>2, FS_StrictSubsetOrderingWellFounded, FS_FiniteSubsetsOfFinite
    <3> HIDE DEF Bad
    <3>2. Bad \subseteq SUBSET D
      BY DEF Bad
    <3> QED  BY <3>1, <3>2, WFMin
  <2>2. s \in SUBSET D
    OBVIOUS
  <2>3. s # {}
    <3>1. g[{}] = c
      BY <1>3 DEF FoldsOver
    <3>2. Owners(c) = {} /\ Waiters(c) = {}
      BY DEF Owners, Waiters
    <3>3. CallsMade(g[{}], c, Names({}))
      BY <3>1, <3>2 DEF CallsMade
    <3> QED  BY <3>3
  <2> DEFINE m == Max(s)
  <2>4. m \in s
    <3>1. IsFiniteSet(s) /\ s \in SUBSET Nat
      BY <1>1, <1>2, <2>2, FS_Subset
    <3> QED  BY <2>3, <3>1, MaxIn
  <2>5. g[s] = Called(g[s \ {m}], ws[m])
    <3> HIDE DEF D
    <3> QED  BY <1>3, <2>2, <2>3 DEF FoldsOver
  <2> HIDE DEF m
  <2>6. s \ {m} \notin Bad
    <3>1. <<s \ {m}, s>> \in StrictSubsetOrdering(D)
      BY <2>2, <2>4 DEF StrictSubsetOrdering
    <3> QED  BY <2>1, <3>1
  <2>7. CallsMade(g[s \ {m}], c, Names(s \ {m}))
    BY <2>2, <2>6
  <2>8. ws[m] \in Writer /\ ws[m] \notin Names(s \ {m}) /\ c.phase[ws[m]] \in Busy
    BY <1>1, <2>2, <2>4 DEF Once
  <2>9. Names(s \ {m}) \cup {ws[m]} = Names(s)
    BY <2>4
  <2> HIDE DEF Names, Bad
  <2>10. CallsMade(Called(g[s \ {m}], ws[m]), c, Names(s \ {m}) \cup {ws[m]})
    BY <2>7, <2>8, OneCall
  <2>11. CallsMade(g[s], c, Names(s))
    BY <2>5, <2>9, <2>10
  <2> QED  BY <2>11 DEF Bad
<1> QED  BY <1>3, <1>4

\* A flush keeps the invariant and does nothing to those who do not wait.
LEMMA FlushedKeeps ==
    ASSUME NEW c, ConnInv(c)
    PROVE  /\ ConnInv(Flushed(c))
           /\ \A w \in Writer \ Waiters(c) :
                 Flushed(c).phase[w] = c.phase[w] /\ w \notin Waiters(Flushed(c))
<1>1. CASE ~c.writable \/ c.buffer = <<>>
  BY <1>1 DEF Flushed
<1>2. CASE ~(~c.writable \/ c.buffer = <<>>)
  <2> DEFINE none == <<>>
             tally == [w \in Writer |-> c.sent[w] + Handed(c, w)]
             d == [c EXCEPT !.sent = tally, !.buffer = none, !.writable = FALSE, !.waiting = none]
             W == {c.waiting[i] : i \in 1 .. Len(c.waiting)}
  <2>1. Flushed(c) = FoldLeft(Called, d, c.waiting)
    BY <1>2 DEF Flushed
  <2>2. ConnTypeOK(c) /\ c.waiting \in Seq(Writer) /\ Once(c.waiting)
    BY DEF ConnInv, ConnTypeOK
  <2> HIDE DEF tally
  <2>3. none \in Seq(Packets) /\ none \in Seq(Writer) /\ Len(none) = 0
    OBVIOUS
  <2> HIDE DEF none
  <2>4. /\ d.open = c.open /\ d.phase = c.phase /\ d.queue = c.queue
        /\ d.writable = FALSE /\ d.buffer = none /\ d.waiting = none /\ d.sent = tally
        /\ ConnTypeOK(d)
    <3>1. d = [[[[c EXCEPT !.sent = tally] EXCEPT !.buffer = none] EXCEPT !.writable = FALSE]
               EXCEPT !.waiting = none]
      BY <2>2 DEF ConnTypeOK
    <3> HIDE DEF d
    <3> QED  BY <2>2, <2>3, <3>1 DEF ConnTypeOK
  <2> HIDE DEF d
  <2>5. Len(d.buffer) = 0 /\ Len(d.waiting) = 0
    BY <2>3, <2>4
  <2>6. ConnInv(d)
    BY <2>4, <2>5 DEF ConnInv, Owners, Waiters, Once
  <2>7. W = Waiters(c)
    BY <2>2 DEF Waiters
  <2>8. \A i \in 1 .. Len(c.waiting) : d.phase[c.waiting[i]] \in Busy
    BY <2>2, <2>4, <2>7 DEF ConnInv
  <2>9. CallsMade(FoldLeft(Called, d, c.waiting), d, W)
    BY <2>2, <2>5, <2>6, <2>8, AllCalled
  <2> QED  BY <2>1, <2>4, <2>7, <2>9 DEF CallsMade
<1> QED  BY <1>1, <1>2

\* Packets of a busy writer that does not wait, or of none, keep it too.
LEMMA EmittedKeeps ==
    ASSUME NEW c, ConnInv(c), NEW packets \in Seq(Packets), Len(packets) > 0,
           NEW w, \A i \in 1 .. Len(packets) : packets[i].writer = w,
           w \in Writer => c.phase[w] \in Busy /\ w \notin Waiters(c)
    PROVE  /\ ConnInv(Emitted(c, packets))
           /\ \A x \in Writer \ Waiters(c) :
                 /\ Emitted(c, packets).phase[x] = c.phase[x]
                 /\ x \notin Waiters(Emitted(c, packets))
<1> DEFINE h == Head(packets)
           rest == Tail(packets)
           c1 == [c EXCEPT !.buffer = Append(@, h)]
           c2 == Flushed(c1)
           c3 == [c2 EXCEPT !.buffer = @ \o rest]
<1>1. h \in Packets /\ h.writer = w
  <2>1. h = packets[1] /\ 1 \in 1 .. Len(packets)
    OBVIOUS
  <2> QED  BY <2>1
<1>2. rest \in Seq(Packets) /\ \A i \in 1 .. Len(rest) : rest[i].writer = w
  <2>1. rest \in Seq(Packets) /\ Len(rest) = Len(packets) - 1
        /\ \A i \in 1 .. Len(rest) : rest[i] = packets[i + 1] /\ i + 1 \in 1 .. Len(packets)
    OBVIOUS
  <2> QED  BY <2>1
<1> HIDE DEF h, rest
<1>3. ConnTypeOK(c) /\ c.buffer \in Seq(Packets)
  BY DEF ConnInv, ConnTypeOK
<1>4. /\ Append(c.buffer, h) \in Seq(Packets)
      /\ \A i \in 1 .. Len(Append(c.buffer, h)) :
            \/ Append(c.buffer, h)[i] = h
            \/ \E j \in 1 .. Len(c.buffer) : Append(c.buffer, h)[i] = c.buffer[j]
  <2> DEFINE b == c.buffer
  <2> HIDE DEF b
  <2>1. b \in Seq(Packets)
    BY <1>3 DEF b
  <2>2. /\ Append(b, h) \in Seq(Packets)
        /\ \A i \in 1 .. Len(Append(b, h)) :
              Append(b, h)[i] = h \/ \E j \in 1 .. Len(b) : Append(b, h)[i] = b[j]
    BY <1>1, <2>1
  <2> QED  BY <2>2 DEF b
<1>5. /\ c1.buffer = Append(c.buffer, h) /\ c1.waiting = c.waiting /\ c1.phase = c.phase
      /\ ConnTypeOK(c1)
  BY <1>3, <1>4 DEF ConnTypeOK
<1>6. Waiters(c1) = Waiters(c) /\ \A x \in Owners(c1) : x = w \/ x \in Owners(c)
  <2>1. ASSUME NEW x \in Owners(c1) PROVE x = w \/ x \in Owners(c)
    BY <1>1, <1>4, <1>5 DEF Owners
  <2> QED  BY <1>5, <2>1 DEF Waiters
<1>7. ConnInv(c1)
  <2>1. ASSUME NEW x \in Owners(c1) \cup Waiters(c1) PROVE c1.phase[x] \in Busy
    <3>1. x \in Writer
      BY DEF Owners, Waiters
    <3>2. x = w \/ x \in Owners(c) \cup Waiters(c)
      BY <1>6
    <3> QED  BY <1>5, <3>1, <3>2 DEF ConnInv
  <2> QED  BY <1>5, <2>1 DEF ConnInv
<1> HIDE DEF c1
<1>8. /\ ConnInv(c2)
      /\ \A x \in Writer \ Waiters(c) : c2.phase[x] = c.phase[x] /\ x \notin Waiters(c2)
  BY <1>5, <1>6, <1>7, FlushedKeeps
<1> HIDE DEF c2
<1>9. ConnTypeOK(c2) /\ c2.buffer \in Seq(Packets)
  BY <1>8 DEF ConnInv, ConnTypeOK
<1>10. /\ c2.buffer \o rest \in Seq(Packets)
       /\ \A i \in 1 .. Len(c2.buffer \o rest) :
             \/ (c2.buffer \o rest)[i].writer = w
             \/ \E j \in 1 .. Len(c2.buffer) : (c2.buffer \o rest)[i] = c2.buffer[j]
  BY <1>2, <1>9, BufferGrows
<1> DEFINE b3 == c2.buffer \o rest
<1> HIDE DEF b3
<1>11. /\ c3.buffer = b3 /\ c3.waiting = c2.waiting /\ c3.phase = c2.phase
       /\ ConnTypeOK(c3)
  BY <1>9, <1>10 DEF ConnTypeOK, b3
<1>12. Waiters(c3) = Waiters(c2) /\ \A x \in Owners(c3) : x = w \/ x \in Owners(c2)
  <2>1. ASSUME NEW x \in Owners(c3) PROVE x = w \/ x \in Owners(c2)
    BY <1>10, <1>11 DEF Owners, b3
  <2> QED  BY <1>11, <2>1 DEF Waiters
<1>13. ConnInv(c3)
  <2>1. ASSUME NEW x \in Owners(c3) \cup Waiters(c3) PROVE c3.phase[x] \in Busy
    <3>1. x \in Writer
      BY DEF Owners, Waiters
    <3>2. x = w \/ x \in Owners(c2) \cup Waiters(c2)
      BY <1>12
    <3> QED  BY <1>8, <1>11, <3>1, <3>2 DEF ConnInv
  <2> QED  BY <1>8, <1>11, <2>1 DEF ConnInv
<1>14. Emitted(c, packets) = c3
  BY DEF Emitted, c2, c1, h, rest
<1> HIDE DEF c3
<1>15. \A x \in Writer \ Waiters(c) : c3.phase[x] = c.phase[x] /\ x \notin Waiters(c3)
  BY <1>8, <1>11, <1>12
<1> QED  BY <1>13, <1>14, <1>15

\* A busy writer's packets, and then its listener.
LEMMA WrittenKeeps ==
    ASSUME NEW c, ConnInv(c), NEW packets \in Seq(Packets), Len(packets) > 0,
           NEW w \in Writer, \A i \in 1 .. Len(packets) : packets[i].writer = w,
           c.phase[w] \in Busy, w \notin Waiters(c)
    PROVE  ConnInv(Written(c, w, packets))
<1> DEFINE e == Emitted(c, packets)
           d == [e EXCEPT !.waiting = Append(@, w)]
<1>1. ConnInv(e) /\ e.phase[w] = c.phase[w] /\ w \notin Waiters(e)
  BY EmittedKeeps
<1> HIDE DEF e
<1>2. ConnTypeOK(e) /\ e.waiting \in Seq(Writer) /\ Once(e.waiting)
  BY <1>1 DEF ConnInv, ConnTypeOK
<1> DEFINE more == Append(e.waiting, w)
<1>3. /\ more \in Seq(Writer) /\ Once(more)
      /\ \A i \in 1 .. Len(more) : more[i] = w \/ \E j \in 1 .. Len(e.waiting) : more[i] = e.waiting[j]
  <2>1. \A i \in 1 .. Len(e.waiting) : e.waiting[i] # w
    BY <1>1 DEF Waiters
  <2> QED  BY <1>2, <2>1, WaitingGrows
<1> HIDE DEF more
<1>4. d.waiting = more /\ d.buffer = e.buffer /\ d.phase = e.phase /\ ConnTypeOK(d)
  BY <1>2, <1>3 DEF ConnTypeOK, more
<1>5. Owners(d) = Owners(e) /\ \A x \in Waiters(d) : x = w \/ x \in Waiters(e)
  <2>1. ASSUME NEW x \in Waiters(d) PROVE x = w \/ x \in Waiters(e)
    BY <1>3, <1>4 DEF Waiters
  <2> QED  BY <1>4, <2>1 DEF Owners
<1>6. ConnInv(d)
  BY <1>1, <1>3, <1>4, <1>5 DEF ConnInv
<1> QED  BY <1>6 DEF Written, e

\* The packet of somebody else than a writer.
LEMMA PingKeeps ==
    ASSUME NEW c, ConnInv(c)
    PROVE  ConnInv(Emitted(c, <<Packet("ping", "nobody")>>))
<1> DEFINE ps == <<Packet("ping", "nobody")>>
<1>1. ps \in Seq(Packets) /\ Len(ps) > 0 /\ \A i \in 1 .. Len(ps) : ps[i].writer = "nobody"
  BY DEF Packet, Packets
<1> HIDE DEF ps
<1>2. ConnInv(Emitted(c, ps))
  BY <1>1, WriterAssumption, EmittedKeeps
<1> QED  BY <1>2 DEF ps

\* The connection with one writer in another phase.
LEMMA PhaseTaken ==
    ASSUME NEW c, ConnInv(c), NEW w \in Writer, NEW p \in Busy, c.phase[w] \notin {"final", "finished"}
    PROVE  /\ ConnInv([c EXCEPT !.phase[w] = p])
           /\ [c EXCEPT !.phase[w] = p].phase[w] = p
           /\ Waiters([c EXCEPT !.phase[w] = p]) = Waiters(c)
<1> DEFINE d == [c EXCEPT !.phase[w] = p]
<1>1. ConnTypeOK(c)
  BY DEF ConnInv
<1>2. /\ d.buffer = c.buffer /\ d.waiting = c.waiting /\ d.phase = [c.phase EXCEPT ![w] = p]
      /\ ConnTypeOK(d)
  BY <1>1 DEF ConnTypeOK
<1> HIDE DEF d
<1>3. \A x \in Writer : d.phase[x] = IF x = w THEN p ELSE c.phase[x]
  BY <1>1, <1>2 DEF ConnTypeOK
<1>4. Owners(d) = Owners(c) /\ Waiters(d) = Waiters(c)
  BY <1>2 DEF Owners, Waiters
<1>5. ConnInv(d)
  <2>1. ASSUME NEW x \in Owners(d) \cup Waiters(d) PROVE d.phase[x] \in Busy
    <3>1. x \in Writer
      BY DEF Owners, Waiters
    <3> QED  BY <1>3, <1>4, <3>1 DEF ConnInv
  <2> QED  BY <1>2, <2>1 DEF ConnInv
<1> QED  BY <1>3, <1>4, <1>5 DEF d

\* The connection with another queue or state, nobody's packets touched.
LEMMA RestTaken ==
    ASSUME NEW c, ConnInv(c), NEW d, ConnTypeOK(d), d.buffer = c.buffer,
           d.waiting = c.waiting, d.phase = c.phase
    PROVE  ConnInv(d)
BY DEF ConnInv, Owners, Waiters

WriterInv == ConnInv(conn)

\* A writer's step, the transport's or the heartbeat's keeps the invariant.
LEMMA WriterStep == WriterInv /\ [WriterNext]_writerVars => WriterInv'
<1> SUFFICES ASSUME WriterInv, [WriterNext]_writerVars PROVE ConnInv(conn')
  BY DEF WriterInv
<1>1. ConnInv(conn) /\ ConnTypeOK(conn)
  BY DEF WriterInv, ConnInv
<1>2. ASSUME NEW w \in Writer, Arrives(w) PROVE ConnInv(conn')
  <2>1. conn.phase[w] \in {"idle", "writing"}
    BY <1>2 DEF Arrives
  <2>2. CASE conn.phase[w] = "writing"
    <3>1. conn' = [conn EXCEPT !.queue[w] = @ + 1]
      BY <1>2, <2>2 DEF Arrives
    <3> DEFINE q == [conn.queue EXCEPT ![w] = @ + 1]
    <3>2. q \in [Writer -> Nat]
      <4>1. conn.queue \in [Writer -> Nat]
        BY <1>1 DEF ConnTypeOK
      <4> QED  BY <4>1
    <3>3. conn' = [conn EXCEPT !.queue = q]
      BY <1>1, <3>1 DEF ConnTypeOK
    <3> HIDE DEF q
    <3>4. /\ ConnTypeOK(conn') /\ conn'.buffer = conn.buffer
          /\ conn'.waiting = conn.waiting /\ conn'.phase = conn.phase
      BY <1>1, <3>2, <3>3 DEF ConnTypeOK
    <3> QED  BY <1>1, <3>4, RestTaken
  <2>3. CASE conn.phase[w] = "idle"
    <3> DEFINE c == [conn EXCEPT !.phase[w] = "writing"]
               ps == ChunkPackets(w, 1)
    <3>1. conn' = Written(c, w, ps)
      BY <1>2, <2>3 DEF Arrives
    <3>2. ConnInv(c) /\ c.phase[w] = "writing" /\ Waiters(c) = Waiters(conn)
      BY <1>1, <2>3, PhaseTaken DEF Busy
    <3>3. w \notin Waiters(conn)
      BY <1>1, <2>3 DEF ConnInv, Busy
    <3>4. ps \in Seq(Packets) /\ Len(ps) > 0 /\ \A i \in 1 .. Len(ps) : ps[i].writer = w
      BY ChunkIsOwn
    <3> HIDE DEF c, ps
    <3> QED  BY <3>1, <3>2, <3>3, <3>4, WrittenKeeps DEF Busy
  <2> QED  BY <2>1, <2>2, <2>3
<1>3. ASSUME NEW w \in Writer, Finishes(w) PROVE ConnInv(conn')
  BY <1>1, <1>3 DEF Finishes
<1>4. ASSUME NEW w \in Writer, Final(w) PROVE ConnInv(conn')
  <2> DEFINE c == [conn EXCEPT !.phase[w] = "final"]
             ps == <<Packet("end", w)>>
  <2>1. conn.phase[w] = "idle" /\ conn' = Written(c, w, ps)
    BY <1>4 DEF Final
  <2>2. ConnInv(c) /\ c.phase[w] = "final" /\ Waiters(c) = Waiters(conn)
    BY <1>1, <2>1, PhaseTaken DEF Busy
  <2>3. w \notin Waiters(conn)
    BY <1>1, <2>1 DEF ConnInv, Busy
  <2>4. ps \in Seq(Packets) /\ Len(ps) > 0 /\ \A i \in 1 .. Len(ps) : ps[i].writer = w
    BY DEF Packet, Packets
  <2> HIDE DEF c, ps
  <2> QED  BY <2>1, <2>2, <2>3, <2>4, WrittenKeeps DEF Busy
<1>5. ASSUME NEW w \in Writer, Destroy(w) PROVE ConnInv(conn')
  <2> DEFINE c == [conn EXCEPT !.phase[w] = "destroyed"]
  <2>1. /\ conn.phase[w] \in {"idle", "writing"}
        /\ conn' = [conn EXCEPT !.phase[w] = "destroyed", !.queue[w] = 0]
    BY <1>5 DEF Destroy
  <2>2. ConnInv(c)
    BY <1>1, <2>1, PhaseTaken DEF Busy
  <2>3. conn' = [c EXCEPT !.queue[w] = 0]
    BY <1>1, <2>1 DEF ConnTypeOK
  <2> HIDE DEF c
  <2>4. /\ ConnTypeOK(conn') /\ conn'.buffer = c.buffer
        /\ conn'.waiting = c.waiting /\ conn'.phase = c.phase
    BY <2>2, <2>3 DEF ConnInv, ConnTypeOK
  <2> QED  BY <2>2, <2>4, RestTaken
<1>6. CASE Ready
  <2> DEFINE c == [conn EXCEPT !.writable = TRUE]
  <2>1. conn' = Flushed(c)
    BY <1>6 DEF Ready
  <2>2. /\ ConnTypeOK(c) /\ c.buffer = conn.buffer
        /\ c.waiting = conn.waiting /\ c.phase = conn.phase
    BY <1>1 DEF ConnTypeOK
  <2> HIDE DEF c
  <2>3. ConnInv(c)
    BY <1>1, <2>2, RestTaken
  <2> QED  BY <2>1, <2>3, FlushedKeeps
<1>7. CASE Ping
  BY <1>1, <1>7, PingKeeps DEF Ping
<1>8. CASE Close
  <2>1. conn' = [conn EXCEPT !.open = FALSE]
    BY <1>8 DEF Close
  <2>2. /\ ConnTypeOK(conn') /\ conn'.buffer = conn.buffer
        /\ conn'.waiting = conn.waiting /\ conn'.phase = conn.phase
    BY <1>1, <2>1 DEF ConnTypeOK
  <2> QED  BY <1>1, <2>2, RestTaken
<1>9. CASE UNCHANGED writerVars
  BY <1>1, <1>9 DEF writerVars
<1> QED  BY <1>2, <1>3, <1>4, <1>5, <1>6, <1>7, <1>8, <1>9 DEF WriterNext

\* For any number of uploads over a connection: a writer with packets in the write
\* buffer, or that waits for 'drain', is writing, ending or destroyed, and waits once.
THEOREM WriterInvariant == WriterSpec => []WriterInv
<1>1. WriterInit => WriterInv
  <2> SUFFICES ASSUME WriterInit PROVE ConnInv(conn)
    BY DEF WriterInv
  <2>1. conn = [open |-> TRUE, writable |-> TRUE, buffer |-> <<>>, waiting |-> <<>>,
                phase |-> [w \in Writer |-> "idle"], queue |-> [w \in Writer |-> 0],
                sent |-> [w \in Writer |-> 0]]
    BY DEF WriterInit
  <2>2. Len(conn.buffer) = 0 /\ Len(conn.waiting) = 0
    BY <2>1
  <2>3. ConnTypeOK(conn)
    BY <2>1 DEF ConnTypeOK
  <2> QED  BY <2>2, <2>3 DEF ConnInv, Owners, Waiters, Once
<1> QED  BY <1>1, WriterStep, PTL DEF WriterSpec

\* TunnelRequest never runs ahead of the transport: a writer that is ready for its next
\* chunk, or has finished, has no packet left in the write buffer, whoever else
\* uploads over the connection.
THEOREM UploadBoundedHolds == WriterSpec => []UploadBounded
<1>1. WriterInv => UploadBounded
  BY DEF WriterInv, ConnInv, Owners, Busy, UploadBounded
<1> QED  BY <1>1, WriterInvariant, PTL
=============================================================================
