----------------------- MODULE AchievementRetryProofs -----------------------
(***************************************************************************)
(* The retry list of achievements for any number of requests, achievements *)
(* and retries, and whatever fails: an item is in it at most once, in the  *)
(* order it entered; what is settled stays out of it; and the tables never *)
(* claim more of Steam than is true.                                       *)
(***************************************************************************)
EXTENDS AchievementRetry, SequenceTheorems, FiniteSetTheorems, TLAPS

----------------------------------------------------------------------------
(* The list.  A batch returns to one end of the queue while new items enter  *)
(* at the other: written in the order of the retries, each list call and     *)
(* each step of the worker is a simple change of one sequence.               *)

\* t is s without some of its elements.
Thinned(s, t) ==
    \E f \in [DOMAIN t -> DOMAIN s] :
        /\ \A j, k \in DOMAIN t : j < k => f[j] < f[k]
        /\ \A k \in DOMAIN t : t[k] = s[f[k]]

LEMMA ReverseIs ==
    ASSUME NEW S, NEW q \in Seq(S)
    PROVE  /\ Reverse(q) \in Seq(S) /\ Len(Reverse(q)) = Len(q)
           /\ \A k \in 1 .. Len(q) : Reverse(q)[k] = q[Len(q) - k + 1]
  <1>1. \A k \in 1 .. Len(q) : q[Len(q) - k + 1] \in S
    BY ElementOfSeq, LenProperties
  <1>2. Reverse(q) = [k \in 1 .. Len(q) |-> q[Len(q) - k + 1]]
    BY DEF Reverse
  <1>3. Reverse(q) \in Seq(S) /\ Len(Reverse(q)) = Len(q)
    BY <1>1, <1>2, LenProperties
  <1> QED
    BY <1>2, <1>3

LEMMA OneIs ==
    ASSUME NEW S, NEW x \in S
    PROVE  <<x>> \in Seq(S) /\ Len(<<x>>) = 1 /\ <<x>>[1] = x
  OBVIOUS

LEMMA ConcatIs ==
    ASSUME NEW S, NEW s \in Seq(S), NEW t \in Seq(S)
    PROVE  /\ s \o t \in Seq(S) /\ Len(s \o t) = Len(s) + Len(t)
           /\ Len(s) \in Nat /\ Len(t) \in Nat
           /\ DOMAIN s = 1 .. Len(s) /\ DOMAIN t = 1 .. Len(t)
           /\ DOMAIN (s \o t) = 1 .. Len(s) + Len(t)
           /\ \A k \in 1 .. Len(s) : (s \o t)[k] = s[k]
           /\ \A k \in 1 .. Len(t) : (s \o t)[Len(s) + k] = t[k]
  <1>1. /\ s \o t \in Seq(S) /\ Len(s \o t) = Len(s) + Len(t)
        /\ Len(s) \in Nat /\ Len(t) \in Nat
        /\ DOMAIN s = 1 .. Len(s) /\ DOMAIN t = 1 .. Len(t)
    BY ConcatProperties, LenProperties
  <1>2. DOMAIN (s \o t) = 1 .. Len(s) + Len(t)
    BY <1>1, LenProperties
  <1>3. ASSUME NEW k \in 1 .. Len(s) PROVE (s \o t)[k] = s[k]
    <2>1. k \in 1 .. Len(s) + Len(t) /\ k <= Len(s)
      BY <1>1
    <2> QED
      BY <2>1, ConcatProperties
  <1>4. ASSUME NEW k \in 1 .. Len(t) PROVE (s \o t)[Len(s) + k] = t[k]
    <2>1. Len(s) + k \in 1 .. Len(s) + Len(t) /\ ~(Len(s) + k <= Len(s))
          /\ (Len(s) + k) - Len(s) = k
      BY <1>1
    <2> QED
      BY <2>1, ConcatProperties
  <1> QED
    BY <1>1, <1>2, <1>3, <1>4

LEMMA ConcatLeft ==
    ASSUME NEW S, NEW s \in Seq(S), NEW t \in Seq(S), NEW k \in 1 .. Len(s)
    PROVE  (s \o t)[k] = s[k]
  BY ConcatIs

LEMMA ConcatRight ==
    ASSUME NEW S, NEW s \in Seq(S), NEW t \in Seq(S), NEW k \in 1 .. Len(t)
    PROVE  (s \o t)[Len(s) + k] = t[k]
  BY ConcatIs

LEMMA ConcatType ==
    ASSUME NEW S, NEW s \in Seq(S), NEW t \in Seq(S)
    PROVE  /\ s \o t \in Seq(S) /\ Len(s \o t) = Len(s) + Len(t)
           /\ DOMAIN (s \o t) = 1 .. Len(s) + Len(t)
  BY ConcatIs

LEMMA FrontIs ==
    ASSUME NEW S, NEW q \in Seq(S), q # <<>>
    PROVE  /\ Front(q) \in Seq(S) /\ Last(q) \in S /\ Len(q) \in Nat \ {0}
           /\ Len(Front(q)) = Len(q) - 1
           /\ \A k \in 1 .. Len(q) - 1 : Front(q)[k] = q[k]
           /\ q = Front(q) \o <<Last(q)>>
  <1>1. Len(q) \in Nat /\ Len(q) # 0
    BY LenProperties, EmptySeq
  <1>2. \A k \in 1 .. Len(q) : q[k] \in S
    BY ElementOfSeq
  <1>3. Last(q) \in S
    BY <1>1, <1>2 DEF Last
  <1>4. Front(q) \in Seq(S) /\ Len(Front(q)) = Len(q) - 1
    <2> DEFINE n == Len(q) - 1
    <2>1. Front(q) \in Seq(S) /\ Len(Front(q)) = IF 1 <= n THEN n - 1 + 1 ELSE 0
      BY <1>1, <1>2, SubSeqProperties DEF Front
    <2>2. n \in Nat
      BY <1>1
    <2>3. Len(Front(q)) = n
      <3> HIDE DEF n
      <3>1. CASE 1 <= n
        BY <2>1, <2>2, <3>1
      <3>2. CASE ~(1 <= n)
        BY <2>1, <2>2, <3>2
      <3> QED
        BY <3>1, <3>2
    <2> QED
      BY <2>1, <2>3
  <1>5. ASSUME NEW k \in 1 .. Len(q) - 1 PROVE Front(q)[k] = q[k]
    <2>1. k \in 1 .. (Len(q) - 1) - 1 + 1 /\ 1 + k - 1 = k
      BY <1>1
    <2>2. Front(q)[k] = q[1 + k - 1]
      BY <1>1, <1>2, <2>1, SubSeqProperties DEF Front
    <2> QED
      BY <2>1, <2>2
  <1>6. q = Front(q) \o <<Last(q)>>
    <2> DEFINE f == Front(q)
               l == <<Last(q)>>
    <2>1. f \in Seq(S) /\ Len(f) = Len(q) - 1 /\ l \in Seq(S) /\ Len(l) = 1
          /\ l[1] = q[Len(q)] /\ \A k \in 1 .. Len(q) - 1 : f[k] = q[k]
      BY <1>3, <1>4, <1>5 DEF Last
    <2> HIDE DEF f, l
    <2>2. /\ f \o l \in Seq(S) /\ Len(f \o l) = Len(f) + Len(l)
          /\ \A k \in 1 .. Len(f) : (f \o l)[k] = f[k]
          /\ \A k \in 1 .. Len(l) : (f \o l)[Len(f) + k] = l[k]
      <3>1. f \in Seq(S) /\ l \in Seq(S)
        BY <2>1
      <3> QED
        BY <3>1, ConcatType, ConcatLeft, ConcatRight
    <2>3. ASSUME NEW k \in 1 .. Len(q) PROVE q[k] = (f \o l)[k]
      <3>1. CASE k = Len(q)
        <4>1. Len(f) + 1 = k /\ 1 \in 1 .. Len(l)
          BY <1>1, <2>1, <3>1
        <4>2. (f \o l)[Len(f) + 1] = l[1]
          BY <2>2, <4>1
        <4> QED
          BY <2>1, <3>1, <4>1, <4>2
      <3>2. CASE k # Len(q)
        <4>1. k \in 1 .. Len(q) - 1 /\ k \in 1 .. Len(f)
          BY <1>1, <2>1, <3>2
        <4> QED
          BY <2>1, <2>2, <4>1
      <3> QED
        BY <3>1, <3>2
    <2>4. Len(f \o l) = Len(q)
      BY <1>1, <2>1, <2>2
    <2>5. q = f \o l
      BY <2>2, <2>3, <2>4, SeqEqual
    <2> QED
      BY <2>5 DEF f, l
  <1> QED
    BY <1>1, <1>3, <1>4, <1>5, <1>6

LEMMA AppendIs ==
    ASSUME NEW S, NEW q \in Seq(S), NEW x \in S
    PROVE  Append(q, x) \in Seq(S) /\ Append(q, x) = q \o <<x>>
  BY AppendIsConcat, AppendProperties

\* What enters at the head of the queue is the last to be retried.
LEMMA ReversePush ==
    ASSUME NEW S, NEW q \in Seq(S), NEW x \in S
    PROVE  Reverse(<<x>> \o q) = Reverse(q) \o <<x>>
  <1> DEFINE e == <<x>>
             p == e \o q
             r == Reverse(q)
             n == Len(q)
  <1>0. e \in Seq(S) /\ r \in Seq(S)
    BY OneIs, ReverseIs
  <1>1. e \in Seq(S) /\ Len(e) = 1 /\ e[1] = x
    BY OneIs
  <1>2. r \in Seq(S) /\ Len(r) = n /\ \A k \in 1 .. n : r[k] = q[n - k + 1]
    BY ReverseIs
  <1> HIDE DEF e, r
  <1>3. /\ p \in Seq(S) /\ Len(p) = n + 1 /\ n \in Nat /\ p[1] = x
        /\ \A k \in 1 .. n : p[1 + k] = q[k]
    BY <1>1, ConcatIs
  <1>4. /\ r \o e \in Seq(S) /\ Len(r \o e) = n + 1
        /\ \A k \in 1 .. n : (r \o e)[k] = r[k]
        /\ (r \o e)[n + 1] = x
    <2>1. r \o e \in Seq(S) /\ Len(r \o e) = Len(r) + Len(e)
      BY <1>0, ConcatType
    <2>2. \A k \in 1 .. Len(r) : (r \o e)[k] = r[k]
      BY <1>0, ConcatLeft
    <2>3. \A k \in 1 .. Len(e) : (r \o e)[Len(r) + k] = e[k]
      BY <1>0, ConcatRight
    <2>4. 1 \in 1 .. Len(e)
      BY <1>1
    <2>5. (r \o e)[Len(r) + 1] = e[1]
      BY <2>3, <2>4
    <2> HIDE DEF p, n
    <2>6. Len(r) = n /\ Len(e) = 1 /\ e[1] = x
      BY <1>1, <1>2
    <2>7. r \o e \in Seq(S) /\ Len(r \o e) = n + 1
      BY <2>1, <2>6
    <2>8. (r \o e)[n + 1] = x
      BY <2>5, <2>6
    <2>9. \A k \in 1 .. n : (r \o e)[k] = r[k]
      BY <2>2, <2>6
    <2> QED
      BY <2>7, <2>8, <2>9
  <1> HIDE DEF p, n
  <1>5. /\ Reverse(p) \in Seq(S) /\ Len(Reverse(p)) = n + 1
        /\ \A k \in 1 .. n + 1 : Reverse(p)[k] = p[(n + 1) - k + 1]
    <2>1. p \in Seq(S)
      BY <1>3
    <2>2. /\ Reverse(p) \in Seq(S) /\ Len(Reverse(p)) = Len(p)
          /\ \A k \in 1 .. Len(p) : Reverse(p)[k] = p[Len(p) - k + 1]
      BY <2>1, ReverseIs
    <2>3. Len(p) = n + 1
      BY <1>3
    <2> QED
      BY <2>2, <2>3
  <1>6. ASSUME NEW k \in 1 .. n + 1 PROVE Reverse(p)[k] = (r \o e)[k]
    <2>1. CASE k = n + 1
      <3>1. (n + 1) - k + 1 = 1
        BY <1>3, <2>1
      <3> QED
        BY <1>3, <1>4, <1>5, <2>1, <3>1
    <2>2. CASE k # n + 1
      <3>1. k \in 1 .. n /\ n - k + 1 \in 1 .. n /\ (n + 1) - k + 1 = 1 + (n - k + 1)
        BY <1>3, <2>2
      <3>2. p[1 + (n - k + 1)] = q[n - k + 1]
        BY <1>3, <3>1
      <3>3. Reverse(p)[k] = q[n - k + 1]
        BY <1>5, <3>1, <3>2
      <3> QED
        BY <1>2, <1>4, <3>1, <3>3
    <2> QED
      BY <2>1, <2>2
  <1>7. Reverse(p) = r \o e
    BY <1>4, <1>5, <1>6, SeqEqual
  <1> QED
    BY <1>7 DEF p, r, e

\* The tail of the queue is the first to be retried.
LEMMA ReverseTail ==
    ASSUME NEW S, NEW q \in Seq(S), NEW x \in S
    PROVE  Reverse(q \o <<x>>) = <<x>> \o Reverse(q)
  <1> DEFINE e == <<x>>
             p == q \o e
             r == Reverse(q)
             n == Len(q)
  <1>0. e \in Seq(S) /\ r \in Seq(S)
    BY OneIs, ReverseIs
  <1>1. e \in Seq(S) /\ Len(e) = 1 /\ e[1] = x
    BY OneIs
  <1>2. r \in Seq(S) /\ Len(r) = n /\ \A k \in 1 .. n : r[k] = q[n - k + 1]
    BY ReverseIs
  <1> HIDE DEF e, r
  <1>3. /\ p \in Seq(S) /\ Len(p) = n + 1 /\ n \in Nat /\ p[n + 1] = x
        /\ \A k \in 1 .. n : p[k] = q[k]
    <2>1. p \in Seq(S) /\ Len(p) = Len(q) + Len(e) /\ n \in Nat
      BY <1>0, ConcatType, LenProperties
    <2>2. \A k \in 1 .. Len(q) : p[k] = q[k]
      BY <1>0, ConcatLeft
    <2>3. \A k \in 1 .. Len(e) : p[Len(q) + k] = e[k]
      BY <1>0, ConcatRight
    <2> HIDE DEF p
    <2> QED
      BY <1>1, <2>1, <2>2, <2>3
  <1>4. /\ e \o r \in Seq(S) /\ Len(e \o r) = n + 1
        /\ (e \o r)[1] = x
        /\ \A k \in 1 .. n : (e \o r)[1 + k] = r[k]
    <2>1. e \o r \in Seq(S) /\ Len(e \o r) = Len(e) + Len(r)
      BY <1>0, ConcatType
    <2>2. \A k \in 1 .. Len(r) : (e \o r)[Len(e) + k] = r[k]
      BY <1>0, ConcatRight
    <2>3. \A k \in 1 .. Len(e) : (e \o r)[k] = e[k]
      BY <1>0, ConcatLeft
    <2>4. 1 \in 1 .. Len(e)
      BY <1>1
    <2>5. (e \o r)[1] = e[1]
      BY <2>3, <2>4
    <2>6. 1 + n = n + 1
      BY <1>3
    <2> HIDE DEF p, n
    <2> QED
      BY <1>1, <1>2, <2>1, <2>2, <2>5, <2>6
  <1> HIDE DEF p, n
  <1>5. /\ Reverse(p) \in Seq(S) /\ Len(Reverse(p)) = n + 1
        /\ \A k \in 1 .. n + 1 : Reverse(p)[k] = p[(n + 1) - k + 1]
    <2>1. p \in Seq(S)
      BY <1>3
    <2>2. /\ Reverse(p) \in Seq(S) /\ Len(Reverse(p)) = Len(p)
          /\ \A k \in 1 .. Len(p) : Reverse(p)[k] = p[Len(p) - k + 1]
      BY <2>1, ReverseIs
    <2>3. Len(p) = n + 1
      BY <1>3
    <2> QED
      BY <2>2, <2>3
  <1>6. ASSUME NEW k \in 1 .. n + 1 PROVE Reverse(p)[k] = (e \o r)[k]
    <2>1. CASE k = 1
      <3>1. (n + 1) - k + 1 = n + 1
        BY <1>3, <2>1
      <3> QED
        BY <1>3, <1>4, <1>5, <2>1, <3>1
    <2>2. CASE k # 1
      <3> DEFINE m == k - 1
      <3>1. m \in 1 .. n /\ n - m + 1 \in 1 .. n /\ (n + 1) - k + 1 = n - m + 1 /\ 1 + m = k
        BY <1>3, <2>2
      <3> HIDE DEF m
      <3>2. Reverse(p)[k] = q[n - m + 1]
        BY <1>3, <1>5, <3>1
      <3> QED
        BY <1>2, <1>4, <3>1, <3>2
    <2> QED
      BY <2>1, <2>2
  <1>7. Reverse(p) = e \o r
    BY <1>4, <1>5, <1>6, SeqEqual
  <1> QED
    BY <1>7 DEF p, r, e

\* Without its middle part a sequence is thinner, and misses what was there.
LEMMA CutOut ==
    ASSUME NEW S, NEW b \in Seq(S), NEW h \in Seq(S), NEW r \in Seq(S)
    PROVE  /\ Thinned((b \o h) \o r, b \o r)
           /\ IsInjective((b \o h) \o r) =>
                 \A j \in DOMAIN h, k \in DOMAIN (b \o r) : (b \o r)[k] # h[j]
  <1> DEFINE s == (b \o h) \o r
             t == b \o r
             nb == Len(b)
             nh == Len(h)
             nr == Len(r)
             f == [k \in 1 .. nb + nr |-> IF k <= nb THEN k ELSE k + nh]
  <1>1. /\ b \o h \in Seq(S) /\ Len(b \o h) = nb + nh
        /\ nb \in Nat /\ nh \in Nat /\ DOMAIN h = 1 .. nh
        /\ \A k \in 1 .. nb : (b \o h)[k] = b[k]
        /\ \A k \in 1 .. nh : (b \o h)[nb + k] = h[k]
    BY ConcatIs
  <1>2. /\ t \in Seq(S) /\ DOMAIN t = 1 .. nb + nr /\ nr \in Nat
        /\ \A k \in 1 .. nb : t[k] = b[k]
        /\ \A k \in 1 .. nr : t[nb + k] = r[k]
    BY ConcatIs
  <1>3. /\ s \in Seq(S) /\ DOMAIN s = 1 .. (nb + nh) + nr
        /\ \A k \in 1 .. nb + nh : s[k] = (b \o h)[k]
        /\ \A k \in 1 .. nr : s[(nb + nh) + k] = r[k]
    <2> DEFINE c == b \o h
    <2>1. c \in Seq(S) /\ Len(c) = nb + nh
      BY <1>1
    <2> HIDE DEF c, nb, nh, nr
    <2>2. c \o r \in Seq(S) /\ DOMAIN (c \o r) = 1 .. Len(c) + Len(r)
      BY <2>1, ConcatType
    <2>3. \A k \in 1 .. Len(c) : (c \o r)[k] = c[k]
      BY <2>1, ConcatLeft
    <2>4. \A k \in 1 .. Len(r) : (c \o r)[Len(c) + k] = r[k]
      BY <2>1, ConcatRight
    <2> QED
      BY <2>1, <2>2, <2>3, <2>4 DEF c, nr
  <1> HIDE DEF s, t, nb, nh, nr
  <1>4. f \in [DOMAIN t -> DOMAIN s]
    BY <1>1, <1>2, <1>3
  <1>5. \A j, k \in DOMAIN t : j < k => f[j] < f[k]
    BY <1>1, <1>2
  <1>6. \A k \in DOMAIN t : f[k] \notin nb + 1 .. nb + nh
    BY <1>1, <1>2
  <1>7. ASSUME NEW k \in DOMAIN t PROVE t[k] = s[f[k]]
    <2>1. CASE k <= nb
      <3>1. k \in 1 .. nb /\ k \in 1 .. nb + nh /\ f[k] = k
        BY <1>1, <1>2, <2>1
      <3> QED
        BY <1>1, <1>2, <1>3, <3>1
    <2>2. CASE ~(k <= nb)
      <3> DEFINE m == k - nb
      <3>1. m \in 1 .. nr /\ k = nb + m /\ f[k] = (nb + nh) + m
        BY <1>1, <1>2, <2>2
      <3> HIDE DEF m, f
      <3> QED
        BY <1>2, <1>3, <3>1
    <2> QED
      BY <2>1, <2>2
  <1>8. Thinned(s, t)
    <2> HIDE DEF f
    <2> QED
      BY <1>4, <1>5, <1>7 DEF Thinned
  <1>9. ASSUME IsInjective(s), NEW j \in DOMAIN h, NEW k \in DOMAIN t PROVE t[k] # h[j]
    <2>1. nb + j \in 1 .. nb + nh /\ nb + j \in nb + 1 .. nb + nh /\ nb + j \in DOMAIN s
          /\ j \in 1 .. nh
      BY <1>1, <1>2, <1>3
    <2>2. s[nb + j] = h[j]
      BY <1>1, <1>3, <2>1
    <2> HIDE DEF f
    <2>3. f[k] \in DOMAIN s /\ f[k] # nb + j
      BY <1>4, <1>6, <2>1
    <2>4. s[f[k]] # s[nb + j]
      BY <1>9, <2>1, <2>3 DEF IsInjective
    <2> QED
      BY <1>7, <2>2, <2>4
  <1> QED
    BY <1>8, <1>9 DEF s, t

LEMMA SameThinned == ASSUME NEW s, DOMAIN s \subseteq Int PROVE Thinned(s, s)
  <1> DEFINE f == [k \in DOMAIN s |-> k]
  <1>1. f \in [DOMAIN s -> DOMAIN s] /\ \A k \in DOMAIN s : f[k] = k
    OBVIOUS
  <1> HIDE DEF f
  <1> QED
    BY <1>1 DEF Thinned

----------------------------------------------------------------------------
(* The items that wait: those of the batch, the one in hand, those of the    *)
(* queue from its tail.                                                      *)
Wait(b, h, q) == b \o h \o Reverse(q)

LEMMA WaitType ==
    ASSUME NEW S, NEW b \in Seq(S), NEW h \in Seq(S), NEW q \in Seq(S)
    PROVE  /\ Wait(b, h, q) \in Seq(S) /\ Reverse(q) \in Seq(S)
           /\ Wait(b, h, q) = b \o (h \o Reverse(q))
           /\ b \o <<>> = b /\ <<>> \o b = b /\ <<>> \in Seq(S)
  <1>1. Reverse(q) \in Seq(S)
    BY ReverseIs
  <1>2. b \o h \in Seq(S)
    BY ConcatType
  <1>3. (b \o h) \o Reverse(q) \in Seq(S)
    BY <1>1, <1>2, ConcatType
  <1>4. (b \o h) \o Reverse(q) = b \o (h \o Reverse(q))
    BY <1>1, ConcatAssociative
  <1> QED
    BY <1>1, <1>3, <1>4, ConcatEmptySeq, EmptySeq DEF Wait

\* RPop hands over the next in line.
LEMMA PopSame ==
    ASSUME NEW S, NEW b \in Seq(S), NEW q \in Seq(S), q # <<>>
    PROVE  Wait(b, <<Last(q)>>, Front(q)) = Wait(b, <<>>, q)
  <1> DEFINE u == <<Last(q)>>
             v == Reverse(Front(q))
  <1>1. Front(q) \in Seq(S) /\ Last(q) \in S
    BY FrontIs
  <1>2. q = Front(q) \o u
    BY FrontIs
  <1>3. Reverse(q) = u \o v
    BY <1>1, <1>2, ReverseTail
  <1>4. u \in Seq(S) /\ v \in Seq(S)
    BY <1>1, ReverseIs
  <1>5. Wait(b, u, Front(q)) = (b \o u) \o v
    BY DEF Wait
  <1> HIDE DEF u, v
  <1>6. (b \o u) \o v = b \o (u \o v)
    BY <1>4, ConcatAssociative
  <1>7. b \o <<>> = b
    BY ConcatEmptySeq
  <1>8. Wait(b, u, Front(q)) = Wait(b, <<>>, q)
    BY <1>3, <1>5, <1>6, <1>7 DEF Wait
  <1> QED
    BY <1>8 DEF u

\* An item that goes to the batch keeps its place.
LEMMA RequeueSame ==
    ASSUME NEW S, NEW b \in Seq(S), NEW q \in Seq(S), NEW x \in S
    PROVE  Wait(Append(b, x), <<>>, q) = Wait(b, <<x>>, q)
  <1>1. Append(b, x) = b \o <<x>> /\ Append(b, x) \in Seq(S)
    BY AppendIs
  <1>2. Append(b, x) \o <<>> = Append(b, x)
    BY <1>1, ConcatEmptySeq
  <1> QED
    BY <1>1, <1>2 DEF Wait

\* So does the last of the batch when RPush returns it to the queue.
LEMMA BackSame ==
    ASSUME NEW S, NEW b \in Seq(S), NEW q \in Seq(S), b # <<>>
    PROVE  Wait(Front(b), <<>>, Append(q, Last(b))) = Wait(b, <<>>, q)
  <1> DEFINE f == Front(b)
             u == <<Last(b)>>
             r == Reverse(q)
  <1>1. f \in Seq(S) /\ Last(b) \in S
    BY FrontIs
  <1>2. b = f \o u
    BY FrontIs
  <1>3. Append(q, Last(b)) = q \o u
    BY <1>1, AppendIs
  <1>4. Reverse(Append(q, Last(b))) = u \o r
    BY <1>1, <1>3, ReverseTail
  <1>5. u \in Seq(S) /\ r \in Seq(S)
    BY <1>1, ReverseIs
  <1>6. f \o <<>> = f /\ b \o <<>> = b
    BY <1>1, ConcatEmptySeq
  <1>7. Wait(f, <<>>, Append(q, Last(b))) = f \o (u \o r)
    BY <1>4, <1>6 DEF Wait
  <1>8. Wait(b, <<>>, q) = b \o r
    BY <1>6 DEF Wait
  <1> HIDE DEF f, u, r
  <1>9. (f \o u) \o r = f \o (u \o r)
    BY <1>1, <1>5, ConcatAssociative
  <1>10. Wait(f, <<>>, Append(q, Last(b))) = Wait(b, <<>>, q)
    BY <1>2, <1>7, <1>8, <1>9
  <1> QED
    BY <1>10 DEF f

\* LPush: a new item waits behind all others.
LEMMA PushLast ==
    ASSUME NEW S, NEW b \in Seq(S), NEW h \in Seq(S), NEW q \in Seq(S), NEW x \in S
    PROVE  Wait(b, h, <<x>> \o q) = Append(Wait(b, h, q), x)
  <1> DEFINE c == b \o h
             r == Reverse(q)
  <1>1. c \in Seq(S) /\ r \in Seq(S) /\ <<x>> \in Seq(S)
    BY ConcatType, ReverseIs
  <1>2. Reverse(<<x>> \o q) = r \o <<x>>
    BY ReversePush
  <1> HIDE DEF r, c
  <1>3. c \o (r \o <<x>>) = (c \o r) \o <<x>>
    BY <1>1, ConcatAssociative
  <1>4. c \o r \in Seq(S)
    BY <1>1, ConcatType
  <1>5. Append(c \o r, x) = (c \o r) \o <<x>>
    BY <1>4, AppendIs
  <1> QED
    BY <1>2, <1>3, <1>5 DEF Wait, c, r

\* An item that is dropped is gone, and the others keep their order.
LEMMA DropThins ==
    ASSUME NEW S, NEW b \in Seq(S), NEW q \in Seq(S), NEW x \in S
    PROVE  /\ Thinned(Wait(b, <<x>>, q), Wait(b, <<>>, q))
           /\ IsInjective(Wait(b, <<x>>, q)) =>
                 \A k \in DOMAIN Wait(b, <<>>, q) : Wait(b, <<>>, q)[k] # x
  <1>1. b \o <<>> = b
    BY ConcatEmptySeq
  <1>2. Reverse(q) \in Seq(S)
    BY ReverseIs
  <1>3. <<x>> \in Seq(S) /\ 1 \in DOMAIN <<x>> /\ <<x>>[1] = x
    OBVIOUS
  <1>4. Thinned((b \o <<x>>) \o Reverse(q), b \o Reverse(q))
    BY <1>2, <1>3, CutOut
  <1>5. IsInjective((b \o <<x>>) \o Reverse(q)) =>
           \A j \in DOMAIN <<x>>, k \in DOMAIN (b \o Reverse(q)) :
               (b \o Reverse(q))[k] # <<x>>[j]
    BY <1>2, <1>3, CutOut
  <1> QED
    BY <1>1, <1>3, <1>4, <1>5 DEF Wait

\* So are an item whose RPush fails, and a batch and the item in hand in a panic.
LEMMA LoseThins ==
    ASSUME NEW S, NEW b \in Seq(S), NEW q \in Seq(S), b # <<>>
    PROVE  Thinned(Wait(b, <<>>, q), Wait(Front(b), <<>>, q))
  <1> DEFINE f == Front(b)
             x == Last(b)
  <1>1. f \in Seq(S) /\ x \in S
    BY FrontIs
  <1>2. b = f \o <<x>>
    BY FrontIs
  <1> HIDE DEF f, x
  <1>3. Reverse(q) \in Seq(S) /\ <<x>> \in Seq(S)
    BY <1>1, ReverseIs
  <1>4. Thinned((f \o <<x>>) \o Reverse(q), f \o Reverse(q))
    BY <1>1, <1>3, CutOut
  <1>5. f \o <<>> = f /\ b \o <<>> = b
    BY <1>1, ConcatEmptySeq
  <1>6. Thinned(Wait(b, <<>>, q), Wait(f, <<>>, q))
    BY <1>2, <1>4, <1>5 DEF Wait
  <1> QED
    BY <1>6 DEF f

LEMMA PanicThins ==
    ASSUME NEW S, NEW b \in Seq(S), NEW h \in Seq(S), NEW q \in Seq(S)
    PROVE  /\ Thinned(Wait(b, h, q), Wait(<<>>, <<>>, q))
           /\ Wait(<<>>, <<>>, q) = Reverse(q)
  <1> DEFINE c == b \o h
             r == Reverse(q)
             e == <<>>
  <1>1. c \in Seq(S) /\ r \in Seq(S) /\ e \in Seq(S)
    BY ConcatType, ReverseIs, EmptySeq
  <1>2. Wait(b, h, q) = c \o r
    BY DEF Wait
  <1> HIDE DEF c, r
  <1>3. e \o c = c /\ e \o r = r /\ e \o e = e
    BY <1>1, ConcatEmptySeq
  <1>4. Wait(e, e, q) = r
    BY <1>3 DEF Wait, r
  <1> HIDE DEF e
  <1>5. Thinned((e \o c) \o r, e \o r)
    BY <1>1, CutOut
  <1>6. Thinned(Wait(b, h, q), Wait(e, e, q)) /\ Wait(e, e, q) = r
    BY <1>2, <1>3, <1>4, <1>5
  <1> QED
    BY <1>6 DEF e, r

\* The elements of the lists.
LEMMA RangeReverse ==
    ASSUME NEW S, NEW q \in Seq(S)
    PROVE  Range(Reverse(q)) = Range(q) /\ (IsInjective(Reverse(q)) <=> IsInjective(q))
  <1> DEFINE r == Reverse(q)
             n == Len(q)
  <1>1. /\ DOMAIN r = 1 .. n /\ DOMAIN q = 1 .. n /\ n \in Nat
        /\ \A k \in 1 .. n : r[k] = q[n - k + 1]
    BY ReverseIs, LenProperties
  <1> HIDE DEF r, n
  <1>2. \A k \in 1 .. n : n - k + 1 \in 1 .. n /\ n - (n - k + 1) + 1 = k
    BY <1>1
  <1>3. \A k \in 1 .. n : q[k] = r[n - k + 1]
    BY <1>1, <1>2
  <1>4. Range(r) = Range(q)
    BY <1>1, <1>2, <1>3 DEF Range
  <1>5. ASSUME IsInjective(q) PROVE IsInjective(r)
    <2> SUFFICES ASSUME NEW j \in 1 .. n, NEW k \in 1 .. n, r[j] = r[k] PROVE j = k
      BY <1>1 DEF IsInjective
    <2>1. n - j + 1 = n - k + 1
      BY <1>1, <1>2, <1>5 DEF IsInjective
    <2> QED
      BY <1>1, <2>1
  <1>6. ASSUME IsInjective(r) PROVE IsInjective(q)
    <2> SUFFICES ASSUME NEW j \in 1 .. n, NEW k \in 1 .. n, q[j] = q[k] PROVE j = k
      BY <1>1 DEF IsInjective
    <2>1. n - j + 1 = n - k + 1
      BY <1>1, <1>2, <1>3, <1>6 DEF IsInjective
    <2> QED
      BY <1>1, <2>1
  <1> QED
    BY <1>4, <1>5, <1>6 DEF r

LEMMA RangeWait ==
    ASSUME NEW S, NEW b \in Seq(S), NEW h \in Seq(S), NEW q \in Seq(S)
    PROVE  Range(Wait(b, h, q)) = Range(b) \cup Range(h) \cup Range(q)
  <1> DEFINE c == b \o h
             r == Reverse(q)
  <1>1. c \in Seq(S) /\ r \in Seq(S)
    BY ConcatType, ReverseIs
  <1>2. Range(c) = Range(b) \cup Range(h) /\ Range(r) = Range(q)
    BY RangeConcatenation, RangeReverse
  <1>3. Wait(b, h, q) = c \o r
    BY DEF Wait
  <1> HIDE DEF c, r
  <1>4. Range(c \o r) = Range(c) \cup Range(r)
    BY <1>1, RangeConcatenation
  <1> QED
    BY <1>2, <1>3, <1>4

LEMMA RangePush ==
    ASSUME NEW S, NEW q \in Seq(S), NEW x \in S
    PROVE  Range(<<x>> \o q) = Range(q) \cup {x}
  <1> DEFINE e == <<x>>
  <1>1. e \in Seq(S) /\ Range(e) = {x}
    BY DEF Range
  <1> HIDE DEF e
  <1>2. Range(e \o q) = Range(e) \cup Range(q)
    BY <1>1, RangeConcatenation
  <1>3. Range(e) \cup Range(q) = Range(q) \cup {x}
    BY <1>1
  <1>4. Range(e \o q) = Range(q) \cup {x}
    BY <1>2, <1>3
  <1> QED
    BY <1>4 DEF e

LEMMA RangeAppend ==
    ASSUME NEW S, NEW q \in Seq(S), NEW x \in S
    PROVE  Range(Append(q, x)) = Range(q) \cup {x}
  <1> DEFINE e == <<x>>
  <1>1. e \in Seq(S) /\ Range(e) = {x} /\ Append(q, x) = q \o e
    BY AppendIs DEF Range
  <1> HIDE DEF e
  <1>2. Range(q \o e) = Range(q) \cup Range(e)
    BY <1>1, RangeConcatenation
  <1> QED
    BY <1>1, <1>2

\* An order kept by a sequence is kept by a thinner one.
InOrder(s, t) == \A j, k \in DOMAIN s : \A m, n \in DOMAIN t :
                    j < k /\ s[j] = t[m] /\ s[k] = t[n] => m < n

LEMMA ThinnedKeeps ==
    ASSUME NEW s, NEW t, NEW u, Thinned(s, t), IsInjective(s), InOrder(s, u),
           DOMAIN s \subseteq Int, DOMAIN t \subseteq Int
    PROVE  Range(t) \subseteq Range(s) /\ IsInjective(t) /\ InOrder(t, u)
  <1> PICK f \in [DOMAIN t -> DOMAIN s] :
               /\ \A j, k \in DOMAIN t : j < k => f[j] < f[k]
               /\ \A k \in DOMAIN t : t[k] = s[f[k]]
    BY DEF Thinned
  <1>1. Range(t) \subseteq Range(s)
    BY DEF Range
  <1>2. ASSUME NEW j \in DOMAIN t, NEW k \in DOMAIN t, t[j] = t[k] PROVE j = k
    <2>1. f[j] = f[k]
      BY <1>2 DEF IsInjective
    <2>2. ~(j < k) /\ ~(k < j)
      BY <2>1
    <2> QED
      BY <2>2
  <1>3. ASSUME NEW j \in DOMAIN t, NEW k \in DOMAIN t, NEW m \in DOMAIN u, NEW n \in DOMAIN u,
               j < k, t[j] = u[m], t[k] = u[n]
        PROVE  m < n
    <2>1. f[j] \in DOMAIN s /\ f[k] \in DOMAIN s /\ f[j] < f[k]
      BY <1>3
    <2>2. s[f[j]] = u[m] /\ s[f[k]] = u[n]
      BY <1>3
    <2> QED
      BY <2>1, <2>2 DEF InOrder
  <1> QED
    BY <1>1, <1>2, <1>3 DEF IsInjective, InOrder

\* One that is new to both comes last in both.
LEMMA AppendKeeps ==
    ASSUME NEW S, NEW s \in Seq(S), NEW t \in Seq(S), NEW x \in S,
           IsInjective(s), IsInjective(t), InOrder(s, t), Range(s) \subseteq Range(t),
           x \notin Range(t)
    PROVE  /\ IsInjective(Append(s, x)) /\ IsInjective(Append(t, x))
           /\ InOrder(Append(s, x), Append(t, x))
           /\ Range(Append(s, x)) \subseteq Range(Append(t, x))
  <1> DEFINE sx == Append(s, x)
             tx == Append(t, x)
             ls == Len(s)
             lt == Len(t)
  <1>1. DOMAIN s = 1 .. ls /\ ls \in Nat /\ DOMAIN t = 1 .. lt /\ lt \in Nat
    BY LenProperties
  <1>2. ASSUME NEW q \in Seq(S)
        PROVE  /\ DOMAIN Append(q, x) = 1 .. Len(q) + 1
               /\ Append(q, x)[Len(q) + 1] = x
               /\ \A k \in 1 .. Len(q) : Append(q, x)[k] = q[k]
    BY AppendProperties, LenProperties
  <1>3. x \notin Range(s)
    OBVIOUS
  <1>4. /\ DOMAIN sx = 1 .. ls + 1 /\ sx[ls + 1] = x /\ \A k \in 1 .. ls : sx[k] = s[k]
        /\ DOMAIN tx = 1 .. lt + 1 /\ tx[lt + 1] = x /\ \A k \in 1 .. lt : tx[k] = t[k]
    BY <1>2
  <1>5. Range(sx) = Range(s) \cup {x} /\ Range(tx) = Range(t) \cup {x}
    BY RangeAppend
  <1>6. Range(sx) \subseteq Range(tx)
    BY <1>5
  <1> HIDE DEF sx, tx, ls, lt
  <1>7. /\ \A k \in 1 .. ls : sx[k] = s[k] /\ sx[k] # x
        /\ \A k \in 1 .. lt : tx[k] = t[k] /\ tx[k] # x
    BY <1>1, <1>3, <1>4 DEF Range
  <1>8. /\ \A k \in 1 .. ls + 1 : k \in 1 .. ls \/ k = ls + 1
        /\ \A k \in 1 .. lt + 1 : k \in 1 .. lt \/ k = lt + 1
    BY <1>1
  <1>9. IsInjective(sx)
    <2> SUFFICES ASSUME NEW j \in 1 .. ls + 1, NEW k \in 1 .. ls + 1, sx[j] = sx[k]
                 PROVE  j = k
      BY <1>4 DEF IsInjective
    <2>1. CASE j \in 1 .. ls /\ k \in 1 .. ls
      BY <1>1, <1>7, <2>1 DEF IsInjective
    <2> QED
      BY <1>4, <1>7, <1>8, <2>1
  <1>10. IsInjective(tx)
    <2> SUFFICES ASSUME NEW j \in 1 .. lt + 1, NEW k \in 1 .. lt + 1, tx[j] = tx[k]
                 PROVE  j = k
      BY <1>4 DEF IsInjective
    <2>1. CASE j \in 1 .. lt /\ k \in 1 .. lt
      BY <1>1, <1>7, <2>1 DEF IsInjective
    <2> QED
      BY <1>4, <1>7, <1>8, <2>1
  <1>11. InOrder(sx, tx)
    <2> SUFFICES ASSUME NEW j \in 1 .. ls + 1, NEW k \in 1 .. ls + 1, NEW m \in 1 .. lt + 1,
                        NEW n \in 1 .. lt + 1, j < k, sx[j] = tx[m], sx[k] = tx[n]
                 PROVE  m < n
      BY <1>4 DEF InOrder
    <2>1. j \in 1 .. ls
      BY <1>1
    <2>2. m \in 1 .. lt
      BY <1>4, <1>7, <1>8, <2>1
    <2>3. CASE k = ls + 1
      <3>1. n = lt + 1
        BY <1>4, <1>7, <1>8, <2>3
      <3> QED
        BY <1>1, <2>2, <3>1
    <2>4. CASE k \in 1 .. ls
      <3>1. n \in 1 .. lt
        BY <1>4, <1>7, <1>8, <2>4
      <3>2. s[j] = t[m] /\ s[k] = t[n]
        BY <1>7, <2>1, <2>2, <2>4, <3>1
      <3> QED
        BY <1>1, <2>1, <2>2, <2>4, <3>1, <3>2 DEF InOrder
    <2> QED
      BY <1>8, <2>3, <2>4
  <1> QED
    BY <1>6, <1>9, <1>10, <1>11 DEF sx, tx

LEMMA TailIs ==
    ASSUME NEW S, NEW q \in Seq(S), q # <<>>
    PROVE  /\ Head(q) \in S /\ Tail(q) \in Seq(S)
           /\ Thinned(q, Tail(q))
           /\ Range(Tail(q)) \cup {Head(q)} = Range(q)
           /\ IsInjective(q) => Head(q) \notin Range(Tail(q))
  <1> DEFINE n == Len(q)
             t == Tail(q)
             x == Head(q)
  <1>1. /\ x \in S /\ t \in Seq(S) /\ Len(t) = n - 1 /\ \A k \in 1 .. Len(t) : t[k] = q[k + 1]
        /\ x = q[1]
    BY HeadTailProperties
  <1>2. n \in Nat /\ n # 0 /\ DOMAIN q = 1 .. n /\ DOMAIN t = 1 .. Len(t)
    BY <1>1, LenProperties, EmptySeq
  <1> HIDE DEF n, t, x
  <1>3. DOMAIN t = 1 .. n - 1 /\ \A k \in 1 .. n - 1 : t[k] = q[k + 1] /\ k + 1 \in 1 .. n
    BY <1>1, <1>2
  <1>4. Thinned(q, t)
    <2> DEFINE f == [k \in 1 .. n - 1 |-> k + 1]
    <2>1. f \in [DOMAIN t -> DOMAIN q]
      BY <1>2, <1>3
    <2>2. \A j, k \in DOMAIN t : j < k => f[j] < f[k]
      BY <1>2, <1>3
    <2>3. \A k \in DOMAIN t : t[k] = q[f[k]]
      BY <1>3
    <2> HIDE DEF f
    <2> QED
      BY <2>1, <2>2, <2>3 DEF Thinned
  <1>5. Range(t) \cup {x} = Range(q)
    <2>1. ASSUME NEW k \in 1 .. n PROVE q[k] \in Range(t) \cup {x}
      <3>1. CASE k = 1
        BY <1>1, <3>1
      <3>2. CASE k # 1
        <4>1. k - 1 \in 1 .. n - 1 /\ (k - 1) + 1 = k
          BY <1>2, <3>2
        <4>2. t[k - 1] = q[k]
          BY <1>3, <4>1
        <4> QED
          BY <1>3, <4>1, <4>2 DEF Range
      <3> QED
        BY <3>1, <3>2
    <2>2. 1 \in 1 .. n
      BY <1>2
    <2>3. Range(q) \subseteq Range(t) \cup {x}
      BY <1>2, <2>1 DEF Range
    <2>4. x \in Range(q)
      BY <1>1, <1>2, <2>2 DEF Range
    <2>5. Range(t) \subseteq Range(q)
      BY <1>2, <1>3 DEF Range
    <2> QED
      BY <2>3, <2>4, <2>5
  <1>6. ASSUME IsInjective(q) PROVE x \notin Range(t)
    <2> SUFFICES ASSUME NEW k \in 1 .. n - 1, t[k] = x PROVE FALSE
      BY <1>3 DEF Range
    <2>1. q[k + 1] = q[1] /\ k + 1 \in 1 .. n /\ 1 \in 1 .. n /\ k + 1 # 1
      BY <1>1, <1>2, <1>3
    <2> QED
      BY <1>2, <1>6, <2>1 DEF IsInjective
  <1> QED
    BY <1>1, <1>4, <1>5, <1>6 DEF t, x

LEMMA FrontThins ==
    ASSUME NEW S, NEW q \in Seq(S), q # <<>>
    PROVE  Front(q) \in Seq(S) /\ Thinned(q, Front(q))
  <1> DEFINE n == Len(q)
             t == Front(q)
  <1>1. t \in Seq(S) /\ Len(t) = n - 1 /\ \A k \in 1 .. n - 1 : t[k] = q[k]
    BY FrontIs
  <1>2. n \in Nat /\ DOMAIN q = 1 .. n /\ DOMAIN t = 1 .. Len(t)
    BY <1>1, LenProperties
  <1> HIDE DEF n, t
  <1> DEFINE f == [k \in 1 .. n - 1 |-> k]
  <1>3. DOMAIN t = 1 .. n - 1 /\ \A k \in 1 .. n - 1 : k \in 1 .. n
    BY <1>1, <1>2
  <1>4. f \in [DOMAIN t -> DOMAIN q]
    BY <1>2, <1>3
  <1>5. \A j, k \in DOMAIN t : j < k => f[j] < f[k]
    BY <1>3
  <1>6. \A k \in DOMAIN t : t[k] = q[f[k]]
    BY <1>1, <1>3
  <1> HIDE DEF f
  <1>7. Thinned(q, t)
    BY <1>4, <1>5, <1>6 DEF Thinned
  <1> QED
    BY <1>1, <1>7 DEF t

\* A set in some order: its elements, each of them once.
LEMMA OrderIs ==
    ASSUME NEW S, NEW A, A \subseteq S, IsFiniteSet(A), NEW q \in SetToSeqs(A)
    PROVE  q \in Seq(A) /\ IsInjective(q) /\ Range(q) \subseteq A
  <1> DEFINE n == Cardinality(A)
  <1>1. n \in Nat
    BY FS_CardinalityType
  <1>2. q \in [1 .. n -> A] /\ \A i, j \in 1 .. n : i # j => q[i] # q[j]
    BY DEF SetToSeqs
  <1> HIDE DEF n
  <1>3. DOMAIN q = 1 .. n /\ q \in Seq(A)
    BY <1>1, <1>2
  <1> QED
    BY <1>2, <1>3 DEF IsInjective, Range

----------------------------------------------------------------------------
(* Where things are.  What moves through the list, the worker and the        *)
(* requests is unlocked already, so no table can name an item that is not.   *)

Workers == [pc : WorkerPCs, item : Items \cup {NoItem}]
Requests == [pc : RequestPCs, item : Items \cup {NoItem}]
ItemRows == [count : 0 .. MaxRetries, state : RowStates]

\* The worker holds an item; a request has unlocked its item.
Holding == {"steam", "count", "mark", "resolve"}
Way == {"steam", "mark", "push"}
Begun(p) == req[p].pc \in Way \cup {"row"}

TablesOK ==
    /\ unlocked \subseteq Items /\ synced \subseteq unlocked /\ steam \subseteq Items
    /\ rows \in [Items -> ItemRows]
    /\ \A i \in Items : rows[i].state # "absent" => i \in unlocked

ListOK ==
    /\ queue \in Seq(unlocked) /\ batch \in Seq(unlocked) /\ line \in Seq(unlocked)
    /\ worker \in Workers
    /\ IF worker.pc \in Holding THEN worker.item \in unlocked ELSE worker.item = NoItem
    /\ worker.pc \in {"query", "idle"} => batch = <<>>

ReqsOK ==
    /\ req \in [Procs -> Requests]
    /\ \A p \in Procs : ~At(p, "idle") => ~Booting /\ req[p].item \in Items
    /\ \A p \in Procs : Begun(p) => req[p].item \in unlocked

EndOK == draining \in BOOLEAN /\ faults \in 0 .. MaxFaults

Placed == TablesOK /\ ListOK /\ ReqsOK /\ EndOK

LEMMA WorkerMoves ==
    ASSUME worker \in Workers, NEW pc \in WorkerPCs, WorkerTo(pc)
    PROVE  worker' \in Workers /\ worker'.pc = pc /\ worker'.item = worker.item
  BY DEF WorkerTo, Workers

LEMMA Frees ==
    NextItem => worker' \in Workers /\ worker'.pc = "pop" /\ worker'.item = NoItem
  BY DEF NextItem, Workers, WorkerPCs

LEMMA Retires ==
    /\ Idle.pc = "idle" /\ Idle.item = NoItem /\ Idle \in Workers /\ Idle \in Requests
    /\ LET w == [Idle EXCEPT !.pc = "query"]
       IN  w \in Workers /\ w.pc = "query" /\ w.item = NoItem
  BY DEF Idle, Workers, WorkerPCs, Requests, RequestPCs

LEMMA RequestMoves ==
    ASSUME req \in [Procs -> Requests], NEW p \in Procs, NEW r \in Requests,
           req' = [req EXCEPT ![p] = r]
    PROVE  /\ req' \in [Procs -> Requests] /\ req'[p] = r
           /\ \A q \in Procs \ {p} : req'[q] = req[q]
  OBVIOUS

LEMMA Goes ==
    ASSUME req \in [Procs -> Requests], NEW p \in Procs, NEW pc \in RequestPCs, Goto(p, pc)
    PROVE  /\ req' \in [Procs -> Requests] /\ req'[p].pc = pc /\ req'[p].item = req[p].item
           /\ \A q \in Procs \ {p} : req'[q] = req[q]
  <1> DEFINE r == [req[p] EXCEPT !.pc = pc]
  <1>1. req[p] \in Requests
    OBVIOUS
  <1>2. r \in Requests /\ r.pc = pc /\ r.item = req[p].item
    BY <1>1 DEF Requests
  <1>3. req' = [req EXCEPT ![p] = r]
    BY DEF Goto
  <1> HIDE DEF r
  <1> QED
    BY <1>2, <1>3, RequestMoves

LEMMA Ends ==
    ASSUME req \in [Procs -> Requests], NEW p \in Procs, Done(p)
    PROVE  /\ req' \in [Procs -> Requests] /\ req'[p].pc = "idle"
           /\ \A q \in Procs \ {p} : req'[q] = req[q]
  BY Retires, RequestMoves DEF Done

LEMMA TablesKept ==
    ASSUME Placed, [Next]_vars
    PROVE  TablesOK' /\ unlocked \subseteq unlocked'
  <1> USE DEF Placed, TablesOK, tables
  <1>1. CASE UNCHANGED <<tables, steam>>
    BY <1>1
  <1>2. ASSUME NEW p \in Procs, InsertUnlock(p) PROVE TablesOK' /\ unlocked \subseteq unlocked'
    BY <1>2 DEF InsertUnlock, ReqsOK, At
  <1>3. ASSUME NEW p \in Procs, UnlockSteam(p) PROVE TablesOK' /\ unlocked \subseteq unlocked'
    BY <1>3 DEF UnlockSteam, ReqsOK, At
  <1>4. ASSUME NEW p \in Procs, UnlockMark(p) PROVE TablesOK' /\ unlocked \subseteq unlocked'
    BY <1>4 DEF UnlockMark, ReqsOK, At, Begun, Way
  <1>5. ASSUME NEW p \in Procs, InsertRow(p) PROVE TablesOK' /\ unlocked \subseteq unlocked'
    <2>1. [count |-> 0, state |-> "open"] \in ItemRows
      BY RetryAssumption DEF ItemRows, RowStates
    <2>2. req[p].item \in unlocked
      BY <1>5 DEF InsertRow, ReqsOK, At, Begun, Way
    <2> QED
      BY <1>5, <2>1, <2>2 DEF InsertRow
  <1>6. CASE WorkerSteam
    BY <1>6 DEF WorkerSteam, ListOK, Working, Holding
  <1>7. CASE WorkerCount
    <2>1. worker.item \in unlocked
      BY <1>7 DEF WorkerCount, ListOK, Working, Holding
    <2> DEFINE i == worker.item
               r == [rows[i] EXCEPT !.count = @ + 1]
    <2>2. CASE rows' = rows
      BY <1>7, <2>2 DEF WorkerCount
    <2>3. CASE Pending(i) /\ rows' = [rows EXCEPT ![i].count = @ + 1]
      <3>1. rows[i] \in ItemRows /\ rows[i].count < MaxRetries
        BY <2>1, <2>3 DEF Pending
      <3>2. r \in ItemRows /\ r.state = rows[i].state
        BY <3>1, RetryAssumption DEF ItemRows
      <3>3. rows' = [rows EXCEPT ![i] = r]
        BY <2>3
      <3> HIDE DEF i, r
      <3> QED
        BY <1>7, <2>1, <3>2, <3>3 DEF WorkerCount, i
    <2> QED
      BY <1>7, <2>2, <2>3 DEF WorkerCount
  <1>8. CASE WorkerMark
    BY <1>8 DEF WorkerMark, ListOK, Working, Holding
  <1>9. CASE WorkerResolve
    <2>1. worker.item \in unlocked
      BY <1>9 DEF WorkerResolve, ListOK, Working, Holding
    <2> DEFINE i == worker.item
               r == [rows[i] EXCEPT !.state = IF @ = "open" THEN "resolved" ELSE @]
    <2>2. r \in ItemRows /\ (r.state # "absent" => rows[i].state # "absent")
      BY <2>1 DEF ItemRows, RowStates
    <2>3. rows' = [rows EXCEPT ![i] = r] \/ rows' = rows
      BY <1>9 DEF WorkerResolve
    <2> HIDE DEF i, r
    <2> QED
      BY <1>9, <2>1, <2>2, <2>3 DEF WorkerResolve, i
  <1> QED
    BY <1>1, <1>2, <1>3, <1>4, <1>5, <1>6, <1>7, <1>8, <1>9
       DEF vars, Next, UnlockStep, WorkerStep, BootStep, UnlockCheck, PushItem, UnlockFail,
           WorkerTick, WorkerPop, WorkerRequeue, WorkerPanic, BootQuery, BootDrain, BootLoad,
           Signal, Exit, Crash, Restart

LEMMA ListGrows ==
    ASSUME ListOK, unlocked \subseteq unlocked'
    PROVE  /\ queue \in Seq(unlocked') /\ batch \in Seq(unlocked') /\ line \in Seq(unlocked')
           /\ worker.pc \in Holding => worker.item \in unlocked'
  BY SeqMonotonic DEF ListOK

LEMMA ListKept ==
    ASSUME Placed, [Next]_vars
    PROVE  ListOK'
  <1> DEFINE U == unlocked'
  <1>1. unlocked \subseteq U /\ U \subseteq Items /\ <<>> \in Seq(U)
    BY TablesKept, EmptySeq DEF TablesOK
  <1>2. queue \in Seq(U) /\ batch \in Seq(U) /\ line \in Seq(U)
    BY <1>1, ListGrows DEF Placed
  <1>3. worker \in Workers /\ (worker.pc \in Holding => worker.item \in U)
    BY <1>1, ListGrows DEF Placed, ListOK
  <1>4. /\ worker.pc \notin Holding => worker.item = NoItem
        /\ worker.pc \in {"query", "idle"} => batch = <<>>
    BY DEF Placed, ListOK
  <1> HIDE DEF U
  <1>5. CASE UNCHANGED <<queue, worker, batch, line>>
    BY <1>2, <1>3, <1>4, <1>5 DEF ListOK, U
  <1>6. ASSUME NEW p \in Procs, PushItem(p) PROVE ListOK'
    <2>1. req[p].item \in U
      BY <1>1, <1>6 DEF PushItem, Placed, ReqsOK, At, Begun, Way
    <2>2. <<req[p].item>> \o queue \in Seq(U)
      BY <1>2, <2>1, OneIs, ConcatType
    <2>3. Append(line, req[p].item) \in Seq(U)
      BY <1>2, <2>1, AppendIs
    <2>4. queue' \in Seq(U) /\ line' \in Seq(U) /\ UNCHANGED <<worker, batch>>
      BY <1>2, <1>6, <2>2, <2>3 DEF PushItem
    <2> QED
      BY <1>2, <1>3, <1>4, <2>4 DEF ListOK, U
  <1>7. CASE WorkerTick
    <2>1. worker' \in Workers /\ worker'.pc = "pop" /\ worker'.item = NoItem
      BY <1>3, <1>4, <1>7, WorkerMoves DEF WorkerTick, WorkerPCs, Working, Holding
    <2>2. UNCHANGED <<queue, batch, line>>
      BY <1>7 DEF WorkerTick
    <2> QED
      BY <1>2, <2>1, <2>2 DEF ListOK, U, Holding
  <1>8. CASE WorkerPop
    <2>1. CASE queue # <<>> /\ worker' = [pc |-> "steam", item |-> Last(queue)] /\ queue' = Front(queue)
      <3>1. Last(queue) \in U /\ Front(queue) \in Seq(U)
        BY <1>2, <2>1, FrontIs
      <3>2. worker' \in Workers /\ worker'.pc = "steam" /\ worker'.item = Last(queue)
        BY <1>1, <2>1, <3>1 DEF Workers, WorkerPCs
      <3>3. UNCHANGED <<batch, line>>
        BY <1>8 DEF WorkerPop
      <3> QED
        BY <1>2, <2>1, <3>1, <3>2, <3>3 DEF ListOK, U, Holding
    <2>2. CASE WorkerTo("requeue") /\ UNCHANGED queue
      <3>1. worker' \in Workers /\ worker'.pc = "requeue" /\ worker'.item = NoItem
        BY <1>3, <1>4, <1>8, <2>2, WorkerMoves DEF WorkerPop, WorkerPCs, Working, Holding
      <3>2. UNCHANGED <<batch, line>>
        BY <1>8 DEF WorkerPop
      <3> QED
        BY <1>2, <2>2, <3>1, <3>2 DEF ListOK, U, Holding
    <2> QED
      BY <1>8, <2>1, <2>2 DEF WorkerPop
  <1>9. CASE worker.pc \in Holding /\ Requeue /\ UNCHANGED <<queue, line>>
    <2>1. Append(batch, worker.item) \in Seq(U)
      BY <1>2, <1>3, <1>9, AppendIs
    <2> QED
      BY <1>2, <1>9, <2>1, Frees DEF ListOK, U, Holding, Requeue
  <1>10. CASE NextItem /\ UNCHANGED <<queue, batch, line>>
    BY <1>2, <1>10, Frees DEF ListOK, U, Holding
  <1>11. CASE /\ worker.pc \in Holding /\ UNCHANGED <<queue, batch, line>>
              /\ \E pc \in Holding : WorkerTo(pc)
    <2> PICK pc \in Holding : WorkerTo(pc)
      BY <1>11
    <2>1. pc \in WorkerPCs
      BY DEF Holding, WorkerPCs
    <2>2. worker' \in Workers /\ worker'.pc = pc /\ worker'.item = worker.item
      BY <1>3, <2>1, WorkerMoves
    <2> QED
      BY <1>2, <1>3, <1>11, <2>2 DEF ListOK, U, Holding
  <1>12. CASE WorkerRequeue
    <2>1. CASE batch = <<>> /\ WorkerTo("idle") /\ UNCHANGED <<queue, batch>>
      <3>1. worker' \in Workers /\ worker'.pc = "idle" /\ worker'.item = NoItem
        BY <1>3, <1>4, <1>12, <2>1, WorkerMoves DEF WorkerRequeue, WorkerPCs, Working, Holding
      <3>2. UNCHANGED line
        BY <1>12 DEF WorkerRequeue
      <3> QED
        BY <1>2, <2>1, <3>1, <3>2 DEF ListOK, U, Holding
    <2>2. CASE /\ batch # <<>> /\ batch' = Front(batch) /\ UNCHANGED worker
               /\ queue' = Append(queue, Last(batch)) \/ queue' = queue
      <3>1. Front(batch) \in Seq(U) /\ Last(batch) \in U
        BY <1>2, <2>2, FrontIs
      <3>2. Append(queue, Last(batch)) \in Seq(U)
        BY <1>2, <3>1, AppendIs
      <3>3. UNCHANGED line /\ worker.pc = "requeue"
        BY <1>12 DEF WorkerRequeue, Working
      <3> QED
        BY <1>2, <1>3, <1>4, <2>2, <3>1, <3>2, <3>3 DEF ListOK, U, Holding
    <2> QED
      BY <1>12, <2>1, <2>2 DEF WorkerRequeue
  <1>13. CASE WorkerPanic
    BY <1>1, <1>2, <1>13, Retires DEF WorkerPanic, ListOK, U, Holding
  <1>14. CASE Booting /\ BootGivesUp
    <2>1. worker' \in Workers /\ worker'.pc = "idle" /\ worker'.item = NoItem
      BY <1>3, <1>4, <1>14, WorkerMoves DEF BootGivesUp, WorkerPCs, Booting, Holding
    <2>2. Reverse(queue) \in Seq(U)
      BY <1>2, ReverseIs
    <2> QED
      BY <1>1, <1>2, <1>14, <2>1, <2>2 DEF BootGivesUp, ListOK, U, Holding
  <1>15. CASE BootQuery
    <2>1. CASE (\E order \in SetToSeqs({i \in Items : Pending(i)}) : batch' = order)
               /\ WorkerTo("drain") /\ UNCHANGED <<queue, line>>
      <3> DEFINE P == {i \in Items : Pending(i)}
      <3>1. P \subseteq U
        BY <1>1 DEF Pending, Placed, TablesOK
      <3>2. IsFiniteSet(P)
        BY RetryAssumption, FS_Subset
      <3>3. batch' \in SetToSeqs(P)
        BY <2>1
      <3> HIDE DEF P
      <3>4. batch' \in Seq(P)
        BY <3>1, <3>2, <3>3, OrderIs
      <3>5. batch' \in Seq(U)
        BY <3>1, <3>4, SeqMonotonic
      <3>6. worker' \in Workers /\ worker'.pc = "drain" /\ worker'.item = NoItem
        BY <1>3, <1>4, <1>15, <2>1, WorkerMoves DEF BootQuery, WorkerPCs, Working, Holding
      <3> QED
        BY <1>2, <2>1, <3>5, <3>6 DEF ListOK, U, Holding
    <2> QED
      BY <1>14, <1>15, <2>1 DEF BootQuery, Booting, Working
  <1>16. CASE BootDrain
    <2>1. CASE WorkerTo("load") /\ line' = <<>> /\ UNCHANGED <<queue, batch>>
      <3>1. worker' \in Workers /\ worker'.pc = "load" /\ worker'.item = NoItem
        BY <1>3, <1>4, <1>16, <2>1, WorkerMoves DEF BootDrain, WorkerPCs, Working, Holding
      <3> QED
        BY <1>1, <1>2, <2>1, <3>1 DEF ListOK, U, Holding
    <2>2. CASE queue # <<>> /\ queue' = Front(queue) /\ UNCHANGED <<worker, batch, line>>
      <3>1. Front(queue) \in Seq(U)
        BY <1>2, <2>2, FrontIs
      <3> QED
        BY <1>2, <1>3, <1>4, <2>2, <3>1 DEF ListOK, U
    <2> QED
      BY <1>14, <1>16, <2>1, <2>2 DEF BootDrain, Booting, Working
  <1>17. CASE BootLoad
    <2>1. CASE batch = <<>> /\ WorkerTo("idle") /\ UNCHANGED <<queue, batch, line>>
      <3>1. worker' \in Workers /\ worker'.pc = "idle" /\ worker'.item = NoItem
        BY <1>3, <1>4, <1>17, <2>1, WorkerMoves DEF BootLoad, WorkerPCs, Working, Holding
      <3> QED
        BY <1>2, <2>1, <3>1 DEF ListOK, U, Holding
    <2>2. CASE /\ batch # <<>> /\ queue' = <<Head(batch)>> \o queue
               /\ line' = Append(line, Head(batch)) /\ batch' = Tail(batch) /\ UNCHANGED worker
      <3>1. Head(batch) \in U /\ Tail(batch) \in Seq(U)
        BY <1>2, <2>2, TailIs
      <3>2. <<Head(batch)>> \o queue \in Seq(U)
        BY <1>2, <3>1, OneIs, ConcatType
      <3>3. Append(line, Head(batch)) \in Seq(U)
        BY <1>2, <3>1, AppendIs
      <3>4. worker.pc = "load"
        BY <1>17 DEF BootLoad, Working
      <3> QED
        BY <1>3, <1>4, <2>2, <3>1, <3>2, <3>3, <3>4 DEF ListOK, U
    <2> QED
      BY <1>14, <1>17, <2>1, <2>2 DEF BootLoad, Booting, Working
  <1>18. CASE Restart
    BY <1>1, <1>2, <1>18, Retires DEF Restart, ListOK, U, Holding
  <1>19. CASE WorkerSteam
    BY <1>9, <1>11, <1>19 DEF WorkerSteam, Working, Holding
  <1>20. CASE WorkerCount
    BY <1>9, <1>10, <1>20 DEF WorkerCount, Working, Holding
  <1>21. CASE WorkerMark
    BY <1>11, <1>21 DEF WorkerMark, Working, Holding
  <1>22. CASE WorkerResolve
    BY <1>10, <1>22 DEF WorkerResolve, Working, Holding
  <1> QED
    BY <1>5, <1>6, <1>7, <1>8, <1>12, <1>13, <1>15, <1>16, <1>17, <1>18, <1>19, <1>20, <1>21, <1>22
       DEF vars, Next, UnlockStep, WorkerStep, BootStep, UnlockCheck, InsertUnlock, UnlockSteam,
           UnlockMark, InsertRow, UnlockFail, Signal, Exit, Crash

LEMMA ReqsKept ==
    ASSUME Placed, [Next]_vars
    PROVE  ReqsOK'
  <1>1. unlocked \subseteq unlocked'
    BY TablesKept
  <1>2. /\ req \in [Procs -> Requests]
        /\ \A p \in Procs : ~At(p, "idle") => ~Booting /\ req[p].item \in Items
        /\ \A p \in Procs : Begun(p) => req[p].item \in unlocked
    BY DEF Placed, ReqsOK
  <1>3. ASSUME NEW p \in Procs, req' \in [Procs -> Requests], UNCHANGED worker,
               \A q \in Procs \ {p} : req'[q] = req[q],
               \/ req'[p].pc = "idle"
               \/ ~Booting /\ req'[p].item \in Items /\ (Begun(p)' => req'[p].item \in unlocked')
        PROVE  ReqsOK'
    <2>1. Booting' <=> Booting
      BY <1>3 DEF Booting
    <2>2. ASSUME NEW q \in Procs \ {p} PROVE (At(q, "idle")' <=> At(q, "idle")) /\ (Begun(q)' <=> Begun(q))
      BY <1>3, <2>2 DEF At, Begun
    <2>3. At(p, "idle")' => ~Begun(p)'
      BY DEF At, Begun, Way
    <2> QED
      BY <1>1, <1>2, <1>3, <2>1, <2>2, <2>3 DEF ReqsOK, At
  <1>4. ASSUME UNCHANGED req, Booting' => Booting PROVE ReqsOK'
    BY <1>1, <1>2, <1>4 DEF ReqsOK, At, Begun
  <1>5. CASE Restart
    <2>1. req' \in [Procs -> Requests] /\ \A p \in Procs : req'[p].pc = "idle"
      BY <1>5, Retires DEF Restart
    <2> QED
      BY <2>1 DEF ReqsOK, At, Begun, Way
  <1>6. ASSUME NEW p \in Procs, NEW i \in Items, UnlockCheck(p, i) PROVE ReqsOK'
    <2> DEFINE r == [pc |-> "insert", item |-> i]
    <2>1. r \in Requests /\ r.pc = "insert" /\ r.item = i
      BY DEF Requests, RequestPCs
    <2>2. req' = [req EXCEPT ![p] = r] /\ ~Booting /\ UNCHANGED worker
      BY <1>6 DEF UnlockCheck
    <2> HIDE DEF r
    <2>3. req' \in [Procs -> Requests] /\ req'[p] = r /\ \A q \in Procs \ {p} : req'[q] = req[q]
      BY <1>2, <2>1, <2>2, RequestMoves
    <2>4. ~Begun(p)'
      BY <2>1, <2>3 DEF Begun, Way
    <2> QED
      BY <1>3, <2>1, <2>2, <2>3, <2>4
  <1>7. ASSUME NEW p \in Procs, UNCHANGED worker, Done(p) PROVE ReqsOK'
    BY <1>2, <1>3, <1>7, Ends
  <1>8. ASSUME NEW p \in Procs, UNCHANGED worker, NEW pc \in Way \cup {"row"}, Goto(p, pc),
               ~At(p, "idle"), req[p].item \in unlocked'
        PROVE  ReqsOK'
    <2>1. pc \in RequestPCs
      BY DEF Way, RequestPCs
    <2>2. /\ req' \in [Procs -> Requests] /\ req'[p].item = req[p].item
          /\ \A q \in Procs \ {p} : req'[q] = req[q]
      BY <1>2, <1>8, <2>1, Goes
    <2>3. ~Booting /\ req[p].item \in Items
      BY <1>2, <1>8
    <2> QED
      BY <1>3, <1>8, <2>2, <2>3
  <1>9. ASSUME NEW p \in Procs, InsertUnlock(p) PROVE ReqsOK'
    BY <1>7, <1>8, <1>9 DEF InsertUnlock, At, Way
  <1>10. ASSUME NEW p \in Procs, UnlockSteam(p) PROVE ReqsOK'
    BY <1>1, <1>2, <1>8, <1>10 DEF UnlockSteam, At, Begun, Way
  <1>11. ASSUME NEW p \in Procs, UnlockMark(p) PROVE ReqsOK'
    BY <1>1, <1>2, <1>7, <1>8, <1>11 DEF UnlockMark, At, Begun, Way
  <1>12. ASSUME NEW p \in Procs, PushItem(p) PROVE ReqsOK'
    BY <1>1, <1>2, <1>8, <1>12 DEF PushItem, At, Begun, Way
  <1>13. ASSUME NEW p \in Procs, InsertRow(p) \/ UnlockFail(p) PROVE ReqsOK'
    BY <1>7, <1>13 DEF InsertRow, UnlockFail
  <1>14. CASE WorkerStep \/ WorkerPanic
    <2>1. worker \in Workers
      BY DEF Placed, ListOK
    <2>2. UNCHANGED req /\ (worker' = worker \/ worker'.pc \notin {"query", "drain", "load"})
      BY <1>14, <2>1, Frees, WorkerMoves, Retires
         DEF WorkerStep, WorkerTick, WorkerPop, WorkerSteam, WorkerCount, WorkerMark,
             WorkerResolve, WorkerRequeue, WorkerPanic, Requeue, WorkerPCs
    <2> QED
      BY <1>4, <2>2 DEF Booting
  <1>15. CASE BootStep
    <2>1. UNCHANGED req /\ Booting
      BY <1>15 DEF BootStep, BootQuery, BootDrain, BootLoad, Booting, Working
    <2> QED
      BY <1>4, <2>1
  <1>16. CASE Signal \/ UNCHANGED vars
    BY <1>4, <1>16 DEF Signal, vars, Booting
  <1> QED
    BY <1>5, <1>6, <1>9, <1>10, <1>11, <1>12, <1>13, <1>14, <1>15, <1>16
       DEF Next, UnlockStep, Exit, Crash

LEMMA EndKept ==
    ASSUME EndOK, [Next]_vars
    PROVE  EndOK'
  <1>1. faults' = faults \/ Fault
    BY DEF vars, Next, UnlockStep, WorkerStep, BootStep, UnlockCheck, InsertUnlock, UnlockSteam,
           UnlockMark, PushItem, InsertRow, UnlockFail, WorkerTick, WorkerPop, WorkerSteam,
           WorkerCount, WorkerMark, WorkerResolve, WorkerRequeue, WorkerPanic, WorkerCut,
           BootQuery, BootDrain, BootLoad, BootGivesUp, Signal, Exit, Crash
  <1>2. draining' = draining \/ draining' \in BOOLEAN
    BY DEF vars, Next, UnlockStep, WorkerStep, BootStep, UnlockCheck, InsertUnlock, UnlockSteam,
           UnlockMark, PushItem, InsertRow, UnlockFail, WorkerTick, WorkerPop, WorkerSteam,
           WorkerCount, WorkerMark, WorkerResolve, WorkerRequeue, WorkerPanic,
           BootQuery, BootDrain, BootLoad, Signal, Exit, Crash, Restart
  <1>3. faults' \in 0 .. MaxFaults
    BY <1>1, RetryAssumption DEF EndOK, Fault
  <1> QED
    BY <1>2, <1>3 DEF EndOK

LEMMA PlacedStart == Init => Placed
  <1> SUFFICES ASSUME Init PROVE Placed
    OBVIOUS
  <1> USE DEF Init
  <1>1. TablesOK
    BY RetryAssumption DEF TablesOK, NoRow, ItemRows, RowStates
  <1>2. ListOK
    BY EmptySeq, Retires DEF ListOK, Holding
  <1>3. ReqsOK
    <2>1. req \in [Procs -> Requests] /\ \A p \in Procs : req[p].pc = "idle"
      BY Retires
    <2> HIDE DEF Init
    <2> QED
      BY <2>1 DEF ReqsOK, At, Begun, Way
  <1>4. EndOK
    <2>1. draining = FALSE /\ faults = 0
      OBVIOUS
    <2> HIDE DEF Init
    <2>2. draining \in BOOLEAN
      BY <2>1
    <2>3. faults \in 0 .. MaxFaults
      BY <2>1, RetryAssumption
    <2> QED
      BY <2>2, <2>3 DEF EndOK
  <1> QED
    BY <1>1, <1>2, <1>3, <1>4 DEF Placed

\* A move is of things that are unlocked, to a place of its own.
THEOREM StaysPlaced == Spec => []Placed
  <1>1. Placed /\ [Next]_vars => Placed'
    BY TablesKept, ListKept, ReqsKept, EndKept DEF Placed
  <1> QED
    BY <1>1, PlacedStart, PTL DEF Spec

\* Every table, list and request stays of its type, and no row counts more than
\* MaxRetries attempts (worker.go 184-214).
THEOREM TypeCorrect == Spec => []TypeOK
  <1>1. Placed => TypeOK
    <2> SUFFICES ASSUME Placed PROVE TypeOK
      OBVIOUS
    <2>1. queue \in Seq(Items) /\ batch \in Seq(Items) /\ line \in Seq(Items)
      BY SeqMonotonic DEF Placed, TablesOK, ListOK
    <2> QED
      BY <2>1 DEF Placed, TablesOK, ListOK, ReqsOK, EndOK, TypeOK, ItemRows, Workers, Requests
  <1> QED
    BY <1>1, StaysPlaced, PTL

----------------------------------------------------------------------------
(* What the tables say of Steam.  A step that sets a flag or resolves a row  *)
(* comes after Steam took the achievement, and nothing is taken back there.  *)

SteamInv ==
    /\ SteamKnows
    /\ worker.pc \in {"mark", "resolve"} => worker.item \in steam
    /\ \A p \in Procs : At(p, "mark") => req[p].item \in steam

LEMMA SteamKept ==
    ASSUME Placed, SteamInv, [Next]_vars
    PROVE  SteamInv'
  <1>1. /\ \A i \in Items : i \in synced \/ rows[i].state = "resolved" => i \in steam
        /\ worker.pc \in {"mark", "resolve"} => worker.item \in steam
        /\ \A p \in Procs : At(p, "mark") => req[p].item \in steam
    BY DEF SteamInv, SteamKnows
  <1>2. /\ rows \in [Items -> ItemRows] /\ worker \in Workers /\ req \in [Procs -> Requests]
    BY DEF Placed, TablesOK, ListOK, ReqsOK
  \* Each part, by what a step may change.
  <1>3. ASSUME steam \subseteq steam',
               \A i \in Items : i \in synced' => i \in synced \/ i \in steam',
               \A i \in Items : rows'[i].state = "resolved" => rows[i].state = "resolved" \/ i \in steam'
        PROVE  SteamKnows'
    BY <1>1, <1>3 DEF SteamKnows
  <1>4. ASSUME steam \subseteq steam',
               worker' = worker \/ worker'.pc \notin {"mark", "resolve"} \/ worker'.item \in steam'
        PROVE  worker'.pc \in {"mark", "resolve"} => worker'.item \in steam'
    BY <1>1, <1>4
  <1>5. ASSUME steam \subseteq steam',
               \A p \in Procs : \/ req'[p] = req[p] \/ req'[p].pc # "mark"
                                \/ req'[p].item \in steam'
        PROVE  \A p \in Procs : At(p, "mark")' => req'[p].item \in steam'
    BY <1>1, <1>5 DEF At
  <1>6. ASSUME UNCHANGED <<synced, rows, steam>> PROVE SteamKnows' /\ steam \subseteq steam'
    BY <1>3, <1>6
  <1>7. ASSUME NEW p \in Procs, NEW pc \in RequestPCs \ {"mark"}, Goto(p, pc) \/ Done(p)
        PROVE  \A q \in Procs : req'[q] = req[q] \/ req'[q].pc # "mark"
    BY <1>2, <1>7, Goes, Ends
  <1>8. ASSUME NEW p \in Procs, UnlockSteam(p) PROVE SteamInv'
    <2>1. steam \subseteq steam' /\ UNCHANGED <<synced, rows, worker>>
      BY <1>8 DEF UnlockSteam, tables
    <2>2. CASE steam' = steam \cup {req[p].item} /\ Goto(p, "mark")
      <3>1. req'[p].item \in steam' /\ \A q \in Procs \ {p} : req'[q] = req[q]
        BY <1>2, <2>2, Goes DEF RequestPCs
      <3> QED
        BY <1>3, <1>4, <1>5, <2>1, <3>1 DEF SteamInv
    <2>3. CASE Goto(p, "push")
      <3>1. \A q \in Procs : req'[q] = req[q] \/ req'[q].pc # "mark"
        BY <1>7, <2>3 DEF RequestPCs
      <3> QED
        BY <1>3, <1>4, <1>5, <2>1, <3>1 DEF SteamInv
    <2> QED
      BY <1>8, <2>2, <2>3 DEF UnlockSteam
  <1>9. ASSUME NEW p \in Procs, UnlockMark(p) PROVE SteamInv'
    <2>1. UNCHANGED <<rows, steam, worker>> /\ (synced' = synced \/ synced' = synced \cup {req[p].item})
      BY <1>9 DEF UnlockMark
    <2>2. req[p].item \in steam
      BY <1>1, <1>9 DEF UnlockMark
    <2>3. Done(p) \/ Goto(p, "push")
      BY <1>9 DEF UnlockMark
    <2>4. \A q \in Procs : req'[q] = req[q] \/ req'[q].pc # "mark"
      BY <1>7, <2>3 DEF RequestPCs
    <2> QED
      BY <1>3, <1>4, <1>5, <2>1, <2>2, <2>4 DEF SteamInv
  <1>10. ASSUME NEW p \in Procs, UnlockFail(p) \/ InsertUnlock(p) \/ PushItem(p) PROVE SteamInv'
    <2>1. UNCHANGED <<synced, rows, steam, worker>>
      BY <1>10 DEF UnlockFail, InsertUnlock, PushItem, tables
    <2>2. Done(p) \/ Goto(p, "steam") \/ Goto(p, "row")
      BY <1>10 DEF UnlockFail, InsertUnlock, PushItem
    <2>3. \A q \in Procs : req'[q] = req[q] \/ req'[q].pc # "mark"
      BY <1>7, <2>2 DEF RequestPCs
    <2> QED
      BY <1>4, <1>5, <1>6, <2>1, <2>3 DEF SteamInv
  <1>11. ASSUME NEW p \in Procs, InsertRow(p) PROVE SteamInv'
    <2>1. UNCHANGED <<synced, steam, worker>> /\ Done(p)
      BY <1>11 DEF InsertRow
    <2>2. \A i \in Items : rows'[i].state = "resolved" => rows[i].state = "resolved"
      BY <1>2, <1>11 DEF InsertRow
    <2>3. \A q \in Procs : req'[q] = req[q] \/ req'[q].pc # "mark"
      BY <1>7, <2>1 DEF RequestPCs
    <2> QED
      BY <1>3, <1>4, <1>5, <2>1, <2>2, <2>3 DEF SteamInv
  <1>12. ASSUME NEW p \in Procs, NEW i \in Items, UnlockCheck(p, i) PROVE SteamInv'
    <2>1. UNCHANGED <<synced, rows, steam, worker>>
      BY <1>12 DEF UnlockCheck, tables
    <2>2. \A q \in Procs : req'[q] = req[q] \/ req'[q].pc # "mark"
      BY <1>2, <1>12 DEF UnlockCheck
    <2> QED
      BY <1>4, <1>5, <1>6, <2>1, <2>2 DEF SteamInv
  <1>13. CASE UNCHANGED <<synced, rows, steam, worker, req>>
    BY <1>4, <1>5, <1>6, <1>13 DEF SteamInv
  \* The worker.
  <1>14. ASSUME UNCHANGED <<synced, rows, steam, req>>, worker'.pc \notin {"mark", "resolve"}
         PROVE  SteamInv'
    BY <1>4, <1>5, <1>6, <1>14 DEF SteamInv
  <1>15. CASE WorkerTick \/ WorkerPop \/ WorkerRequeue \/ WorkerPanic \/ BootStep
    <2>1. UNCHANGED <<synced, rows, steam, req>>
      BY <1>15 DEF WorkerTick, WorkerPop, WorkerRequeue, WorkerPanic, BootStep, BootQuery,
                   BootDrain, BootLoad, tables
    <2>2. worker' = worker \/ worker'.pc \notin {"mark", "resolve"}
      BY <1>2, <1>15, WorkerMoves, Retires
         DEF WorkerTick, WorkerPop, WorkerRequeue, WorkerPanic, BootStep, BootQuery,
             BootDrain, BootLoad, BootGivesUp, WorkerPCs
    <2> QED
      BY <1>13, <1>14, <2>1, <2>2
  <1>16. CASE WorkerSteam
    <2>1. UNCHANGED <<synced, rows, req>> /\ steam \subseteq steam'
      BY <1>16 DEF WorkerSteam, tables
    <2>2. CASE steam' = steam \cup {worker.item} /\ WorkerTo("mark")
      <3>1. worker'.item \in steam'
        BY <1>2, <2>2, WorkerMoves DEF WorkerPCs
      <3> QED
        BY <1>3, <1>4, <1>5, <2>1, <3>1 DEF SteamInv
    <2>3. CASE WorkerTo("count") \/ Requeue
      <3>1. worker'.pc \notin {"mark", "resolve"}
        BY <1>2, <2>3, WorkerMoves, Frees DEF WorkerPCs, Requeue
      <3> QED
        BY <1>3, <1>4, <1>5, <2>1, <3>1 DEF SteamInv
    <2> QED
      BY <1>16, <2>2, <2>3 DEF WorkerSteam
  <1>17. CASE WorkerCount
    <2>1. UNCHANGED <<synced, steam, req>> /\ NextItem
      BY <1>17 DEF WorkerCount, Requeue
    <2>2. worker'.pc \notin {"mark", "resolve"}
      BY <2>1, Frees
    <2>3. \A i \in Items : rows'[i].state = "resolved" => rows[i].state = "resolved"
      <3>1. CASE rows' = rows
        BY <3>1
      <3>2. CASE rows' = [rows EXCEPT ![worker.item].count = @ + 1]
        <4> DEFINE r == [rows[worker.item] EXCEPT !.count = @ + 1]
        <4>1. worker.item \in Items /\ rows[worker.item] \in ItemRows
          BY <1>2, <1>17 DEF WorkerCount, Placed, ListOK, TablesOK, Working, Holding
        <4>2. r.state = rows[worker.item].state
          BY <4>1 DEF ItemRows
        <4>3. rows' = [rows EXCEPT ![worker.item] = r]
          BY <3>2
        <4> HIDE DEF r
        <4> QED
          BY <1>2, <4>2, <4>3
      <3> QED
        BY <1>17, <3>1, <3>2 DEF WorkerCount
    <2> QED
      BY <1>3, <1>4, <1>5, <2>1, <2>2, <2>3 DEF SteamInv
  <1>18. CASE WorkerMark
    <2>1. UNCHANGED <<rows, steam, req>> /\ worker.item \in steam
      BY <1>1, <1>18 DEF WorkerMark, Working
    <2>2. worker'.item \in steam
      BY <1>2, <1>18, <2>1, WorkerMoves DEF WorkerMark, WorkerPCs
    <2>3. synced' = synced \/ synced' = synced \cup {worker.item}
      BY <1>18 DEF WorkerMark
    <2> QED
      BY <1>3, <1>4, <1>5, <2>1, <2>2, <2>3 DEF SteamInv
  <1>19. CASE WorkerResolve
    <2>1. UNCHANGED <<synced, steam, req>> /\ worker.item \in steam /\ NextItem
      BY <1>1, <1>19 DEF WorkerResolve, Working
    <2>2. worker'.pc \notin {"mark", "resolve"}
      BY <2>1, Frees
    <2>3. \A i \in Items : i # worker.item => rows'[i] = rows[i]
      BY <1>2, <1>19 DEF WorkerResolve
    <2> QED
      BY <1>3, <1>4, <1>5, <2>1, <2>2, <2>3 DEF SteamInv
  <1>20. CASE Restart
    <2>1. UNCHANGED <<synced, rows, steam>> /\ worker'.pc = "query" /\ \A p \in Procs : req'[p].pc = "idle"
      BY <1>20, Retires DEF Restart, tables
    <2> QED
      BY <1>4, <1>5, <1>6, <2>1 DEF SteamInv
  <1>21. CASE Signal \/ UNCHANGED vars
    BY <1>13, <1>21 DEF Signal, vars, tables
  <1> QED
    BY <1>8, <1>9, <1>10, <1>11, <1>12, <1>15, <1>16, <1>17, <1>18, <1>19, <1>20, <1>21
       DEF Next, UnlockStep, WorkerStep, Exit, Crash

\* What the tables say of Steam is true: an achievement marked as synced, or a
\* resolved row, is set there, whatever was refused, lost or interrupted
\* (handler.go 150-165, worker.go 217-236).
THEOREM SteamIsKnown == Spec => []SteamKnows
  <1>1. Init => SteamInv
    <2> SUFFICES ASSUME Init PROVE SteamInv
      OBVIOUS
    <2>1. /\ synced = {} /\ \A i \in Items : rows[i].state = "absent"
          /\ worker.pc = "query" /\ \A p \in Procs : req[p].pc = "idle"
      BY Retires DEF Init, NoRow
    <2> QED
      BY <2>1 DEF SteamInv, SteamKnows, At
  <1>2. Placed /\ SteamInv /\ [Next]_vars => SteamInv'
    BY SteamKept
  <1>3. SteamInv => SteamKnows
    BY DEF SteamInv
  <1> QED
    BY <1>1, <1>2, <1>3, StaysPlaced, PTL DEF Spec

----------------------------------------------------------------------------
(* One unlock of an item.  The INSERT lets one request through; until that   *)
(* one has written its row, the table of retries has none for the item.      *)

OneUnlock ==
    /\ \A p \in Procs : Begun(p) => rows[req[p].item].state = "absent"
    /\ \A p, q \in Procs : Begun(p) /\ Begun(q) /\ req[p].item = req[q].item => p = q

\* The worker's writes neither make a row nor take one away.
LEMMA WorkerRows ==
    ASSUME Placed, WorkerStep
    PROVE  \A i \in Items : rows'[i].state = "absent" <=> rows[i].state = "absent"
  <1>1. rows \in [Items -> ItemRows] /\ (worker.pc \in Holding => worker.item \in Items)
    BY DEF Placed, TablesOK, ListOK
  <1>2. CASE rows' = rows
    BY <1>2
  <1>3. ASSUME worker.pc \in Holding, NEW r, (r.state = "absent") <=> (rows[worker.item].state = "absent"),
               rows' = [rows EXCEPT ![worker.item] = r]
        PROVE  \A i \in Items : rows'[i].state = "absent" <=> rows[i].state = "absent"
    BY <1>1, <1>3
  <1>4. CASE WorkerCount
    <2> DEFINE r == [rows[worker.item] EXCEPT !.count = @ + 1]
    <2>1. worker.pc \in Holding
      BY <1>4 DEF WorkerCount, Working, Holding
    <2>2. r.state = rows[worker.item].state
      BY <1>1, <2>1 DEF ItemRows
    <2>3. rows' = rows \/ rows' = [rows EXCEPT ![worker.item] = r]
      BY <1>4 DEF WorkerCount
    <2> HIDE DEF r
    <2> QED
      BY <1>2, <1>3, <2>1, <2>2, <2>3
  <1>5. CASE WorkerResolve
    <2> DEFINE r == [rows[worker.item] EXCEPT !.state = IF @ = "open" THEN "resolved" ELSE @]
    <2>1. worker.pc \in Holding
      BY <1>5 DEF WorkerResolve, Working, Holding
    <2>2. (r.state = "absent") <=> (rows[worker.item].state = "absent")
      BY <1>1, <2>1 DEF ItemRows
    <2>3. rows' = rows \/ rows' = [rows EXCEPT ![worker.item] = r]
      BY <1>5 DEF WorkerResolve
    <2> HIDE DEF r
    <2> QED
      BY <1>2, <1>3, <2>1, <2>2, <2>3
  <1> QED
    BY <1>2, <1>4, <1>5
       DEF WorkerStep, WorkerTick, WorkerPop, WorkerSteam, WorkerMark, WorkerRequeue, tables

LEMMA OneUnlockKept ==
    ASSUME Placed, OneUnlock, [Next]_vars
    PROVE  OneUnlock'
  <1>1. /\ rows \in [Items -> ItemRows] /\ req \in [Procs -> Requests]
        /\ \A p \in Procs : Begun(p) => req[p].item \in unlocked /\ req[p].item \in Items
        /\ \A i \in Items : rows[i].state # "absent" => i \in unlocked
    BY DEF Placed, TablesOK, ReqsOK
  <1>2. /\ \A p \in Procs : Begun(p) => rows[req[p].item].state = "absent"
        /\ \A p, q \in Procs : Begun(p) /\ Begun(q) /\ req[p].item = req[q].item => p = q
    BY DEF OneUnlock
  \* A request goes on, or ends; the rows of the others' items stay.
  <1>3. ASSUME NEW p \in Procs, \A q \in Procs \ {p} : req'[q] = req[q],
               Begun(p)' => Begun(p) /\ req'[p].item = req[p].item,
               \A q \in Procs : Begun(q)' => rows'[req[q].item].state = "absent"
        PROVE  OneUnlock'
    <2>1. \A q \in Procs : Begun(q)' => Begun(q) /\ req'[q].item = req[q].item
      BY <1>3 DEF Begun
    <2> QED
      BY <1>2, <1>3, <2>1 DEF OneUnlock
  <1>4. ASSUME UNCHANGED req, \A i \in Items : rows[i].state = "absent" => rows'[i].state = "absent"
        PROVE  OneUnlock'
    BY <1>1, <1>2, <1>4 DEF OneUnlock, Begun
  <1>5. ASSUME NEW p \in Procs, UNCHANGED rows, Done(p) PROVE OneUnlock'
    <2>1. req'[p].pc = "idle" /\ \A q \in Procs \ {p} : req'[q] = req[q]
      BY <1>1, <1>5, Ends
    <2>2. ~Begun(p)'
      BY <2>1 DEF Begun, Way
    <2>3. \A q \in Procs : Begun(q)' => Begun(q)
      BY <2>1, <2>2 DEF Begun
    <2> QED
      BY <1>2, <1>3, <1>5, <2>1, <2>2, <2>3
  <1>6. ASSUME NEW p \in Procs, UNCHANGED rows, Begun(p), NEW pc \in Way \cup {"row"}, Goto(p, pc)
        PROVE  OneUnlock'
    <2>1. req'[p].item = req[p].item /\ \A q \in Procs \ {p} : req'[q] = req[q]
      BY <1>1, <1>6, Goes DEF Way, RequestPCs
    <2>2. \A q \in Procs : Begun(q)' => Begun(q)
      BY <1>6, <2>1 DEF Begun
    <2> QED
      BY <1>2, <1>3, <1>6, <2>1, <2>2
  <1>7. ASSUME NEW p \in Procs, InsertUnlock(p) PROVE OneUnlock'
    <2>1. UNCHANGED rows
      BY <1>7 DEF InsertUnlock
    <2>2. CASE req[p].item \in unlocked
      BY <1>5, <1>7, <2>1, <2>2 DEF InsertUnlock
    <2>3. CASE req[p].item \notin unlocked
      <3>1. req[p].item \in Items /\ Goto(p, "steam")
        BY <1>7, <2>3 DEF InsertUnlock, Placed, ReqsOK, At
      <3>2. req'[p].item = req[p].item /\ \A q \in Procs \ {p} : req'[q] = req[q]
        BY <1>1, <3>1, Goes DEF RequestPCs
      <3>3. rows[req[p].item].state = "absent"
        BY <1>1, <2>3, <3>1
      <3>4. \A q \in Procs \ {p} : /\ Begun(q)' <=> Begun(q)
                                   /\ Begun(q) => req[q].item # req[p].item
        BY <1>1, <2>3, <3>2 DEF Begun
      <3> QED
        BY <1>2, <2>1, <3>2, <3>3, <3>4 DEF OneUnlock
    <2> QED
      BY <2>2, <2>3
  <1>8. ASSUME NEW p \in Procs, UnlockSteam(p) \/ UnlockMark(p) \/ PushItem(p) PROVE OneUnlock'
    <2>1. UNCHANGED rows /\ Begun(p)
      BY <1>8 DEF UnlockSteam, UnlockMark, PushItem, tables, Begun, Way, At
    <2>2. Done(p) \/ Goto(p, "mark") \/ Goto(p, "push") \/ Goto(p, "row")
      BY <1>8 DEF UnlockSteam, UnlockMark, PushItem
    <2> QED
      BY <1>5, <1>6, <2>1, <2>2 DEF Way
  <1>9. ASSUME NEW p \in Procs, InsertRow(p) PROVE OneUnlock'
    <2>1. req'[p].pc = "idle" /\ \A q \in Procs \ {p} : req'[q] = req[q]
      BY <1>1, <1>9, Ends DEF InsertRow
    <2>2. Begun(p) /\ ~Begun(p)'
      BY <1>9, <2>1 DEF InsertRow, Begun, Way, At
    <2>3. \A q \in Procs : Begun(q)' => Begun(q) /\ req[q].item # req[p].item
      BY <1>2, <2>1, <2>2 DEF Begun
    <2>4. \A i \in Items : i # req[p].item => rows'[i] = rows[i]
      BY <1>1, <1>9 DEF InsertRow
    <2>5. \A q \in Procs : Begun(q)' => rows'[req[q].item].state = "absent"
      BY <1>1, <1>2, <2>3, <2>4
    <2> QED
      BY <1>3, <2>1, <2>2, <2>5
  <1>10. ASSUME NEW p \in Procs, NEW i \in Items, UnlockCheck(p, i) PROVE OneUnlock'
    <2>1. UNCHANGED rows /\ req'[p].pc = "insert" /\ \A q \in Procs \ {p} : req'[q] = req[q]
      BY <1>1, <1>10 DEF UnlockCheck, tables
    <2>2. ~Begun(p)'
      BY <2>1 DEF Begun, Way
    <2>3. \A q \in Procs : Begun(q)' => Begun(q)
      BY <2>1, <2>2 DEF Begun
    <2> QED
      BY <1>2, <1>3, <2>1, <2>2, <2>3
  <1>11. ASSUME NEW p \in Procs, UnlockFail(p) PROVE OneUnlock'
    BY <1>5, <1>11 DEF UnlockFail, tables
  <1>12. CASE WorkerStep
    <2>1. UNCHANGED req
      BY <1>12 DEF WorkerStep, WorkerTick, WorkerPop, WorkerSteam, WorkerCount, WorkerMark,
                   WorkerResolve, WorkerRequeue
    <2> QED
      BY <1>4, <1>12, <2>1, WorkerRows
  <1>13. CASE WorkerPanic \/ BootStep \/ Signal \/ UNCHANGED vars
    BY <1>4, <1>13 DEF WorkerPanic, BootStep, BootQuery, BootDrain, BootLoad, Signal, vars, tables
  <1>14. CASE Restart
    <2>1. \A p \in Procs : req'[p].pc = "idle"
      BY <1>14, Retires DEF Restart
    <2> QED
      BY <2>1 DEF OneUnlock, Begun, Way
  <1> QED
    BY <1>7, <1>8, <1>9, <1>10, <1>11, <1>12, <1>13, <1>14 DEF Next, UnlockStep, Exit, Crash

----------------------------------------------------------------------------
(* The order of the retries.  Between two boots the list only loses items,   *)
(* in any place, and gains them at the end, where the history gains them.    *)

\* No row counts the item as settled.
Retriable(i) == i \in unlocked /\ (rows[i].state = "absent" \/ Pending(i))

\* A request between its INSERT and its place in the list has none there yet.
Outside == \A p \in Procs : req[p].pc \in Way => req[p].item \notin Range(line)

Lined ==
    /\ IsInjective(Waiting) /\ IsInjective(line)
    /\ Range(Waiting) \subseteq Range(line) /\ InOrder(Waiting, line)
    /\ \A i \in Range(Waiting) : Retriable(i)
    /\ Outside

LEMMA WaitingIs ==
    ASSUME Placed
    PROVE  /\ Waiting = Wait(batch, Held, queue)
           /\ Held = IF worker.pc \in Holding THEN <<worker.item>> ELSE <<>>
           /\ batch \in Seq(Items) /\ Held \in Seq(Items) /\ queue \in Seq(Items)
           /\ Waiting \in Seq(Items) /\ line \in Seq(Items)
           /\ DOMAIN Waiting \subseteq Int /\ DOMAIN line \subseteq Int
  <1>1. batch \in Seq(Items) /\ queue \in Seq(Items) /\ line \in Seq(Items)
    BY SeqMonotonic DEF Placed, TablesOK, ListOK
  <1>2. Held = IF worker.pc \in Holding THEN <<worker.item>> ELSE <<>>
    BY RetryAssumption DEF Held, Placed, TablesOK, ListOK
  <1>3. Held \in Seq(Items)
    <2>1. CASE worker.pc \in Holding
      <3>1. worker.item \in Items
        BY <2>1 DEF Placed, TablesOK, ListOK
      <3>2. <<worker.item>> \in Seq(Items)
        BY <3>1, OneIs
      <3> QED
        BY <1>2, <2>1, <3>2
    <2>2. CASE worker.pc \notin Holding
      BY <1>2, <2>2, EmptySeq
    <2> QED
      BY <2>1, <2>2
  <1>4. Waiting = Wait(batch, Held, queue)
    BY DEF Waiting, Wait
  <1> DEFINE w == Wait(batch, Held, queue)
  <1>5. w \in Seq(Items)
    BY <1>1, <1>3, WaitType
  <1> HIDE DEF w
  <1>6. DOMAIN w = 1 .. Len(w) /\ DOMAIN line = 1 .. Len(line)
    BY <1>1, <1>5, LenProperties
  <1>7. DOMAIN w \subseteq Int /\ DOMAIN line \subseteq Int
    BY <1>6
  <1> QED
    BY <1>1, <1>2, <1>3, <1>4, <1>5, <1>7 DEF w

LEMMA WaitingNext ==
    Placed' => /\ (DOMAIN Waiting \subseteq Int)'
               /\ (Waiting = Wait(batch, Held, queue))'
               /\ (Held = IF worker.pc \in Holding THEN <<worker.item>> ELSE <<>>)'
  <1>1. Placed => /\ DOMAIN Waiting \subseteq Int
                  /\ Waiting = Wait(batch, Held, queue)
                  /\ Held = IF worker.pc \in Holding THEN <<worker.item>> ELSE <<>>
    BY WaitingIs
  <1> QED
    BY <1>1, PTL

LEMMA ThinStep ==
    ASSUME Placed, Placed', Lined, line' = line, Thinned(Waiting, Waiting'), Outside',
           \A i \in Range(Waiting') : Retriable(i) => Retriable(i)'
    PROVE  Lined'
  <1> DEFINE s == Waiting
             t == Waiting'
  <1>1. DOMAIN s \subseteq Int /\ DOMAIN t \subseteq Int
    BY WaitingIs, WaitingNext
  <1>2. /\ IsInjective(s) /\ IsInjective(line) /\ Range(s) \subseteq Range(line) /\ InOrder(s, line)
        /\ \A i \in Range(s) : Retriable(i)
    BY DEF Lined
  <1>3. Thinned(s, t) /\ \A i \in Range(t) : Retriable(i) => Retriable(i)'
    OBVIOUS
  <1> HIDE DEF s, t
  <1>4. Range(t) \subseteq Range(s) /\ IsInjective(t) /\ InOrder(t, line)
    BY <1>1, <1>2, <1>3, ThinnedKeeps
  <1>5. Range(t) \subseteq Range(line) /\ \A i \in Range(t) : Retriable(i)'
    BY <1>2, <1>3, <1>4
  <1> QED
    BY <1>2, <1>4, <1>5 DEF Lined, t

LEMMA PushStep ==
    ASSUME Placed, Lined, UNCHANGED tables, NEW x \in Items, x \notin Range(line), Retriable(x),
           Waiting' = Append(Waiting, x), line' = Append(line, x),
           \A p \in Procs : req'[p].pc \in Way => req'[p].item \notin Range(line) \cup {x}
    PROVE  Lined'
  <1> DEFINE s == Waiting
             sx == Waiting'
             lx == line'
  <1>1. s \in Seq(Items) /\ line \in Seq(Items)
    BY WaitingIs
  <1>2. /\ IsInjective(s) /\ IsInjective(line) /\ Range(s) \subseteq Range(line) /\ InOrder(s, line)
        /\ \A i \in Range(s) : Retriable(i)
    BY DEF Lined
  <1>3. sx = Append(s, x) /\ lx = Append(line, x)
    OBVIOUS
  <1>4. \A i \in Items : Retriable(i)' <=> Retriable(i)
    BY DEF Retriable, Pending, tables
  <1> HIDE DEF s, sx, lx
  <1>5. /\ IsInjective(Append(s, x)) /\ IsInjective(Append(line, x))
        /\ InOrder(Append(s, x), Append(line, x))
        /\ Range(Append(s, x)) \subseteq Range(Append(line, x))
    BY <1>1, <1>2, AppendKeeps
  <1>6. Range(Append(s, x)) = Range(s) \cup {x} /\ Range(Append(line, x)) = Range(line) \cup {x}
    <2>1. Range(Append(s, x)) = Range(s) \cup {x}
      BY <1>1, RangeAppend
    <2>2. Range(Append(line, x)) = Range(line) \cup {x}
      BY <1>1, RangeAppend
    <2> QED
      BY <2>1, <2>2
  <1>7. Range(s) \subseteq Items
    BY <1>1, RangeOfSeq
  <1>8. \A i \in Range(sx) : Retriable(i)'
    BY <1>2, <1>3, <1>4, <1>6, <1>7
  <1>9. Outside'
    BY <1>3, <1>6 DEF Outside, lx
  <1> QED
    BY <1>3, <1>5, <1>8, <1>9 DEF Lined, sx, lx

\* The list as it is filled at boot is the order it is emptied in.
LEMMA SelfOrdered ==
    ASSUME NEW S, NEW q \in Seq(S), IsInjective(q)
    PROVE  InOrder(q, q)
  <1>1. DOMAIN q = 1 .. Len(q)
    BY LenProperties
  <1> QED
    BY <1>1 DEF InOrder, IsInjective

\* A step of a request that leaves the list alone.
LEMMA RequestKeepsLined ==
    ASSUME Placed, Placed', Lined, UNCHANGED <<queue, worker, batch, line>>, Outside',
           \A i \in Items : Retriable(i) => Retriable(i)'
    PROVE  Lined'
  <1>1. Waiting' = Waiting
    BY DEF Waiting, Held
  <1>2. Waiting \in Seq(Items) /\ DOMAIN Waiting \subseteq Int
    BY WaitingIs
  <1>3. Range(Waiting) \subseteq Items
    BY <1>2, RangeOfSeq
  <1>4. Thinned(Waiting, Waiting')
    BY <1>1, <1>2, SameThinned
  <1>5. \A i \in Range(Waiting') : Retriable(i) => Retriable(i)'
    BY <1>1, <1>3
  <1> QED
    BY <1>4, <1>5, ThinStep

LEMMA RequestLined ==
    ASSUME Placed, Placed', OneUnlock, Lined, NEW p \in Procs,
           UnlockStep(p) \/ \E i \in Items : UnlockCheck(p, i)
    PROVE  Lined'
  <1>1. /\ req \in [Procs -> Requests] /\ rows \in [Items -> ItemRows]
        /\ \A q \in Procs : Begun(q) => req[q].item \in unlocked /\ req[q].item \in Items
        /\ unlocked \subseteq Items
    BY DEF Placed, TablesOK, ReqsOK
  <1>2. \A q \in Procs : req[q].pc \in Way => req[q].item \notin Range(line)
    BY DEF Lined, Outside
  <1>3. Range(line) \subseteq unlocked
    BY RangeOfSeq DEF Placed, ListOK
  <1>4. ASSUME UNCHANGED <<unlocked, rows>>
        PROVE  \A i \in Items : Retriable(i) => Retriable(i)'
    BY <1>4 DEF Retriable, Pending
  <1>5. ASSUME UNCHANGED line, Done(p) PROVE Outside'
    <2>1. req'[p].pc = "idle" /\ \A q \in Procs \ {p} : req'[q] = req[q]
      BY <1>1, <1>5, Ends
    <2> QED
      BY <1>2, <1>5, <2>1 DEF Outside, Way
  <1>6. ASSUME UNCHANGED line, NEW pc \in RequestPCs, Goto(p, pc),
               pc \in Way => req[p].item \notin Range(line)
        PROVE  Outside'
    <2>1. /\ req'[p].pc = pc /\ req'[p].item = req[p].item
          /\ \A q \in Procs \ {p} : req'[q] = req[q]
      BY <1>1, <1>6, Goes
    <2> QED
      BY <1>2, <1>6, <2>1 DEF Outside
  <1>7. ASSUME NEW i \in Items, UnlockCheck(p, i) PROVE Lined'
    <2>1. UNCHANGED <<unlocked, rows, queue, worker, batch, line>>
      BY <1>7 DEF UnlockCheck, tables
    <2>2. req'[p].pc = "insert" /\ \A q \in Procs \ {p} : req'[q] = req[q]
      BY <1>1, <1>7 DEF UnlockCheck
    <2>3. Outside'
      BY <1>2, <2>1, <2>2 DEF Outside, Way
    <2> QED
      BY <1>4, <2>1, <2>3, RequestKeepsLined
  <1>8. CASE InsertUnlock(p)
    <2>1. UNCHANGED <<rows, queue, worker, batch, line>> /\ unlocked \subseteq unlocked'
      BY <1>8 DEF InsertUnlock
    <2>2. \A i \in Items : Retriable(i) => Retriable(i)'
      BY <2>1 DEF Retriable, Pending
    <2>3. Done(p) \/ (Goto(p, "steam") /\ req[p].item \notin Range(line))
      BY <1>3, <1>8 DEF InsertUnlock
    <2>4. Outside'
      BY <1>5, <1>6, <2>1, <2>3 DEF RequestPCs
    <2> QED
      BY <2>1, <2>2, <2>4, RequestKeepsLined
  <1>9. CASE UnlockSteam(p) \/ UnlockMark(p) \/ UnlockFail(p)
    <2>1. UNCHANGED <<unlocked, rows, queue, worker, batch, line>>
      BY <1>9 DEF UnlockSteam, UnlockMark, UnlockFail, tables
    <2>2. \/ Done(p)
          \/ (Goto(p, "mark") \/ Goto(p, "push")) /\ req[p].pc \in Way
      BY <1>9 DEF UnlockSteam, UnlockMark, UnlockFail, At, Way
    <2>3. Outside'
      BY <1>2, <1>5, <1>6, <2>1, <2>2 DEF RequestPCs
    <2> QED
      BY <1>4, <2>1, <2>3, RequestKeepsLined
  <1>10. CASE PushItem(p)
    <2> DEFINE x == req[p].item
    <2>1. UNCHANGED <<unlocked, synced, rows, worker, batch>> /\ Goto(p, "row") /\ req[p].pc = "push"
      BY <1>10 DEF PushItem, tables, At
    <2>2. Begun(p) /\ req[p].pc \in Way
      BY <2>1 DEF Begun, Way
    <2>3. CASE UNCHANGED <<queue, line>>
      <3>1. Outside'
        BY <1>6, <2>1, <2>3 DEF Way, RequestPCs
      <3> QED
        BY <1>4, <2>1, <2>3, <3>1, RequestKeepsLined
    <2>4. CASE queue' = <<x>> \o queue /\ line' = Append(line, x)
      <3>1. x \in Items /\ x \notin Range(line) /\ Retriable(x)
        BY <1>1, <1>2, <2>2 DEF OneUnlock, Retriable
      <3>2. Waiting' = Append(Waiting, x)
        <4>1. /\ Waiting = Wait(batch, Held, queue)
              /\ batch \in Seq(Items) /\ Held \in Seq(Items) /\ queue \in Seq(Items)
          BY WaitingIs
        <4>2. Waiting' = Wait(batch, Held, queue')
          <5>1. Held' = Held /\ batch' = batch
            BY <2>1 DEF Held
          <5>2. Waiting' = Wait(batch', Held', queue')
            BY WaitingNext
          <5> QED
            BY <5>1, <5>2
        <4> DEFINE h == Held
        <4>3. Waiting = Wait(batch, h, queue) /\ Waiting' = Wait(batch, h, queue')
          BY <4>1, <4>2
        <4>4. queue' = <<x>> \o queue
          BY <2>4
        <4>5. x \in Items /\ batch \in Seq(Items) /\ h \in Seq(Items) /\ queue \in Seq(Items)
          BY <3>1, <4>1
        <4> HIDE DEF h, x
        <4>6. Wait(batch, h, <<x>> \o queue) = Append(Wait(batch, h, queue), x)
          BY <4>5, PushLast
        <4> QED
          BY <4>3, <4>4, <4>6
      <3>3. /\ req'[p].pc = "row" /\ \A q \in Procs \ {p} : req'[q] = req[q]
        BY <1>1, <2>1, Goes DEF RequestPCs
      <3>4. ASSUME NEW q \in Procs, req'[q].pc \in Way PROVE req'[q].item \notin Range(line) \cup {x}
        <4>1. q # p /\ req'[q] = req[q]
          BY <3>3, <3>4 DEF Way
        <4>2. Begun(q)
          BY <3>4, <4>1 DEF Begun
        <4>3. req[q].item # x
          BY <2>2, <4>1, <4>2 DEF OneUnlock
        <4> QED
          BY <1>2, <3>4, <4>1, <4>3
      <3> QED
        BY <2>1, <2>4, <3>1, <3>2, <3>4, PushStep DEF tables
    <2> QED
      BY <1>10, <2>3, <2>4 DEF PushItem
  <1>11. CASE InsertRow(p)
    <2>1. UNCHANGED <<unlocked, queue, worker, batch, line>> /\ Done(p)
      BY <1>11 DEF InsertRow
    <2>2. rows' = rows \/ rows' = [rows EXCEPT ![req[p].item] = [count |-> 0, state |-> "open"]]
      BY <1>11 DEF InsertRow
    <2>3. \A i \in Items : Retriable(i) => Retriable(i)'
      BY <1>1, <2>1, <2>2, RetryAssumption DEF Retriable, Pending
    <2> QED
      BY <1>5, <2>1, <2>3, RequestKeepsLined
  <1> QED
    BY <1>7, <1>8, <1>9, <1>10, <1>11 DEF UnlockStep

\* The rows of the items that still wait, when only the one of i may change.
LEMMA OthersRetriable ==
    ASSUME UNCHANGED unlocked, NEW i, \A k \in Items \ {i} : rows'[k] = rows[k], NEW W,
           W \subseteq Items, i \in W => Retriable(i)'
    PROVE  \A k \in W : Retriable(k) => Retriable(k)'
  BY DEF Retriable, Pending

LEMMA WorkerLined ==
    ASSUME Placed, Placed', Lined, WorkerStep \/ WorkerPanic
    PROVE  Lined'
  <1> DEFINE i == worker.item
             w == Waiting
             v == Waiting'
  <1>1. /\ w = Wait(batch, Held, queue)
        /\ Held = IF worker.pc \in Holding THEN <<i>> ELSE <<>>
        /\ batch \in Seq(Items) /\ Held \in Seq(Items) /\ queue \in Seq(Items)
        /\ w \in Seq(Items) /\ DOMAIN w \subseteq Int
    BY WaitingIs
  <1>2. /\ v = Wait(batch', Held', queue')
        /\ Held' = IF worker'.pc \in Holding THEN <<worker'.item>> ELSE <<>>
        /\ DOMAIN v \subseteq Int
    BY WaitingNext
  <1>3. /\ worker \in Workers /\ (worker.pc \in Holding => i \in Items)
        /\ rows \in [Items -> ItemRows]
    BY DEF Placed, TablesOK, ListOK
  <1>4. UNCHANGED <<unlocked, req, line>> /\ Outside
    BY DEF WorkerStep, WorkerTick, WorkerPop, WorkerSteam, WorkerCount, WorkerMark,
           WorkerResolve, WorkerRequeue, WorkerPanic, tables, Lined
  <1>5. Outside'
    BY <1>4 DEF Outside
  <1>6. IsInjective(w)
    BY DEF Lined
  <1> HIDE DEF w, v
  \* The list stays the same, or loses something.
  <1>7. ASSUME v = w, \A k \in Items : Retriable(k) => Retriable(k)' PROVE Lined'
    <2>1. Thinned(w, v)
      BY <1>1, <1>7, SameThinned
    <2>2. Range(v) \subseteq Items
      BY <1>1, <1>7, RangeOfSeq
    <2> QED
      BY <1>4, <1>5, <1>7, <2>1, <2>2, ThinStep DEF w, v
  <1>8. ASSUME Thinned(w, v), v \in Seq(Items), \A k \in Range(v) : Retriable(k) => Retriable(k)' PROVE Lined'
    BY <1>4, <1>5, <1>8, ThinStep DEF w, v
  <1>9. ASSUME UNCHANGED rows PROVE \A k \in Items : Retriable(k) => Retriable(k)'
    BY <1>4, <1>9 DEF Retriable, Pending
  <1>10. ASSUME UNCHANGED <<rows, batch, queue>>, Held' = Held PROVE Lined'
    <2>1. v = w
      BY <1>1, <1>2, <1>10
    <2> QED
      BY <1>7, <1>9, <1>10, <2>1
  \* Out of the worker's hands, into the batch.
  <1>11. ASSUME worker.pc \in Holding, Requeue, UNCHANGED queue,
                \A k \in Items : Retriable(k) => Retriable(k)'
         PROVE  Lined'
    <2>1. Held' = <<>> /\ Held = <<i>> /\ batch' = Append(batch, i) /\ i \in Items
      BY <1>1, <1>2, <1>3, <1>11, Frees DEF Requeue, Holding
    <2>2. v = Wait(Append(batch, i), <<>>, queue) /\ w = Wait(batch, <<i>>, queue)
      BY <1>1, <1>2, <1>11, <2>1
    <2> HIDE DEF i
    <2>3. v = w
      BY <1>1, <2>1, <2>2, RequeueSame
    <2> QED
      BY <1>7, <1>11, <2>3
  \* Out of the worker's hands for good: its row may be settled now.
  <1>12. ASSUME worker.pc \in Holding, NextItem, UNCHANGED <<batch, queue>>,
                \A k \in Items \ {i} : rows'[k] = rows[k]
         PROVE  Lined'
    <2>1. Held' = <<>> /\ Held = <<i>> /\ i \in Items
      BY <1>1, <1>2, <1>3, <1>12, Frees DEF Holding
    <2>2. v = Wait(batch, <<>>, queue) /\ w = Wait(batch, <<i>>, queue)
      BY <1>1, <1>2, <1>12, <2>1
    <2> HIDE DEF i
    <2>3. Thinned(w, v) /\ \A k \in DOMAIN v : v[k] # i
      BY <1>1, <1>6, <2>1, <2>2, DropThins
    <2>4. v \in Seq(Items)
      BY <1>1, <2>2, EmptySeq, WaitType
    <2>5. i \notin Range(v) /\ Range(v) \subseteq Items
      BY <2>3, <2>4, RangeOfSeq DEF Range
    <2>6. \A k \in Range(v) : Retriable(k) => Retriable(k)'
      BY <1>4, <1>12, <2>5, OthersRetriable
    <2> QED
      BY <1>8, <2>3, <2>4, <2>6
  <1>13. CASE WorkerTick
    <2>1. UNCHANGED <<rows, batch, queue>> /\ worker.pc = "idle" /\ worker'.pc = "pop"
      BY <1>3, <1>13, WorkerMoves DEF WorkerTick, tables, Working, WorkerPCs
    <2>2. Held' = Held
      BY <1>1, <1>2, <2>1 DEF Holding
    <2> QED
      BY <1>10, <2>1, <2>2
  <1>14. CASE WorkerPop
    <2>1. UNCHANGED <<rows, batch>> /\ worker.pc = "pop" /\ Held = <<>>
      BY <1>1, <1>14 DEF WorkerPop, tables, Working, Holding
    <2>2. CASE queue # <<>> /\ worker' = [pc |-> "steam", item |-> Last(queue)] /\ queue' = Front(queue)
      <3>1. Held' = <<Last(queue)>>
        BY <1>2, <2>2 DEF Holding
      <3>2. v = Wait(batch, <<Last(queue)>>, Front(queue)) /\ w = Wait(batch, <<>>, queue)
        BY <1>1, <1>2, <2>1, <2>2, <3>1
      <3>3. v = w
        BY <1>1, <2>2, <3>2, PopSame
      <3> QED
        BY <1>7, <1>9, <2>1, <3>3
    <2>3. CASE WorkerTo("requeue") /\ UNCHANGED queue
      <3>1. worker'.pc = "requeue"
        BY <1>3, <2>3, WorkerMoves DEF WorkerPCs
      <3>2. Held' = Held
        BY <1>2, <2>1, <3>1 DEF Holding
      <3> QED
        BY <1>10, <2>1, <2>3, <3>2
    <2> QED
      BY <1>14, <2>2, <2>3 DEF WorkerPop
  <1>15. ASSUME worker.pc \in Holding, NEW pc \in Holding, WorkerTo(pc), UNCHANGED <<rows, batch, queue>>
         PROVE  Lined'
    <2>1. worker'.pc = pc /\ worker'.item = i
      BY <1>3, <1>15, WorkerMoves DEF Holding, WorkerPCs
    <2>2. Held' = Held
      BY <1>1, <1>2, <1>15, <2>1
    <2> QED
      BY <1>10, <1>15, <2>2
  <1>16. CASE WorkerSteam
    <2>1. worker.pc \in Holding /\ UNCHANGED <<rows, queue>>
      BY <1>16 DEF WorkerSteam, Working, Holding, tables
    <2> QED
      BY <1>9, <1>11, <1>15, <1>16, <2>1 DEF WorkerSteam, Holding
  <1>17. CASE WorkerCount
    <2>1. worker.pc \in Holding /\ UNCHANGED queue
      BY <1>17 DEF WorkerCount, Working, Holding
    <2>2. CASE NextItem /\ UNCHANGED <<rows, batch>>
      BY <1>12, <2>1, <2>2
    <2>3. CASE Requeue /\ UNCHANGED rows
      BY <1>9, <1>11, <2>1, <2>3
    <2>4. CASE /\ Pending(i) /\ rows' = [rows EXCEPT ![i].count = @ + 1]
               /\ IF rows[i].count + 1 >= MaxRetries THEN NextItem /\ UNCHANGED batch ELSE Requeue
      <3> DEFINE r == [rows[i] EXCEPT !.count = @ + 1]
      <3>1. rows' = [rows EXCEPT ![i] = r] /\ i \in Items
        BY <1>3, <2>1, <2>4
      <3>2. r.count = rows[i].count + 1 /\ r.state = rows[i].state /\ rows[i].count \in Nat
        BY <1>3, <3>1, RetryAssumption DEF ItemRows
      <3> HIDE DEF r, i
      <3>3. \A k \in Items \ {i} : rows'[k] = rows[k]
        BY <1>3, <3>1
      <3>4. rows'[i] = r
        BY <1>3, <3>1
      <3>5. CASE rows[i].count + 1 >= MaxRetries
        <4>1. NextItem /\ UNCHANGED batch
          BY <2>4, <3>5
        <4> QED
          BY <1>12, <2>1, <3>3, <4>1
      <3>6. CASE ~(rows[i].count + 1 >= MaxRetries)
        <4>1. Requeue
          BY <2>4, <3>6
        <4>2. rows'[i].count < MaxRetries /\ rows'[i].state = "open"
          BY <2>4, <3>2, <3>4, <3>6, RetryAssumption DEF Pending
        <4>3. ASSUME NEW k \in Items, Retriable(k) PROVE Retriable(k)'
          <5>1. CASE k = i
            BY <1>4, <4>2, <4>3, <5>1 DEF Retriable, Pending
          <5>2. CASE k # i
            BY <1>4, <3>3, <4>3, <5>2 DEF Retriable, Pending
          <5> QED
            BY <5>1, <5>2
        <4> QED
          BY <1>11, <2>1, <4>1, <4>3
      <3> QED
        BY <3>5, <3>6
    <2> QED
      BY <1>17, <2>2, <2>3, <2>4 DEF WorkerCount
  <1>18. CASE WorkerMark
    <2>1. worker.pc \in Holding /\ UNCHANGED <<rows, batch, queue>> /\ WorkerTo("resolve")
      BY <1>18 DEF WorkerMark, Working, Holding
    <2> QED
      BY <1>15, <2>1 DEF Holding
  <1>19. CASE WorkerResolve
    <2>1. worker.pc \in Holding /\ UNCHANGED <<batch, queue>> /\ NextItem
      BY <1>19 DEF WorkerResolve, Working, Holding
    <2>2. \A k \in Items \ {i} : rows'[k] = rows[k]
      BY <1>3, <1>19 DEF WorkerResolve
    <2> QED
      BY <1>12, <2>1, <2>2
  <1>20. CASE WorkerRequeue
    <2>1. UNCHANGED rows /\ worker.pc = "requeue" /\ Held = <<>>
      BY <1>1, <1>20 DEF WorkerRequeue, tables, Working, Holding
    <2>2. CASE WorkerTo("idle") /\ UNCHANGED <<queue, batch>>
      <3>1. worker'.pc = "idle"
        BY <1>3, <2>2, WorkerMoves DEF WorkerPCs
      <3>2. Held' = Held
        BY <1>2, <2>1, <3>1 DEF Holding
      <3> QED
        BY <1>10, <2>1, <2>2, <3>2
    <2>3. CASE batch # <<>> /\ batch' = Front(batch) /\ UNCHANGED worker
               /\ (queue' = Append(queue, Last(batch)) \/ UNCHANGED queue)
      <3>1. Held' = <<>>
        BY <1>2, <2>1, <2>3 DEF Holding
      <3>2. v = Wait(Front(batch), <<>>, queue') /\ w = Wait(batch, <<>>, queue)
        BY <1>1, <1>2, <2>1, <2>3, <3>1
      <3>3. CASE queue' = Append(queue, Last(batch))
        <4>1. v = w
          BY <1>1, <2>3, <3>2, <3>3, BackSame
        <4> QED
          BY <1>7, <1>9, <2>1, <4>1
      <3>4. CASE UNCHANGED queue
        <4>1. Thinned(w, v)
          BY <1>1, <2>3, <3>2, <3>4, LoseThins
        <4>2. v \in Seq(Items)
          <5>1. Front(batch) \in Seq(Items) /\ <<>> \in Seq(Items)
            BY <1>1, <2>3, FrontIs, EmptySeq
          <5> QED
            BY <1>1, <3>2, <3>4, <5>1, WaitType
        <4>3. Range(v) \subseteq Items
          BY <4>2, RangeOfSeq
        <4> QED
          BY <1>8, <1>9, <2>1, <4>1, <4>2, <4>3
      <3> QED
        BY <2>3, <3>3, <3>4
    <2> QED
      BY <1>20, <2>2, <2>3 DEF WorkerRequeue
  <1>21. CASE WorkerPanic
    <2>1. UNCHANGED <<rows, queue>> /\ worker' = Idle /\ batch' = <<>>
      BY <1>21 DEF WorkerPanic, tables
    <2>2. v = Wait(<<>>, <<>>, queue)
      BY <1>2, <2>1, Retires DEF Holding
    <2>3. Thinned(w, v) /\ v = Reverse(queue)
      BY <1>1, <2>2, PanicThins
    <2>4. v \in Seq(Items)
      BY <1>1, <2>3, ReverseIs
    <2>5. Range(v) \subseteq Items
      BY <2>4, RangeOfSeq
    <2> QED
      BY <1>8, <1>9, <2>1, <2>3, <2>4, <2>5
  <1> QED
    BY <1>13, <1>14, <1>16, <1>17, <1>18, <1>19, <1>20, <1>21 DEF WorkerStep

----------------------------------------------------------------------------
(* The boot.  The list is emptied before the rows are put in it, so neither  *)
(* what Redis kept nor an earlier boot can be in it twice.                   *)

Booted ==
    /\ IsInjective(queue) /\ IsInjective(batch)
    /\ \A i \in Range(queue) \cup Range(batch) : Retriable(i)
    /\ Working("load") => line = Reverse(queue) /\ Range(queue) \cap Range(batch) = {}

Orderly == IF Booting THEN Booted ELSE Lined

LEMMA EmptyIs == IsInjective(<<>>) /\ Range(<<>>) = {} /\ Reverse(<<>>) = <<>>
  <1>1. IsInjective(<<>>) /\ Range(<<>>) = {}
    BY DEF IsInjective, Range
  <1>2. <<>> \in Seq({})
    BY EmptySeq
  <1>3. Reverse(<<>>) \in Seq({}) /\ Len(Reverse(<<>>)) = Len(<<>>)
    BY <1>2, ReverseIs
  <1>4. Len(<<>>) = 0
    BY EmptySeq
  <1> DEFINE r == Reverse(<<>>)
  <1>5. r \in Seq({}) /\ Len(r) = 0
    BY <1>3, <1>4
  <1> HIDE DEF r
  <1>6. r = <<>>
    BY <1>5, EmptySeq
  <1> QED
    BY <1>1, <1>6 DEF r

LEMMA ThinnedKeepsOnce ==
    ASSUME NEW S, NEW s \in Seq(S), NEW t \in Seq(S), Thinned(s, t), IsInjective(s)
    PROVE  IsInjective(t) /\ Range(t) \subseteq Range(s)
  <1>1. DOMAIN s \subseteq Int /\ DOMAIN t \subseteq Int
    <2>1. DOMAIN s = 1 .. Len(s) /\ DOMAIN t = 1 .. Len(t)
      BY LenProperties
    <2> QED
      BY <2>1
  <1>2. InOrder(s, s)
    BY SelfOrdered
  <1> QED
    BY <1>1, <1>2, ThinnedKeeps

\* Whenever the process ends, what is left of the list has no item twice.
LEMMA LeftOver ==
    ASSUME Placed, Orderly
    PROVE  IsInjective(queue) /\ \A i \in Range(queue) : Retriable(i)
  <1>1. CASE Booting
    BY <1>1 DEF Orderly, Booted
  <1>2. CASE ~Booting
    <2> DEFINE w == Waiting
               r == Reverse(queue)
    <2>1. /\ w = Wait(batch, Held, queue) /\ w \in Seq(Items)
          /\ batch \in Seq(Items) /\ Held \in Seq(Items) /\ queue \in Seq(Items)
      BY WaitingIs
    <2>2. IsInjective(w) /\ \A i \in Range(w) : Retriable(i)
      BY <1>2 DEF Orderly, Lined
    <2>3. Thinned(w, Wait(<<>>, <<>>, queue)) /\ Wait(<<>>, <<>>, queue) = r
      BY <2>1, PanicThins
    <2>4. r \in Seq(Items)
      BY <2>1, ReverseIs
    <2> HIDE DEF w, r
    <2>5. IsInjective(r) /\ Range(r) \subseteq Range(w)
      BY <2>1, <2>2, <2>3, <2>4, ThinnedKeepsOnce
    <2>6. Range(r) = Range(queue) /\ (IsInjective(r) <=> IsInjective(queue))
      BY <2>1, RangeReverse DEF r
    <2> QED
      BY <2>2, <2>5, <2>6
  <1> QED
    BY <1>1, <1>2

LEMMA RestartBooted ==
    ASSUME Placed, Orderly, Restart
    PROVE  Orderly'
  <1>1. worker'.pc = "query" /\ batch' = <<>> /\ UNCHANGED tables /\ queue' \in {queue, <<>>}
    BY Retires DEF Restart
  <1>2. Booting' /\ ~Working("load")'
    BY <1>1 DEF Booting, Working
  <1>3. \A i : Retriable(i) => Retriable(i)'
    BY <1>1 DEF Retriable, Pending, tables
  <1>4. IsInjective(queue') /\ \A i \in Range(queue') : Retriable(i)'
    <2>1. CASE queue' = queue
      BY <1>3, <2>1, LeftOver
    <2>2. CASE queue' = <<>>
      BY <2>2, EmptyIs
    <2> QED
      BY <1>1, <2>1, <2>2
  <1>5. IsInjective(batch') /\ Range(batch') = {}
    BY <1>1, EmptyIs
  <1>6. Booted'
    BY <1>2, <1>4, <1>5 DEF Booted
  <1> QED
    BY <1>2, <1>6 DEF Orderly

\* The boot ends: the history starts with what is in the list.
LEMMA BootEnds ==
    ASSUME Placed, Placed', Booting, Booted, UNCHANGED <<tables, req, queue>>,
           batch' = <<>>, worker'.pc = "idle", line' = Reverse(queue)
    PROVE  Orderly'
  <1> DEFINE r == Reverse(queue)
  <1>1. queue \in Seq(Items)
    BY WaitingIs
  <1>2. r \in Seq(Items)
    BY <1>1, ReverseIs
  <1>3. Waiting' = r
    <2>1. Waiting' = Wait(batch', Held', queue')
      BY WaitingNext
    <2>2. Held' = <<>>
      BY WaitingNext DEF Holding
    <2>3. Waiting' = Wait(<<>>, <<>>, queue)
      BY <2>1, <2>2
    <2>4. <<>> \in Seq(Items)
      BY EmptySeq
    <2> QED
      BY <1>1, <2>3, <2>4, PanicThins
  <1>4. Range(r) = Range(queue) /\ (IsInjective(r) <=> IsInjective(queue))
    BY <1>1, RangeReverse
  <1>5. IsInjective(queue) /\ \A i \in Range(queue) : Retriable(i)
    BY DEF Booted
  <1>6. \A i : Retriable(i) => Retriable(i)'
    BY DEF Retriable, Pending, tables
  <1>7. line' = r
    OBVIOUS
  <1> HIDE DEF r
  <1>8. IsInjective(r) /\ InOrder(r, r) /\ \A i \in Range(r) : Retriable(i)'
    BY <1>2, <1>4, <1>5, <1>6, SelfOrdered
  <1>9. \A p \in Procs : req[p].pc = "idle"
    BY DEF Placed, ReqsOK, At
  <1>10. Outside'
    BY <1>9 DEF Outside, Way
  <1>11. Lined'
    BY <1>3, <1>7, <1>8, <1>10 DEF Lined
  <1>12. ~Booting'
    BY DEF Booting
  <1> QED
    BY <1>11, <1>12 DEF Orderly

LEMMA BootOrderly ==
    ASSUME Placed, Placed', Orderly, BootStep
    PROVE  Orderly'
  <1>1. UNCHANGED <<tables, req>> /\ Booting
    BY DEF BootStep, BootQuery, BootDrain, BootLoad, Booting, Working
  <1>2. Booted
    BY <1>1 DEF Orderly
  <1>3. /\ IsInjective(queue) /\ IsInjective(batch)
        /\ \A i \in Range(queue) \cup Range(batch) : Retriable(i)
    BY <1>2 DEF Booted
  <1>4. \A i : Retriable(i) => Retriable(i)'
    BY <1>1 DEF Retriable, Pending, tables
  <1>5. worker \in Workers /\ queue \in Seq(Items) /\ batch \in Seq(Items) /\ line \in Seq(Items)
    BY WaitingIs DEF Placed, ListOK
  <1>6. CASE BootGivesUp
    <2>1. worker'.pc = "idle"
      BY <1>5, <1>6, WorkerMoves DEF BootGivesUp, WorkerPCs
    <2> QED
      BY <1>1, <1>2, <1>6, <2>1, BootEnds DEF BootGivesUp
  \* It goes on.
  <1>7. ASSUME worker'.pc \in {"query", "drain", "load"}, IsInjective(queue'), IsInjective(batch'),
               \A i \in Range(queue') \cup Range(batch') : Retriable(i),
               worker'.pc = "load" => line' = Reverse(queue') /\ Range(queue') \cap Range(batch') = {}
        PROVE  Orderly'
    <2>1. Booting' /\ (Working("load")' => worker'.pc = "load")
      BY <1>7 DEF Booting, Working
    <2>2. Booted'
      BY <1>4, <1>7, <2>1 DEF Booted
    <2> QED
      BY <2>1, <2>2 DEF Orderly
  <1>8. CASE BootQuery
    <2>1. CASE (\E order \in SetToSeqs({i \in Items : Pending(i)}) : batch' = order)
               /\ WorkerTo("drain") /\ UNCHANGED <<queue, line>>
      <3> DEFINE P == {i \in Items : Pending(i)}
      <3>1. \A i \in P : Retriable(i)
        BY DEF Retriable, Pending, Placed, TablesOK
      <3>2. P \subseteq Items /\ IsFiniteSet(P)
        BY RetryAssumption, FS_Subset
      <3>3. batch' \in SetToSeqs(P)
        BY <2>1
      <3> HIDE DEF P
      <3>4. IsInjective(batch') /\ Range(batch') \subseteq P
        BY <3>2, <3>3, OrderIs
      <3>5. worker'.pc = "drain"
        BY <1>5, <2>1, WorkerMoves DEF WorkerPCs
      <3> QED
        BY <1>3, <1>7, <2>1, <3>1, <3>4, <3>5
    <2> QED
      BY <1>6, <1>8, <2>1 DEF BootQuery
  <1>9. CASE BootDrain
    <2>1. CASE queue = <<>> /\ WorkerTo("load") /\ line' = <<>> /\ UNCHANGED <<queue, batch>>
      <3>1. worker'.pc = "load"
        BY <1>5, <2>1, WorkerMoves DEF WorkerPCs
      <3>2. Range(queue') = {} /\ Reverse(queue') = <<>>
        BY <2>1, EmptyIs
      <3> QED
        BY <1>3, <1>7, <2>1, <3>1, <3>2
    <2>2. CASE queue # <<>> /\ queue' = Front(queue) /\ UNCHANGED <<worker, batch, line>>
      <3>1. worker'.pc = "drain"
        BY <1>9, <2>2 DEF BootDrain, Working
      <3>2. Front(queue) \in Seq(Items) /\ Thinned(queue, Front(queue))
        BY <1>5, <2>2, FrontThins
      <3>3. IsInjective(queue') /\ Range(queue') \subseteq Range(queue)
        BY <1>3, <1>5, <2>2, <3>2, ThinnedKeepsOnce
      <3> QED
        BY <1>3, <1>7, <2>2, <3>1, <3>3
    <2> QED
      BY <1>6, <1>9, <2>1, <2>2 DEF BootDrain
  <1>10. CASE BootLoad
    <2>1. line = Reverse(queue) /\ Range(queue) \cap Range(batch) = {} /\ worker.pc = "load"
      BY <1>2, <1>10 DEF Booted, BootLoad, Working
    <2>2. CASE batch = <<>> /\ WorkerTo("idle") /\ UNCHANGED <<queue, batch, line>>
      <3>1. worker'.pc = "idle"
        BY <1>5, <2>2, WorkerMoves DEF WorkerPCs
      <3> QED
        BY <1>1, <1>2, <2>1, <2>2, <3>1, BootEnds
    <2>3. CASE /\ batch # <<>> /\ queue' = <<Head(batch)>> \o queue
               /\ line' = Append(line, Head(batch)) /\ batch' = Tail(batch) /\ UNCHANGED worker
      <3> DEFINE x == Head(batch)
                 r == Reverse(queue)
                 b == Tail(batch)
      <3>1. /\ x \in Items /\ b \in Seq(Items) /\ Thinned(batch, b)
            /\ Range(b) \cup {x} = Range(batch) /\ x \notin Range(b)
        BY <1>3, <1>5, <2>3, TailIs
      <3>2. queue' = <<x>> \o queue /\ line' = Append(r, x) /\ batch' = b
        BY <2>1, <2>3
      <3>3. r \in Seq(Items) /\ Range(r) = Range(queue) /\ IsInjective(r)
        BY <1>3, <1>5, ReverseIs, RangeReverse
      <3> HIDE DEF x, b
      <3>4. Reverse(<<x>> \o queue) = r \o <<x>>
        BY <1>5, <3>1, ReversePush
      <3> HIDE DEF r
      <3>5. Append(r, x) = r \o <<x>>
        BY <3>1, <3>3, AppendIs
      <3>6. line' = Reverse(queue')
        BY <3>2, <3>4, <3>5
      <3>7. IsInjective(b)
        BY <1>3, <1>5, <3>1, ThinnedKeepsOnce
      <3>8. Range(queue') = Range(queue) \cup {x}
        <4>1. Range(<<x>> \o queue) = Range(queue) \cup {x}
          BY <1>5, <3>1, RangePush
        <4> QED
          BY <3>2, <4>1
      <3>9. x \notin Range(r)
        BY <2>1, <3>1, <3>3
      <3>10. InOrder(r, r)
        BY <3>3, SelfOrdered
      <3>11. IsInjective(Append(r, x))
        BY <3>1, <3>3, <3>9, <3>10, AppendKeeps
      <3>12. queue' \in Seq(Items)
        <4>1. <<x>> \in Seq(Items)
          BY <3>1, OneIs
        <4> QED
          BY <1>5, <3>2, <4>1, ConcatType
      <3>13. IsInjective(queue')
        <4>1. IsInjective(Reverse(queue')) <=> IsInjective(queue')
          BY <3>12, RangeReverse
        <4> QED
          BY <3>2, <3>6, <3>11, <4>1
      <3>14. Range(queue') \cap Range(batch') = {}
        BY <2>1, <3>1, <3>2, <3>8
      <3>15. \A i \in Range(queue') \cup Range(batch') : Retriable(i)
        BY <1>3, <3>1, <3>2, <3>8
      <3>16. worker'.pc = "load"
        BY <2>1, <2>3
      <3> QED
        BY <1>7, <3>2, <3>6, <3>7, <3>13, <3>14, <3>15, <3>16
    <2> QED
      BY <1>6, <1>10, <2>2, <2>3 DEF BootLoad
  <1> QED
    BY <1>8, <1>9, <1>10 DEF BootStep

LEMMA OrderlyKept ==
    ASSUME Placed, Placed', OneUnlock, Orderly, [Next]_vars
    PROVE  Orderly'
  <1>1. CASE \E p \in Procs : UnlockStep(p) \/ \E i \in Items : UnlockCheck(p, i)
    <2> PICK p \in Procs : UnlockStep(p) \/ \E i \in Items : UnlockCheck(p, i)
      BY <1>1
    <2>1. ~Booting
      BY DEF UnlockStep, UnlockCheck, InsertUnlock, UnlockSteam, UnlockMark, PushItem, InsertRow,
             UnlockFail, Placed, ReqsOK, At
    <2>2. UNCHANGED worker
      BY DEF UnlockStep, UnlockCheck, InsertUnlock, UnlockSteam, UnlockMark, PushItem, InsertRow,
             UnlockFail
    <2>3. ~Booting'
      BY <2>1, <2>2 DEF Booting
    <2>4. Lined'
      BY <2>1, RequestLined DEF Orderly
    <2> QED
      BY <2>3, <2>4 DEF Orderly
  <1>2. CASE WorkerStep \/ WorkerPanic
    <2>1. ~Booting
      BY <1>2 DEF WorkerStep, WorkerTick, WorkerPop, WorkerSteam, WorkerCount, WorkerMark,
                  WorkerResolve, WorkerRequeue, WorkerPanic, Working, Booting
    <2>2. worker \in Workers
      BY DEF Placed, ListOK
    <2>3. worker' = worker \/ worker'.pc \notin {"query", "drain", "load"}
      BY <1>2, <2>2, Frees, WorkerMoves, Retires
         DEF WorkerStep, WorkerTick, WorkerPop, WorkerSteam, WorkerCount, WorkerMark,
             WorkerResolve, WorkerRequeue, WorkerPanic, Requeue, WorkerPCs
    <2>4. ~Booting'
      BY <2>1, <2>3 DEF Booting
    <2>5. Lined'
      BY <1>2, <2>1, WorkerLined DEF Orderly
    <2> QED
      BY <2>4, <2>5 DEF Orderly
  <1>3. CASE BootStep
    BY <1>3, BootOrderly
  <1>4. CASE Exit \/ Crash
    BY <1>4, RestartBooted DEF Exit, Crash
  <1>5. CASE Signal \/ UNCHANGED vars
    <2>1. UNCHANGED <<unlocked, rows, queue, worker, batch, req, line>>
      BY <1>5 DEF Signal, vars, tables
    <2>2. Waiting' = Waiting
      BY <2>1 DEF Waiting, Held
    <2>3. /\ Booting' <=> Booting
          /\ \A i : Retriable(i)' <=> Retriable(i)
          /\ Outside' <=> Outside
          /\ Working("load")' <=> Working("load")
      BY <2>1 DEF Booting, Retriable, Pending, Outside, Working
    <2>4. Lined' <=> Lined
      BY <2>1, <2>2, <2>3 DEF Lined
    <2>5. Booted' <=> Booted
      BY <2>1, <2>3 DEF Booted
    <2> QED
      BY <2>3, <2>4, <2>5 DEF Orderly
  <1> QED
    BY <1>1, <1>2, <1>3, <1>4, <1>5 DEF Next

\* Through races, failures, crashes and boots, the list, the batch and the
\* worker's hands together are the history of the list without some items.
THEOREM StaysOrderly == Spec => [](Placed /\ OneUnlock /\ Orderly)
  <1>1. Init => OneUnlock /\ Orderly
    <2> SUFFICES ASSUME Init PROVE OneUnlock /\ Orderly
      OBVIOUS
    <2>1. /\ queue = <<>> /\ batch = <<>> /\ worker.pc = "query"
          /\ \A p \in Procs : req[p].pc = "idle"
      BY Retires DEF Init
    <2>2. OneUnlock
      BY <2>1 DEF OneUnlock, Begun, Way
    <2>3. Booting /\ Booted
      BY <2>1, EmptyIs DEF Booting, Booted, Working
    <2> QED
      BY <2>2, <2>3 DEF Orderly
  <1>2. Placed /\ Placed' /\ OneUnlock /\ Orderly /\ [Next]_vars => OneUnlock' /\ Orderly'
    BY OneUnlockKept, OrderlyKept
  <1> QED
    BY <1>1, <1>2, StaysPlaced, PTL DEF Spec

\* A settled row is never retried: dead letters stay out of the list over
\* retries, failures and boots (worker.go 56-58, 200-209).
THEOREM SettledOut == Spec => []SettledStaysOut
  <1>1. Placed /\ Orderly => SettledStaysOut
    <2> SUFFICES ASSUME Placed, Orderly, NEW i \in Items, Contains(queue \o batch, i),
                        rows[i].state # "absent", ~Booting
                 PROVE  Pending(i)
      BY DEF SettledStaysOut
    <2> DEFINE c == queue \o batch
    <2>1. /\ Waiting = Wait(batch, Held, queue)
          /\ batch \in Seq(Items) /\ Held \in Seq(Items) /\ queue \in Seq(Items)
      BY WaitingIs
    <2>2. c \in Seq(Items) /\ DOMAIN c = 1 .. Len(c)
      BY <2>1, ConcatType
    <2>3. i \in Range(c)
      BY <2>2 DEF Contains, Range
    <2>4. Range(c) = Range(queue) \cup Range(batch)
      BY <2>1, RangeConcatenation
    <2> HIDE DEF c
    <2> DEFINE h == Held
    <2>5. h \in Seq(Items) /\ Waiting = Wait(batch, h, queue)
      BY <2>1
    <2> HIDE DEF h
    <2>6. Range(Wait(batch, h, queue)) = Range(batch) \cup Range(h) \cup Range(queue)
      BY <2>1, <2>5, RangeWait
    <2>7. i \in Range(Waiting)
      BY <2>3, <2>4, <2>5, <2>6
    <2> QED
      BY <2>7 DEF Orderly, Lined, Retriable
  <1> QED
    BY <1>1, StaysOrderly, PTL

\* Retries keep the order in which the items entered the list, although the
\* list is filled at one end while a batch returns to the other: no failed item
\* leapfrogs another (worker.go 148-154).
THEOREM InLine == Spec => []OldestFirst
  <1>1. Orderly => OldestFirst
    BY DEF Orderly, Lined, InOrder, OldestFirst
  <1> QED
    BY <1>1, StaysOrderly, PTL

\* However unlocks race and boots follow each other, an item is at most once in
\* the list, in the worker's hands or on its way there (the ON CONFLICT of the
\* INSERT; the drain before the reload, worker.go 76-83).
THEOREM OnlyOnce == Spec => []QueuedOnce
  <1>1. ASSUME NEW A, \A x, y \in A : x = y
        PROVE  Cardinality(A) = 0 \/ (Cardinality(A) = 1 /\ A # {})
    <2>1. CASE A = {}
      BY <2>1, FS_EmptySet
    <2>2. CASE A # {}
      <3> PICK x \in A : TRUE
        BY <2>2
      <3>1. A = {x}
        BY <1>1
      <3> QED
        BY <3>1, FS_Singleton
    <2> QED
      BY <2>1, <2>2
  <1>2. Placed /\ OneUnlock /\ Orderly => QueuedOnce
    <2> SUFFICES ASSUME Placed, OneUnlock, Orderly, ~Booting, NEW i \in Items
                 PROVE  Copies(i) + Cardinality(Unlocking(i)) <= 1
      BY DEF QueuedOnce
    <2> DEFINE C == {k \in DOMAIN Waiting : Waiting[k] = i}
    <2>1. \A j, k \in C : j = k
      BY DEF Orderly, Lined, IsInjective
    <2>2. \A p, q \in Unlocking(i) : p = q
      BY DEF Unlocking, OneUnlock, Begun, Way
    <2>3. C # {} => Unlocking(i) = {}
      <3> SUFFICES ASSUME NEW k \in C, NEW p \in Unlocking(i) PROVE FALSE
        OBVIOUS
      <3>1. i \in Range(Waiting)
        BY DEF Range
      <3>2. i \in Range(line)
        BY <3>1 DEF Orderly, Lined
      <3> QED
        BY <3>2 DEF Unlocking, Orderly, Lined, Outside, Way
    <2>4. Copies(i) = Cardinality(C)
      BY DEF Copies
    <2> HIDE DEF C
    <2>5. Cardinality(C) = 0 \/ (Cardinality(C) = 1 /\ C # {})
      BY <1>1, <2>1
    <2>6. \/ Cardinality(Unlocking(i)) = 0
          \/ Cardinality(Unlocking(i)) = 1 /\ Unlocking(i) # {}
      BY <1>1, <2>2
    <2> QED
      BY <2>3, <2>4, <2>5, <2>6
  <1> QED
    BY <1>2, StaysOrderly, PTL
============================================================================
