----------------------------- MODULE LoggerProofs -----------------------------
(***************************************************************************)
(* Proofs about the logger, for any number of sessions, files and          *)
(* operations and however much output and however many failures.           *)
(*                                                                         *)
(* LogInv follows every character from the terminal to its file: a         *)
(* session's capture is where its output is, and what the session has in a *)
(* file, followed by what its log still holds for it, is all that is owed, *)
(* in order; a part a failed write left is doubled by the retry, no more.  *)
(* MetaInv says what each step of an operation knows of what the tab       *)
(* shows.                                                                  *)
(***************************************************************************)
EXTENDS Logger, SequenceTheorems, TLAPS

Texts == Seq(Nat)
Mode == {"auto", "manual"}
Rows == [session : Session, mode : Mode, file : File]

-----------------------------------------------------------------------------
(* Texts.                                                                  *)

\* A file that has text of a session that still holds text for it, of which owed is to
\* be there: all characters are below bound, and part says if a failed write left some.
Good(text, held, owed, bound, part) ==
  /\ owed = Range(text \o held)
  /\ Increasing(held)
  /\ InOrder(text \o held)
  /\ ~part => Increasing(text \o held)
  /\ \A i \in DOMAIN (text \o held) : (text \o held)[i] < bound

LEMMA Associative == \A x, y, z \in Texts : (x \o y) \o z = x \o (y \o z)
  BY ConcatAssociative DEF Texts

LEMMA Concat ==
  ASSUME NEW a \in Texts, NEW b \in Texts
  PROVE  /\ a \o b \in Texts
         /\ a \o << >> = a /\ << >> \o a = a
<1>1. a \in Seq(Nat) /\ b \in Seq(Nat)
  BY DEF Texts
<1>2. a \o b \in Seq(Nat)
  BY <1>1, ConcatProperties
<1>3. a \o << >> = a /\ << >> \o a = a
  BY <1>1, ConcatEmptySeq
<1> QED BY <1>2, <1>3 DEF Texts

LEMMA Joined ==
  ASSUME NEW a \in Texts, NEW b \in Texts
  PROVE  /\ a \o b \in Texts /\ Len(a) \in Nat /\ Len(b) \in Nat
         /\ Len(a \o b) = Len(a) + Len(b)
         /\ DOMAIN (a \o b) = 1..(Len(a) + Len(b))
         /\ DOMAIN a = 1..Len(a) /\ DOMAIN b = 1..Len(b)
         /\ \A i \in 1..Len(a) : (a \o b)[i] = a[i] /\ a[i] \in Nat
         /\ \A i \in 1..Len(b) : (a \o b)[Len(a) + i] = b[i] /\ b[i] \in Nat
<1>1. Len(a) \in Nat /\ Len(b) \in Nat
  BY LenProperties DEF Texts
<1>2. /\ a \o b \in Texts /\ Len(a \o b) = Len(a) + Len(b)
      /\ \A i \in 1..(Len(a) + Len(b)) :
           (a \o b)[i] = IF i <= Len(a) THEN a[i] ELSE b[i - Len(a)]
  BY ConcatProperties DEF Texts
<1>3. /\ DOMAIN (a \o b) = 1..(Len(a) + Len(b))
      /\ DOMAIN a = 1..Len(a) /\ DOMAIN b = 1..Len(b)
  BY <1>2, LenProperties DEF Texts
<1>4. \A i \in 1..Len(a) : (a \o b)[i] = a[i]
  BY <1>1, <1>2
<1>5. \A i \in 1..Len(b) : (a \o b)[Len(a) + i] = b[i]
  <2> SUFFICES ASSUME NEW i \in 1..Len(b) PROVE (a \o b)[Len(a) + i] = b[i]
    OBVIOUS
  <2>1. Len(a) + i \in 1..(Len(a) + Len(b)) /\ ~(Len(a) + i <= Len(a)) /\ Len(a) + i - Len(a) = i
    BY <1>1
  <2> QED BY <1>2, <2>1
<1>6. /\ \A i \in 1..Len(a) : a[i] \in Nat
      /\ \A i \in 1..Len(b) : b[i] \in Nat
  BY ElementOfSeq DEF Texts
<1> QED BY <1>1, <1>2, <1>3, <1>4, <1>5, <1>6

LEMMA EmptyText == << >> \in Texts /\ Increasing(<< >>) /\ Range(<< >>) = {}
<1>1. << >> \in Texts /\ DOMAIN << >> = {}
  BY EmptySeq, LenProperties DEF Texts
<1> QED BY <1>1 DEF Increasing, Range

LEMMA RangeText ==
  ASSUME NEW a \in Texts
  PROVE  /\ Range(a) \subseteq Nat
         /\ Range(a) = {a[i] : i \in 1..Len(a)}
  BY RangeOfSeq, RangeEquality DEF Texts

\* A suffix of increasing text is increasing.
LEMMA SuffixIncreasing ==
  ASSUME NEW a \in Texts, NEW b \in Texts, Increasing(a \o b)
  PROVE  Increasing(b)
<1> SUFFICES ASSUME NEW i \in DOMAIN b, NEW j \in DOMAIN b, i < j PROVE b[i] < b[j]
  BY DEF Increasing
<1>1. /\ Len(a) \in Nat /\ Len(b) \in Nat /\ i \in 1..Len(b) /\ j \in 1..Len(b)
      /\ DOMAIN (a \o b) = 1..(Len(a) + Len(b))
      /\ (a \o b)[Len(a) + i] = b[i] /\ (a \o b)[Len(a) + j] = b[j]
  <2>1. /\ Len(a) \in Nat /\ Len(b) \in Nat /\ DOMAIN b = 1..Len(b)
        /\ DOMAIN (a \o b) = 1..(Len(a) + Len(b))
        /\ \A k \in 1..Len(b) : (a \o b)[Len(a) + k] = b[k]
    BY Joined
  <2> QED BY <2>1
<1>2. /\ Len(a) + i \in DOMAIN (a \o b) /\ Len(a) + j \in DOMAIN (a \o b)
      /\ Len(a) + i < Len(a) + j
  BY <1>1
<1> QED BY <1>1, <1>2 DEF Increasing

\* Held text is written.
LEMMA Moved ==
  ASSUME NEW C \in Texts, NEW p \in Texts, NEW q \in Texts, NEW D, NEW b, NEW t,
         Good(C, p \o q, D, b, t)
  PROVE  Good(C \o p, q, D, b, t)
<1>1. (C \o p) \o q = C \o (p \o q)
  BY Associative
<1>2. Increasing(q)
  BY SuffixIncreasing DEF Good
<1> QED BY <1>1, <1>2 DEF Good

\* A character later than all others is held, and owed.
LEMMA Grown ==
  ASSUME NEW C \in Texts, NEW H \in Texts, NEW D, NEW b \in Nat, NEW t, Good(C, H, D, b, t),
         NEW d \in Nat, d > b
  PROVE  Good(C, Append(H, b), D \cup {b}, d, t)
<1> DEFINE X == C \o H
           Y == C \o Append(H, b)
           n == Len(X)
<1>1. X \in Texts /\ Append(H, b) \in Texts /\ <<b>> \in Texts
  BY Concat, AppendProperties DEF Texts
<1>2. Y = Append(X, b)
  <2>1. Append(H, b) = H \o <<b>> /\ Append(X, b) = X \o <<b>>
    BY <1>1, AppendIsConcat DEF Texts
  <2>2. (C \o H) \o <<b>> = C \o (H \o <<b>>)
    BY <1>1, Associative
  <2> QED BY <2>1, <2>2
<1>3. /\ n \in Nat /\ DOMAIN X = 1..n /\ \A i \in 1..n : X[i] \in Nat
  BY <1>1, LenProperties, ElementOfSeq DEF Texts
<1>4. /\ Y \in Texts /\ DOMAIN Y = 1..(n + 1) /\ Y[n + 1] = b
      /\ \A i \in 1..n : Y[i] = X[i]
  BY <1>1, <1>2, AppendProperties, LenProperties DEF Texts
<1>5. /\ D = Range(X) /\ Increasing(H) /\ InOrder(X) /\ (~t => Increasing(X))
      /\ \A i \in 1..n : X[i] < b
  BY <1>3 DEF Good
<1> HIDE DEF X, Y, n
<1>6. \A i \in 1..(n + 1) : Y[i] < d
  <2> SUFFICES ASSUME NEW i \in 1..(n + 1) PROVE Y[i] < d
    OBVIOUS
  <2>1. CASE i = n + 1
    BY <1>4, <2>1
  <2>2. CASE i # n + 1
    <3>1. i \in 1..n
      BY <1>3, <2>2
    <3> QED BY <1>3, <1>4, <1>5, <3>1
  <2> QED BY <2>1, <2>2
<1>7. \A i, j \in 1..(n + 1) : i < j /\ j = n + 1 => Y[i] < Y[j]
  <2> SUFFICES ASSUME NEW i \in 1..(n + 1), i < n + 1 PROVE Y[i] < Y[n + 1]
    OBVIOUS
  <2>1. i \in 1..n
    BY <1>3
  <2> QED BY <1>4, <1>5, <2>1
<1>8. InOrder(Y)
  <2> SUFFICES ASSUME NEW j \in 1..(n + 1), NEW i \in 1..(n + 1), i < j
               PROVE Y[i] < Y[j] \/ \E k \in 1..i : Y[k] = Y[j]
    BY <1>4 DEF InOrder
  <2>1. CASE j = n + 1
    BY <1>7, <2>1
  <2>2. CASE j # n + 1
    <3>1. j \in 1..n /\ i \in 1..n /\ \A k \in 1..i : k \in 1..n
      BY <1>3, <2>2
    <3>2. X[i] < X[j] \/ \E k \in 1..i : X[k] = X[j]
      BY <1>3, <1>5, <3>1 DEF InOrder
    <3> QED BY <1>4, <3>1, <3>2
  <2> QED BY <2>1, <2>2
<1>9. ~t => Increasing(Y)
  <2> SUFFICES ASSUME Increasing(X), NEW j \in 1..(n + 1), NEW i \in 1..(n + 1), i < j
               PROVE Y[i] < Y[j]
    BY <1>4, <1>5 DEF Increasing
  <2>1. CASE j # n + 1
    <3>1. j \in 1..n /\ i \in 1..n
      BY <1>3, <2>1
    <3> QED BY <1>3, <1>4, <3>1 DEF Increasing
  <2> QED BY <1>7, <2>1
<1>10. Increasing(Append(H, b))
  <2> DEFINE G == Append(H, b)
             m == Len(H)
  <2>1. /\ m \in Nat /\ DOMAIN H = 1..m /\ DOMAIN G = 1..(m + 1) /\ G[m + 1] = b
        /\ \A i \in 1..m : G[i] = H[i]
    BY AppendProperties, LenProperties DEF Texts
  <2>2. \A i \in 1..m : H[i] < b
    <3> SUFFICES ASSUME NEW i \in 1..m PROVE H[i] < b
      OBVIOUS
    <3>1. Len(C) \in Nat /\ n = Len(C) + m /\ X[Len(C) + i] = H[i]
      BY Joined DEF X, n
    <3>2. Len(C) + i \in 1..n
      BY <2>1, <3>1
    <3> QED BY <1>5, <3>1, <3>2
  <2> HIDE DEF G, m
  <2> SUFFICES ASSUME NEW j \in 1..(m + 1), NEW i \in 1..(m + 1), i < j PROVE G[i] < G[j]
    BY <2>1 DEF Increasing, G
  <2>3. i \in 1..m
    BY <2>1
  <2>4. CASE j = m + 1
    BY <2>1, <2>2, <2>3, <2>4
  <2>5. CASE j # m + 1
    <3>1. j \in 1..m
      BY <2>1, <2>5
    <3> QED BY <1>5, <2>1, <2>3, <3>1 DEF Increasing
  <2> QED BY <2>4, <2>5
<1>11. D \cup {b} = Range(Y)
  <2>1. Range(<<b>>) = {b}
    BY DEF Range
  <2>2. Range(Y) = Range(X) \cup Range(<<b>>)
    <3>1. Y = X \o <<b>>
      BY <1>1, <1>2, AppendIsConcat DEF Texts, X
    <3>2. X \in Seq(Nat) /\ <<b>> \in Seq(Nat)
      BY <1>1 DEF Texts
    <3> QED BY <3>1, <3>2, RangeConcatenation
  <2> QED BY <1>5, <2>1, <2>2
<1> QED BY <1>4, <1>6, <1>8, <1>9, <1>10, <1>11 DEF Good, Y

\* A part of what is held is written, by a write that then fails: all of it is still held.
LEMMA Torn ==
  ASSUME NEW C \in Texts, NEW p \in Texts, NEW q \in Texts, NEW D, NEW b, NEW t,
         Good(C, p \o q, D, b, t), NEW n \in 0..(Len(p) - 1), NEW u, n = 0 => (t => u),
         n > 0 => u
  PROVE  Good(C \o SubSeq(p, 1, n), p \o q, D, b, u)
<1> DEFINE P == SubSeq(p, 1, n)
           H == p \o q
           X == C \o H
           A == C \o P
           Y == A \o H
           c == Len(C)
           h == Len(H)
<1>1. /\ Len(p) \in Nat /\ n \in Nat /\ n < Len(p)
      /\ \A i \in 1..n : i \in 1..Len(p) /\ p[i] \in Nat
  <2>1. Len(p) \in Nat
    BY LenProperties DEF Texts
  <2>2. \A i \in 1..n : i \in 1..Len(p)
    BY <2>1
  <2>3. \A i \in 1..Len(p) : p[i] \in Nat
    BY ElementOfSeq DEF Texts
  <2> QED BY <2>1, <2>2, <2>3
<1>2. P \in Texts /\ Len(P) = n /\ \A i \in 1..n : P[i] = p[i]
  BY <1>1, SubSeqProperties DEF Texts
<1>3. /\ H \in Texts /\ h \in Nat /\ n < h /\ \A i \in 1..n : H[i] = p[i]
  <2>1. /\ H \in Texts /\ Len(H) = Len(p) + Len(q) /\ Len(q) \in Nat
        /\ \A i \in 1..Len(p) : H[i] = p[i]
    BY Joined
  <2> QED BY <1>1, <2>1
<1> HIDE DEF P, H
<1>4. /\ X \in Texts /\ c \in Nat /\ DOMAIN X = 1..(c + h)
      /\ \A i \in 1..c : X[i] = C[i]
      /\ \A i \in 1..h : X[c + i] = H[i] /\ H[i] \in Nat
      /\ DOMAIN H = 1..h
  BY <1>3, Joined
<1>5. /\ A \in Texts /\ Len(A) = c + n
      /\ \A i \in 1..c : A[i] = C[i]
      /\ \A i \in 1..n : A[c + i] = P[i]
  <2>1. /\ A \in Texts /\ Len(A) = Len(C) + Len(P)
        /\ \A i \in 1..Len(C) : A[i] = C[i]
        /\ \A i \in 1..Len(P) : A[Len(C) + i] = P[i]
    BY <1>2, Joined
  <2> QED BY <1>2, <2>1
<1>6. /\ Y \in Texts /\ DOMAIN Y = 1..(c + n + h)
      /\ \A i \in 1..(c + n) : Y[i] = A[i]
      /\ \A i \in 1..h : Y[c + n + i] = H[i]
  <2>1. /\ Y \in Texts /\ DOMAIN Y = 1..(Len(A) + Len(H))
        /\ \A i \in 1..Len(A) : Y[i] = A[i]
        /\ \A i \in 1..Len(H) : Y[Len(A) + i] = H[i]
    BY <1>3, <1>5, Joined
  <2> QED BY <1>5, <2>1
<1>7. \A i \in 1..(c + h) : X[i] \in Nat
  BY <1>4, ElementOfSeq, LenProperties DEF Texts
<1>8. /\ D = Range(X) /\ Increasing(H) /\ InOrder(X) /\ (~t => Increasing(X))
      /\ \A i \in 1..(c + h) : X[i] < b
  BY <1>4 DEF Good, H
<1> HIDE DEF X, A, Y, c, h
\* What is read at each place of the new text.
<1>9. \A i \in 1..(c + n) : i \in 1..(c + h) /\ Y[i] = X[i]
  <2> SUFFICES ASSUME NEW i \in 1..(c + n) PROVE i \in 1..(c + h) /\ Y[i] = X[i]
    OBVIOUS
  <2>1. CASE i \in 1..c
    BY <1>1, <1>3, <1>4, <1>5, <1>6, <2>1
  <2>2. CASE i \notin 1..c
    <3>1. PICK k \in 1..n : i = c + k
      <4>1. i - c \in 1..n /\ i = c + (i - c)
        BY <1>1, <1>4, <2>2
      <4> QED BY <4>1
    <3>2. Y[i] = p[k]
      BY <1>2, <1>5, <1>6, <3>1
    <3>3. k \in 1..h
      BY <1>1, <1>3
    <3>4. X[i] = H[k] /\ H[k] = p[k]
      BY <1>3, <1>4, <3>1, <3>3
    <3> QED BY <1>1, <1>3, <1>4, <3>2, <3>4
  <2> QED BY <2>1, <2>2
<1>10. \A i \in 1..(c + n + h) : i \notin 1..(c + n) =>
         /\ i - n \in 1..(c + h) /\ Y[i] = X[i - n]
         /\ i - n - c \in 1..h /\ Y[i] = H[i - n - c]
  <2> SUFFICES ASSUME NEW i \in 1..(c + n + h), i \notin 1..(c + n)
               PROVE  /\ i - n \in 1..(c + h) /\ Y[i] = X[i - n]
                      /\ i - n - c \in 1..h /\ Y[i] = H[i - n - c]
    OBVIOUS
  <2>1. PICK k \in 1..h : i = c + n + k
    <3>1. i - (c + n) \in 1..h /\ i = c + n + (i - (c + n))
      BY <1>1, <1>3, <1>4
    <3> QED BY <3>1
  <2>2. i - n = c + k /\ i - n - c = k /\ c + k \in 1..(c + h)
    BY <1>1, <1>3, <1>4, <2>1
  <2>3. Y[i] = H[k] /\ X[c + k] = H[k]
    BY <1>4, <1>6, <2>1
  <2> QED BY <2>2, <2>3
<1>11. \A j \in 1..(c + n + h) : \E k \in 1..(c + h) : Y[j] = X[k]
  BY <1>9, <1>10
<1>12. Range(Y) = Range(X)
  <2>1. \A k \in 1..(c + h) : \E j \in 1..(c + n + h) : Y[j] = X[k]
    <3> SUFFICES ASSUME NEW k \in 1..(c + h) PROVE \E j \in 1..(c + n + h) : Y[j] = X[k]
      OBVIOUS
    <3>1. CASE k <= c + n
      <4>1. k \in 1..(c + n) /\ k \in 1..(c + n + h)
        BY <1>1, <1>3, <1>4, <3>1
      <4> QED BY <1>9, <4>1
    <3>2. CASE ~(k <= c + n)
      <4>1. k + n \in 1..(c + n + h) /\ k + n \notin 1..(c + n) /\ k + n - n = k
        BY <1>1, <1>3, <1>4, <3>2
      <4> QED BY <1>10, <4>1
    <3> QED BY <3>1, <3>2
  <2>2. Range(X) = {X[i] : i \in 1..(c + h)} /\ Range(Y) = {Y[i] : i \in 1..(c + n + h)}
    BY <1>4, <1>6 DEF Range
  <2> QED BY <1>11, <2>1, <2>2
<1>13. \A i \in 1..(c + n + h) : Y[i] < b
  BY <1>8, <1>11
<1>14. InOrder(Y)
  <2> SUFFICES ASSUME NEW j \in 1..(c + n + h), NEW i \in 1..(c + n + h), i < j
               PROVE  Y[i] < Y[j] \/ \E k \in 1..i : Y[k] = Y[j]
    BY <1>6 DEF InOrder
  <2>1. CASE j \in 1..(c + n)
    <3>1. i \in 1..(c + n) /\ \A k \in 1..i : k \in 1..(c + n)
      BY <1>1, <1>4, <2>1
    <3>2. /\ i \in 1..(c + h) /\ j \in 1..(c + h) /\ Y[i] = X[i] /\ Y[j] = X[j]
          /\ \A k \in 1..i : Y[k] = X[k]
      BY <1>9, <2>1, <3>1
    <3>3. X[i] < X[j] \/ \E k \in 1..i : X[k] = X[j]
      BY <1>4, <1>8, <3>2 DEF InOrder
    <3> QED BY <3>2, <3>3
  <2>2. CASE j \notin 1..(c + n) /\ i \notin 1..(c + n)
    <3>1. /\ i - n - c \in 1..h /\ Y[i] = H[i - n - c]
          /\ j - n - c \in 1..h /\ Y[j] = H[j - n - c]
          /\ i - n - c < j - n - c
      BY <1>1, <1>4, <1>10, <2>2
    <3> QED BY <1>4, <1>8, <3>1 DEF Increasing
  <2>3. CASE j \notin 1..(c + n) /\ i \in 1..(c + n)
    <3>1. /\ j - n \in 1..(c + h) /\ Y[j] = X[j - n]
          /\ i \in 1..(c + h) /\ Y[i] = X[i]
      BY <1>9, <1>10, <2>3
    <3>2. \A k \in 1..i : k \in 1..(c + n) /\ Y[k] = X[k]
      BY <1>1, <1>4, <1>9, <2>3
    <3>3. CASE i < j - n
      <4>1. X[i] < X[j - n] \/ \E k \in 1..i : X[k] = X[j - n]
        BY <1>4, <1>8, <3>1, <3>3 DEF InOrder
      <4> QED BY <3>1, <3>2, <4>1
    <3>4. CASE ~(i < j - n)
      <4>1. j - n \in 1..i
        BY <1>1, <1>3, <1>4, <3>1, <3>4
      <4> QED BY <3>1, <3>2, <4>1
    <3> QED BY <3>3, <3>4
  <2> QED BY <2>1, <2>2, <2>3
<1>15. ~u => Increasing(Y)
  <2> SUFFICES ASSUME ~u PROVE Increasing(Y)
    OBVIOUS
  <2>1. n = 0 /\ Increasing(X)
    BY <1>1, <1>8
  <2>2. \A i \in 1..(c + h) : Y[i] = X[i]
    <3> SUFFICES ASSUME NEW i \in 1..(c + h) PROVE Y[i] = X[i]
      OBVIOUS
    <3>1. i \in 1..(c + n + h) /\ i - n = i
      BY <1>3, <1>4, <2>1
    <3> QED BY <1>9, <1>10, <3>1
  <2>3. DOMAIN Y = 1..(c + h)
    BY <1>3, <1>4, <1>6, <2>1
  <2> QED BY <1>4, <2>1, <2>2, <2>3 DEF Increasing
<1> QED BY <1>6, <1>8, <1>12, <1>13, <1>14, <1>15 DEF Good, Y, A, P, H

\* A file is emptied: it owes what is held.
LEMMA Emptied ==
  ASSUME NEW C \in Texts, NEW H \in Texts, NEW D, NEW b, NEW t, Good(C, H, D, b, t)
  PROVE  Good(<< >>, H, Range(H), b, FALSE)
<1>1. << >> \o H = H
  BY Concat
<1>2. /\ DOMAIN H = 1..Len(H) /\ \A i \in 1..Len(H) : (C \o H)[Len(C) + i] = H[i]
      /\ DOMAIN (C \o H) = 1..(Len(C) + Len(H)) /\ Len(C) \in Nat /\ Len(H) \in Nat
  BY Joined
<1>3. \A i \in DOMAIN H : H[i] < b
  <2> SUFFICES ASSUME NEW i \in 1..Len(H) PROVE H[i] < b
    BY <1>2
  <2>1. Len(C) + i \in DOMAIN (C \o H) /\ (C \o H)[Len(C) + i] = H[i]
    BY <1>2
  <2> QED BY <2>1 DEF Good
<1>4. Increasing(H) /\ InOrder(H)
  BY <1>2 DEF Good, Increasing, InOrder
<1> QED BY <1>1, <1>3, <1>4 DEF Good

LEMMA Later ==
  ASSUME NEW C \in Texts, NEW H \in Texts, NEW D, NEW b \in Nat, NEW t, Good(C, H, D, b, t),
         NEW d \in Nat, d >= b
  PROVE  Good(C, H, D, d, t)
<1>1. \A i \in DOMAIN (C \o H) : (C \o H)[i] \in Nat
  BY Joined, ElementOfSeq, LenProperties DEF Texts
<1> QED BY <1>1 DEF Good

-----------------------------------------------------------------------------
(* The logs and their files.                                               *)

LogRecord ==
  [on : {TRUE}, file : File, mode : Mode, display : BOOLEAN, cursor : Nat,
   paused : BOOLEAN, line : Texts, pending : Texts]

LogTypes ==
  /\ cursor \in [Session -> 0..MaxChars]
  /\ log \in [Session -> LogRecord \union {NoLog}]
  /\ content \in [File -> [Session -> Texts]]
  /\ due \in [File -> [Session -> SUBSET Nat]]
  /\ exists \subseteq File
  /\ history \subseteq Rows
  /\ failures \in Nat

\* What the log l has not written yet.
Waiting(l) == l.pending \o l.line

Capturing ==
  \A s \in Session : Active(s) =>
    /\ log[s].cursor \in {NoCursor, cursor[s]}
    /\ ~log[s].display => log[s].line = << >>

\* No character of session s is as late as this: the one at the end of its output is its
\* closing notice.
Bound(s) ==
  IF cursor[s] = MaxChars /\ status[s] \in {"marked", "closed"} THEN MaxChars + 1
  ELSE cursor[s]

Sound(f, s) == Good(content[f][s], Held(f, s), due[f][s], Bound(s), <<f, s>> \in torn)

Recording == \A f \in File, s \in Session : Sound(f, s)

Guarded ==
  \A s \in Session : Active(s) =>
    log[s].file \in exists /\ (readable => Row(s, log[s]) \in history)

\* Before the automatic start nothing else can start a log.
Fresh ==
  /\ \A s \in Session : auto[s] = "due" => tab[s] = "none" /\ ~Active(s)
  /\ \A s \in Session : tab[s] = "none" => LockFree(s)

\* What the logger does for a session, as a tab shows it.
View(s) ==
  IF Active(s)
  THEN [active |-> TRUE, paused |-> log[s].paused, file |-> log[s].file]
  ELSE NoFlags

\* What is said of logs and files alone.
Stored == LogTypes /\ Capturing /\ Recording /\ Guarded

LogInv == Stored /\ Fresh

LEMMA LogBegins == Init => LogInv
<1> SUFFICES ASSUME Init PROVE LogInv
  OBVIOUS
<1> USE DEF Init, NoLog, Active
<1>1. LogTypes
  BY EmptyText, LoggerAssumption DEF LogTypes
<1>2. \A s \in Session : ~Active(s)
  OBVIOUS
<1>3. Fresh
  BY LoggerAssumption DEF Fresh, LockFree, IdleOp
<1>4. Recording
  <2> SUFFICES ASSUME NEW f \in File, NEW s \in Session PROVE Sound(f, s)
    BY DEF Recording
  <2>1. Held(f, s) = << >> /\ content[f][s] = << >> /\ due[f][s] = {}
    BY <1>2 DEF Held
  <2>2. << >> \o << >> = << >>
    BY EmptyText, Concat
  <2>3. DOMAIN << >> = {}
    OBVIOUS
  <2>4. Good(<< >>, << >>, {}, Bound(s), <<f, s>> \in torn)
    BY <2>2, <2>3, EmptyText DEF Good, InOrder
  <2> QED BY <2>1, <2>4 DEF Sound
<1> QED BY <1>1, <1>2, <1>3, <1>4 DEF LogInv, Stored, Capturing, Guarded

\* An active log is a record.
LEMMA ActiveLog ==
  ASSUME NEW l \in LogRecord \union {NoLog}, l.on
  PROVE  /\ l \in LogRecord
         /\ l.file \in File /\ l.mode \in Mode
         /\ l.pending \in Texts /\ l.line \in Texts /\ Waiting(l) \in Texts
<1>1. NoLog.on = FALSE
  BY DEF NoLog
<1>2. l \in LogRecord
  BY <1>1
<1> QED BY <1>2, Concat DEF LogRecord, Waiting

LEMMA LogFields ==
  ASSUME NEW l \in LogRecord
  PROVE  /\ l.on /\ l.file \in File /\ l.mode \in Mode /\ l.paused \in BOOLEAN
         /\ l.pending \in Texts /\ l.line \in Texts
  BY DEF LogRecord

\* What session s has in file f, and holds for it.
LEMMA StoredTypes ==
  ASSUME Stored
  PROVE  /\ log \in [Session -> LogRecord \union {NoLog}]
         /\ content \in [File -> [Session -> Texts]]
         /\ due \in [File -> [Session -> SUBSET Nat]]
         /\ failures \in Nat /\ MaxChars \in Nat
         /\ \A s \in Session : cursor[s] \in Nat /\ cursor[s] <= MaxChars /\ Bound(s) \in Nat
         /\ \A s \in Session : Active(s) => log[s] \in LogRecord
         /\ \A f \in File, s \in Session :
              content[f][s] \in Texts /\ Held(f, s) \in Texts /\ Sound(f, s)
<1>1. \A s \in Session : Active(s) => log[s] \in LogRecord
  BY ActiveLog DEF Stored, LogTypes, Active
<1>2. \A f \in File, s \in Session : Held(f, s) \in Texts
  BY <1>1, EmptyText, LogFields, Concat DEF Held
<1>3. \A s \in Session : cursor[s] \in Nat /\ cursor[s] <= MaxChars /\ Bound(s) \in Nat
  BY LoggerAssumption DEF Stored, LogTypes, Bound
<1> QED BY <1>1, <1>2, <1>3, LoggerAssumption DEF Stored, LogTypes, Recording

\* Nothing is written, held or started.
LEMMA StillStored ==
  ASSUME Stored, UNCHANGED <<cursor, log, disk>>,
         \A s \in Session : Bound(s)' \in Nat /\ Bound(s)' >= Bound(s)
  PROVE  Stored'
<1>1. LogTypes' /\ Capturing' /\ Guarded'
  BY DEF Stored, LogTypes, Capturing, Guarded, Active, Row, disk, files, index
<1>2. Recording'
  <2> SUFFICES ASSUME NEW f \in File, NEW s \in Session PROVE Sound(f, s)'
    BY DEF Recording
  <2>1. /\ content'[f][s] = content[f][s] /\ due'[f][s] = due[f][s] /\ torn' = torn
        /\ Held(f, s)' = Held(f, s)
    BY DEF Held, Active, disk, files
  <2>2. /\ content[f][s] \in Texts /\ Held(f, s) \in Texts /\ Bound(s) \in Nat
        /\ Bound(s)' \in Nat /\ Bound(s)' >= Bound(s)
        /\ Good(content[f][s], Held(f, s), due[f][s], Bound(s), <<f, s>> \in torn)
    BY StoredTypes DEF Sound
  <2>3. Good(content[f][s], Held(f, s), due[f][s], Bound(s)', <<f, s>> \in torn)
    BY <2>2, Later
  <2> QED BY <2>1, <2>3 DEF Sound
<1> QED BY <1>1, <1>2 DEF Stored

LEMMA SameBounds ==
  ASSUME Stored, UNCHANGED terminal
  PROVE  \A s \in Session : Bound(s)' = Bound(s) /\ Bound(s)' \in Nat /\ Bound(s)' >= Bound(s)
  BY StoredTypes DEF Bound, terminal

\* Files are emptied, and what is held stays.
LEMMA EmptyKeeps ==
  ASSUME Stored, NEW S \in SUBSET File, Empty(S),
         \A f \in File, s \in Session : Held(f, s)' = Held(f, s),
         \A s \in Session : Bound(s)' = Bound(s)
  PROVE  /\ content' \in [File -> [Session -> Texts]]
         /\ due' \in [File -> [Session -> SUBSET Nat]]
         /\ Recording'
<1>1. /\ content' = [f \in File |-> IF f \in S THEN [s \in Session |-> << >>] ELSE content[f]]
      /\ due' = [f \in File |->
                   IF f \in S THEN [s \in Session |-> Range(Held(f, s))] ELSE due[f]]
      /\ torn' = {p \in torn : p[1] \notin S}
  BY DEF Empty
<1>2. /\ content \in [File -> [Session -> Texts]] /\ due \in [File -> [Session -> SUBSET Nat]]
      /\ << >> \in Texts
      /\ \A f \in File, s \in Session : Held(f, s) \in Texts /\ Range(Held(f, s)) \in SUBSET Nat
  BY StoredTypes, EmptyText, RangeText
<1>3. content' \in [File -> [Session -> Texts]] /\ due' \in [File -> [Session -> SUBSET Nat]]
  BY <1>1, <1>2
<1>4. ASSUME NEW f \in File, NEW s \in Session PROVE Sound(f, s)'
  <2>1. /\ content[f][s] \in Texts /\ Held(f, s) \in Texts
        /\ Good(content[f][s], Held(f, s), due[f][s], Bound(s), <<f, s>> \in torn)
    BY StoredTypes DEF Sound
  <2>2. <<f, s>>[1] = f
    OBVIOUS
  <2>3. CASE f \in S
    <3>1. content'[f][s] = << >> /\ due'[f][s] = Range(Held(f, s)) /\ <<f, s>> \notin torn'
      BY <1>1, <2>2, <2>3
    <3>2. Good(<< >>, Held(f, s), Range(Held(f, s)), Bound(s), FALSE)
      BY <2>1, Emptied
    <3>3. Good(<< >>, Held(f, s), Range(Held(f, s)), Bound(s), <<f, s>> \in torn')
      BY <3>1, <3>2 DEF Good
    <3> QED BY <3>1, <3>3 DEF Sound
  <2>4. CASE f \notin S
    <3>1. /\ content'[f][s] = content[f][s] /\ due'[f][s] = due[f][s]
          /\ <<f, s>> \in torn' <=> <<f, s>> \in torn
      BY <1>1, <2>2, <2>4
    <3> QED BY <2>1, <3>1 DEF Sound, Good
  <2> QED BY <2>3, <2>4
<1> QED BY <1>3, <1>4 DEF Recording

\* The log of session s becomes l, what the session has in its file x, and what it owes
\* there D.
LEMMA Rewritten ==
  ASSUME Stored, NEW s \in Session, Active(s), NEW l \in LogRecord \union {NoLog},
         NEW x \in Texts, NEW D \in SUBSET Nat,
         log' = [log EXCEPT ![s] = l],
         content' = [content EXCEPT ![log[s].file][s] = x],
         due' = [due EXCEPT ![log[s].file][s] = D],
         \A f \in File, t \in Session :
           f # log[s].file \/ t # s => (<<f, t>> \in torn' <=> <<f, t>> \in torn),
         Good(x, IF l.on THEN Waiting(l) ELSE << >>, D, Bound(s)',
              <<log[s].file, s>> \in torn'),
         l.on => /\ l.file = log[s].file /\ l.mode = log[s].mode
                 /\ l.cursor \in {NoCursor, cursor'[s]}
                 /\ ~l.display => l.line = << >>,
         UNCHANGED <<exists, index>>,
         cursor' \in [Session -> 0..MaxChars], failures' \in Nat,
         Bound(s)' \in Nat, Bound(s)' >= Bound(s),
         \A t \in Session \ {s} : cursor'[t] = cursor[t] /\ Bound(t)' = Bound(t)
  PROVE  Stored'
<1> DEFINE f == log[s].file
<1>1. f \in File /\ log[s] \in LogRecord /\ log[s].on
  BY ActiveLog DEF Stored, LogTypes, Active
<1>2. LogTypes'
  BY <1>1 DEF Stored, LogTypes, index
<1>3. /\ log'[s] = l /\ content'[f][s] = x /\ due'[f][s] = D
      /\ \A t \in Session \ {s} : log'[t] = log[t]
      /\ \A g \in File, t \in Session :
           g # f \/ t # s => content'[g][t] = content[g][t] /\ due'[g][t] = due[g][t]
  BY <1>1 DEF Stored, LogTypes
<1> HIDE DEF f
<1>4. Capturing'
  BY <1>3 DEF Stored, Capturing, Active, NoCursor
<1>5. Guarded'
  BY <1>1, <1>3 DEF Stored, Guarded, Active, Row, f, index
<1>6. Recording'
  <2> SUFFICES ASSUME NEW g \in File, NEW t \in Session PROVE Sound(g, t)'
    BY DEF Recording
  <2>1. CASE g = f /\ t = s
    <3>1. Held(g, t)' = IF l.on THEN Waiting(l) ELSE << >>
      BY <1>3, <2>1 DEF Held, Active, Waiting, f
    <3>2. content'[g][t] = x /\ due'[g][t] = D
      BY <1>3, <2>1
    <3> QED BY <2>1, <3>1, <3>2 DEF Sound, f
  <2>2. CASE g # f \/ t # s
    <3>1. /\ content'[g][t] = content[g][t] /\ due'[g][t] = due[g][t]
          /\ (<<g, t>> \in torn') = (<<g, t>> \in torn)
      BY <1>3, <2>2 DEF f
    <3>2. Held(g, t)' = Held(g, t)
      <4>1. CASE t = s
        BY <1>3, <2>2, <4>1 DEF Held, Active, f
      <4>2. CASE t # s
        BY <1>3, <4>2 DEF Held, Active
      <4> QED BY <4>1, <4>2
    <3>3. /\ content[g][t] \in Texts /\ Held(g, t) \in Texts /\ Bound(t) \in Nat
          /\ Bound(t)' \in Nat /\ Bound(t)' >= Bound(t)
          /\ Good(content[g][t], Held(g, t), due[g][t], Bound(t), <<g, t>> \in torn)
      BY StoredTypes DEF Sound
    <3>4. Good(content[g][t], Held(g, t), due[g][t], Bound(t)', <<g, t>> \in torn)
      BY <3>3, Later
    <3> QED BY <3>1, <3>2, <3>4 DEF Sound
  <2> QED BY <2>1, <2>2
<1> QED BY <1>2, <1>4, <1>5, <1>6 DEF Stored

\* What a step leaves of the view on the logs: session s keeps its file.
SameLog(s) == Active(s)' /\ log'[s].file = log[s].file

LEMMA GoodOwes ==
  ASSUME NEW C \in Texts, NEW H \in Texts, NEW D, NEW b, NEW t, Good(C, H, D, b, t)
  PROVE  D \in SUBSET Nat
<1>1. C \o H \in Texts
  BY Concat
<1> QED BY <1>1, RangeText DEF Good

\* write_pending of l, whether all, some or none of it can be written.
LEMMA WriteKeeps ==
  ASSUME Stored, NEW s \in Session, Active(s), NEW l \in LogRecord,
         NEW after \in LogRecord \union {NoLog}, NEW D,
         l.file = log[s].file, l.mode = log[s].mode,
         l.cursor \in {NoCursor, cursor'[s]}, ~l.display => l.line = << >>,
         after.on => /\ after.file = l.file /\ after.mode = l.mode
                     /\ after.cursor = l.cursor /\ after.display = l.display
                     /\ after.pending = << >> /\ after.line = l.line,
         ~after.on => l.line = << >>,
         WriteOut(s, l, after),
         due' = [due EXCEPT ![l.file][s] = D],
         Good(content[l.file][s], Waiting(l), D, Bound(s)', <<l.file, s>> \in torn),
         UNCHANGED <<exists, index>>,
         cursor' \in [Session -> 0..MaxChars],
         Bound(s)' \in Nat, Bound(s)' >= Bound(s),
         \A t \in Session \ {s} : cursor'[t] = cursor[t] /\ Bound(t)' = Bound(t)
  PROVE  /\ Stored'
         /\ \A t \in Session \ {s} : log'[t] = log[t]
         /\ failures' = failures => log'[s] = after
         /\ failures' # failures => log'[s] = l
<1> DEFINE f == log[s].file
           C == content[f][s]
<1>1. /\ f \in File /\ C \in Texts /\ l.on /\ failures \in Nat
      /\ l.pending \in Texts /\ l.line \in Texts /\ << >> \in Texts
      /\ content \in [File -> [Session -> Texts]] /\ log \in [Session -> LogRecord \union {NoLog}]
      /\ Waiting(l) \in Texts
  BY StoredTypes, LogFields, EmptyText, Concat DEF Waiting
<1>2. D \in SUBSET Nat
  BY <1>1, GoodOwes
<1>3. CASE /\ content' = Written(s, l, l.pending) /\ log' = [log EXCEPT ![s] = after]
           /\ UNCHANGED <<failures, torn>>
  <2> DEFINE x == C \o l.pending
             H == IF after.on THEN Waiting(after) ELSE << >>
  <2>1. x \in Texts /\ content' = [content EXCEPT ![f][s] = x]
    BY <1>1, <1>3, Concat DEF Written
  <2>2. H = l.line
    <3>1. CASE after.on
      <4>1. H = << >> \o l.line
        BY <3>1 DEF Waiting
      <4> QED BY <1>1, <4>1, Concat
    <3>2. CASE ~after.on
      BY <3>2
    <3> QED BY <3>1, <3>2
  <2>3. Good(x, l.line, D, Bound(s)', <<f, s>> \in torn)
    BY <1>1, Moved DEF Waiting
  <2> HIDE DEF x, H
  <2>4. Good(x, H, D, Bound(s)', <<f, s>> \in torn')
    BY <1>3, <2>2, <2>3
  <2>5. after.on => /\ after.file = f /\ after.mode = log[s].mode
                    /\ after.cursor \in {NoCursor, cursor'[s]}
                    /\ ~after.display => after.line = << >>
    OBVIOUS
  <2>6. Stored'
    BY <1>1, <1>2, <1>3, <2>1, <2>4, <2>5, Rewritten DEF H
  <2> QED BY <1>1, <1>3, <2>6
<1>4. CASE WriteFails(s, l)
  <2>1. PICK n \in 0..(Len(l.pending) - 1) :
          /\ content' = Written(s, l, SubSeq(l.pending, 1, n))
          /\ torn' = IF n = 0 THEN torn ELSE torn \cup {<<l.file, s>>}
    BY <1>4 DEF WriteFails
  <2> DEFINE x == C \o SubSeq(l.pending, 1, n)
  <2>2. x \in Texts
    <3>1. Len(l.pending) \in Nat /\ \A i \in 1..Len(l.pending) : l.pending[i] \in Nat
      BY <1>1, LenProperties, ElementOfSeq DEF Texts
    <3>2. \A i \in 1..n : i \in 1..Len(l.pending)
      BY <3>1
    <3>3. SubSeq(l.pending, 1, n) \in Texts
      BY <3>1, <3>2, SubSeqProperties DEF Texts
    <3> QED BY <1>1, <3>3, Concat
  <2>3. content' = [content EXCEPT ![f][s] = x]
    BY <1>1, <2>1 DEF Written
  <2>4. /\ n = 0 => (<<f, s>> \in torn => <<f, s>> \in torn')
        /\ n > 0 => <<f, s>> \in torn'
    BY <2>1
  <2>5. Good(C, l.pending \o l.line, D, Bound(s)', <<f, s>> \in torn)
    BY DEF Waiting
  <2>6. Good(x, l.pending \o l.line, D, Bound(s)', <<f, s>> \in torn')
    <3> DEFINE p == l.pending
               q == l.line
               t == <<f, s>> \in torn
               u == <<f, s>> \in torn'
               b == Bound(s)'
    <3>1. /\ C \in Texts /\ p \in Texts /\ q \in Texts /\ n \in 0..(Len(p) - 1)
          /\ Good(C, p \o q, D, b, t)
          /\ n = 0 => (t => u)
          /\ n > 0 => u
      BY <1>1, <2>4, <2>5
    <3> HIDE DEF C, p, q, t, u, b
    <3>2. Good(C \o SubSeq(p, 1, n), p \o q, D, b, u)
      BY <3>1, Torn
    <3> QED BY <3>2 DEF p, q, u, b
  <2> HIDE DEF C
  <2> HIDE DEF x
  <2>7. Good(x, IF l.on THEN Waiting(l) ELSE << >>, D, Bound(s)', <<f, s>> \in torn')
    BY <1>1, <2>6 DEF Waiting
  <2>8. \A g \in File, t \in Session :
          g # f \/ t # s => (<<g, t>> \in torn' <=> <<g, t>> \in torn)
    BY <2>1
  <2>9. failures' = failures + 1 /\ log' = [log EXCEPT ![s] = l]
    BY <1>4 DEF WriteFails
  <2>10. /\ l \in LogRecord \union {NoLog} /\ failures' \in Nat
         /\ l.on => /\ l.file = log[s].file /\ l.mode = log[s].mode
                    /\ l.cursor \in {NoCursor, cursor'[s]}
                    /\ ~l.display => l.line = << >>
    BY <1>1, <2>9
  <2>11. due' = [due EXCEPT ![log[s].file][s] = D]
    OBVIOUS
  <2>12. Stored'
    BY <1>2, <2>2, <2>3, <2>7, <2>8, <2>9, <2>10, <2>11, Rewritten
  <2> QED BY <1>1, <2>9, <2>12
<1> QED BY <1>3, <1>4 DEF WriteOut

LEMMA Pending ==
  ASSUME NEW l \in LogRecord, NEW p \in Texts, NEW q \in Texts
  PROVE  /\ [l EXCEPT !.pending = p, !.line = q] \in LogRecord
         /\ [l EXCEPT !.pending = p] \in LogRecord
         /\ Waiting([l EXCEPT !.pending = p, !.line = q]) = p \o q
         /\ Waiting([l EXCEPT !.pending = p]) = p \o l.line
         /\ \A n \in Nat : /\ [l EXCEPT !.cursor = n] \in LogRecord
                          /\ Waiting([l EXCEPT !.cursor = n]) = Waiting(l)
  BY DEF LogRecord, Waiting

LEMMA SameDue ==
  ASSUME Stored, NEW f \in File, NEW s \in Session
  PROVE  due = [due EXCEPT ![f][s] = due[f][s]]
  BY DEF Stored, LogTypes

LEMMA DrainedLog ==
  ASSUME NEW l \in LogRecord
  PROVE  /\ Drained(l) \in LogRecord /\ Drained(l).on /\ Drained(l).file = l.file
         /\ Drained(l).mode = l.mode /\ Drained(l).cursor = l.cursor
         /\ Drained(l).paused = l.paused /\ Drained(l).display = l.display
         /\ Drained(l).pending = Waiting(l) /\ Drained(l).line = << >>
         /\ Waiting(Drained(l)) = Waiting(l)
<1>1. l.pending \in Texts /\ l.line \in Texts /\ << >> \in Texts /\ Waiting(l) \in Texts
  BY LogFields, EmptyText, Concat DEF Waiting
<1>2. Drained(l) = [l EXCEPT !.pending = Waiting(l), !.line = << >>]
  BY DEF Drained, Waiting, LogRecord
<1>3. Waiting(Drained(l)) = Waiting(l) \o << >> /\ Drained(l) \in LogRecord
  <2> DEFINE w == Waiting(l)
             e == << >>
  <2>1. w \in Texts /\ e \in Texts /\ Drained(l) = [l EXCEPT !.pending = w, !.line = e]
    BY <1>1, <1>2
  <2> HIDE DEF w, e
  <2>2. Waiting([l EXCEPT !.pending = w, !.line = e]) = w \o e
    BY <2>1, Pending
  <2>3. [l EXCEPT !.pending = w, !.line = e] \in LogRecord
    BY <2>1, Pending
  <2> QED BY <2>1, <2>2, <2>3 DEF w, e
<1>4. Waiting(l) \o << >> = Waiting(l)
  BY <1>1, Concat
<1> QED BY <1>2, <1>3, <1>4 DEF LogRecord

LEMMA FlushKeeps ==
  ASSUME Stored, NEW s \in Session, Active(s), NEW after \in LogRecord \union {NoLog},
         after.on => /\ after.file = log[s].file /\ after.mode = log[s].mode
                     /\ after.cursor = log[s].cursor /\ after.display = log[s].display
                     /\ after.pending = << >> /\ after.line = << >>,
         FlushTo(s, after), UNCHANGED <<cursor, exists, index>>,
         \A t \in Session : Bound(t)' = Bound(t)
  PROVE  /\ Stored'
         /\ \A t \in Session \ {s} : log'[t] = log[t]
         /\ failures' = failures => log'[s] = after
         /\ failures' # failures => SameLog(s) /\ log'[s].paused = log[s].paused
<1> DEFINE f == log[s].file
           d == Drained(log[s])
<1>1. /\ f \in File /\ log[s] \in LogRecord
      /\ content[f][s] \in Texts /\ Bound(s) \in Nat
      /\ Good(content[f][s], Held(f, s), due[f][s], Bound(s), <<f, s>> \in torn)
      /\ Held(f, s) = Waiting(log[s])
  <2>1. f \in File /\ log[s] \in LogRecord
    BY StoredTypes, LogFields
  <2> QED BY <2>1, StoredTypes DEF Sound, Held, Waiting
<1>2. /\ d \in LogRecord /\ d.on /\ d.file = f /\ d.mode = log[s].mode
      /\ d.cursor = log[s].cursor /\ d.paused = log[s].paused /\ d.display = log[s].display
      /\ d.line = << >> /\ Waiting(d) = Waiting(log[s])
  BY <1>1, DrainedLog
<1>3. log[s].cursor \in {NoCursor, cursor'[s]} /\ cursor' \in [Session -> 0..MaxChars]
  BY DEF Stored, LogTypes, Capturing
<1>4. due' = [due EXCEPT ![f][s] = due[f][s]]
  BY <1>1, SameDue DEF FlushTo
<1> HIDE DEF d
<1>5. WriteOut(s, d, after)
  BY DEF FlushTo, d
<1>6. Good(content[d.file][s], Waiting(d), due[f][s], Bound(s)', <<d.file, s>> \in torn)
  BY <1>1, <1>2
<1>7. /\ Bound(s)' \in Nat /\ Bound(s)' >= Bound(s)
      /\ \A t \in Session \ {s} : cursor'[t] = cursor[t] /\ Bound(t)' = Bound(t)
  BY <1>1
<1>8. after.on => /\ after.file = d.file /\ after.mode = d.mode
                  /\ after.cursor = d.cursor /\ after.display = d.display
                  /\ after.pending = << >> /\ after.line = d.line
  BY <1>2
<1>9. /\ Stored'
      /\ \A t \in Session \ {s} : log'[t] = log[t]
      /\ failures' = failures => log'[s] = after
      /\ failures' # failures => log'[s] = d
  <2>1. due' = [due EXCEPT ![d.file][s] = due[f][s]]
    BY <1>2, <1>4
  <2> QED BY <1>2, <1>3, <1>5, <1>6, <1>7, <1>8, <2>1, WriteKeeps
<1> QED BY <1>2, <1>9 DEF SameLog, Active

LEMMA Appended ==
  ASSUME NEW a \in Texts, NEW b \in Texts, NEW c \in Nat
  PROVE  /\ Append(a, c) \in Texts
         /\ Append(a \o b, c) = a \o Append(b, c)
<1>1. \A x \in Texts : Append(x, c) = x \o <<c>> /\ Append(x, c) \in Texts
  BY AppendIsConcat, AppendProperties DEF Texts
<1>2. a \o b \in Texts /\ <<c>> \in Texts
  BY Concat DEF Texts
<1>3. (a \o b) \o <<c>> = a \o (b \o <<c>>)
  BY <1>2, Associative
<1> QED BY <1>1, <1>2, <1>3

\* One more character: it comes last in what waits.
LEMMA Pushed ==
  ASSUME NEW l \in LogRecord, NEW c \in Nat, NEW ends \in BOOLEAN,
         ~l.display => l.line = << >>
  PROVE  LET m == Push(l, c, ends) IN
         /\ m \in LogRecord /\ Waiting(m) = Append(Waiting(l), c)
         /\ m.file = l.file /\ m.mode = l.mode /\ m.cursor = l.cursor
         /\ m.paused = l.paused /\ m.display = l.display
         /\ ~m.display => m.line = << >>
<1>1. l.pending \in Texts /\ l.line \in Texts /\ << >> \in Texts
  BY LogFields, EmptyText
<1> DEFINE p == l.pending
           q == l.line
           qc == Append(q, c)
           pc == Append(p, c)
           pqc == p \o qc
<1>2. qc \in Texts /\ pc \in Texts /\ Append(p \o q, c) = pqc
  BY <1>1, Appended
<1>3. pqc \in Texts /\ pqc \o << >> = pqc /\ pc \o << >> = pc /\ p \o << >> = p
  BY <1>1, <1>2, Concat
<1>4. Waiting(l) = p \o q
  BY DEF Waiting
<1>5. CASE ~l.display
  <2>1. Push(l, c, ends) = [l EXCEPT !.pending = pc]
    BY <1>5 DEF Push
  <2> HIDE DEF p, q, qc, pc, pqc
  <2>2. l.line = << >> /\ l.line = q
    BY <1>5 DEF q
  <2>3. Waiting([l EXCEPT !.pending = pc]) = Append(Waiting(l), c)
    <3>1. Waiting([l EXCEPT !.pending = pc]) = pc \o l.line
      BY <1>1, <1>2, Pending
    <3>2. Waiting(l) = p
      BY <1>3, <1>4, <2>2
    <3> QED BY <1>3, <2>2, <3>1, <3>2 DEF pc
  <2>4. [l EXCEPT !.pending = pc] \in LogRecord
    BY <1>1, <1>2, Pending
  <2> QED BY <1>5, <2>1, <2>2, <2>3, <2>4 DEF LogRecord
<1>6. CASE l.display /\ ends
  <2>1. Push(l, c, ends) = [l EXCEPT !.pending = pqc, !.line = << >>]
    BY <1>6 DEF Push
  <2> HIDE DEF p, q, qc, pc, pqc
  <2>2. Waiting([l EXCEPT !.pending = pqc, !.line = << >>]) = pqc \o << >>
    BY <1>1, <1>3, Pending
  <2>3. [l EXCEPT !.pending = pqc, !.line = << >>] \in LogRecord
    BY <1>1, <1>3, Pending
  <2> QED BY <1>2, <1>3, <1>4, <1>6, <2>1, <2>2, <2>3 DEF LogRecord
<1>7. CASE l.display /\ ~ends
  <2>1. Push(l, c, ends) = [l EXCEPT !.line = qc]
    BY <1>7 DEF Push
  <2> HIDE DEF qc, pc, pqc
  <2>2. Waiting([l EXCEPT !.line = qc]) = p \o qc
    BY <1>2 DEF Waiting, LogRecord
  <2>3. [l EXCEPT !.line = qc] \in LogRecord
    BY <1>2 DEF LogRecord
  <2> QED BY <1>2, <1>4, <1>7, <2>1, <2>2, <2>3 DEF LogRecord, pqc
<1> QED BY <1>5, <1>6, <1>7


\* capture_text of a character later than all others, which is owed unless the capture
\* is paused.
LEMMA CaptureKeeps ==
  ASSUME Stored, NEW s \in Session, Active(s), NEW n \in Nat, NEW c, c = Bound(s),
         NEW ends \in BOOLEAN,
         n \in {NoCursor, cursor'[s]},
         CaptureText(s, [log[s] EXCEPT !.cursor = n], c, ends),
         UNCHANGED <<exists, index>>,
         cursor' \in [Session -> 0..MaxChars],
         Bound(s)' \in Nat, Bound(s)' > c,
         \A t \in Session \ {s} : cursor'[t] = cursor[t] /\ Bound(t)' = Bound(t)
  PROVE  /\ Stored' /\ SameLog(s) /\ log'[s].paused = log[s].paused
         /\ \A t \in Session \ {s} : log'[t] = log[t]
<1> DEFINE l == [log[s] EXCEPT !.cursor = n]
           f == log[s].file
           C == content[f][s]
           m == IF l.paused THEN l ELSE Push(l, c, ends)
           D == IF l.paused THEN due[f][s] ELSE due[f][s] \cup {c}
           after == [m EXCEPT !.pending = << >>]
<1>1. /\ log[s] \in LogRecord /\ f \in File /\ C \in Texts /\ c \in Nat
      /\ ~log[s].display => log[s].line = << >>
      /\ Good(C, Held(f, s), due[f][s], Bound(s), <<f, s>> \in torn)
      /\ Held(f, s) = Waiting(log[s]) /\ Waiting(log[s]) \in Texts
  <2>1. log[s] \in LogRecord /\ f \in File
    BY StoredTypes, LogFields
  <2> QED BY <2>1, StoredTypes DEF Stored, Capturing, Sound, Held, Waiting
<1>2. /\ l \in LogRecord /\ l.file = f /\ l.mode = log[s].mode /\ l.cursor = n
      /\ l.paused = log[s].paused /\ l.paused \in BOOLEAN /\ Waiting(l) = Waiting(log[s])
      /\ ~l.display => l.line = << >>
  <2>1. l \in LogRecord /\ Waiting(l) = Waiting(log[s])
    BY <1>1, Pending, EmptyText
  <2>2. /\ l.file = log[s].file /\ l.mode = log[s].mode /\ l.cursor = n
        /\ l.paused = log[s].paused /\ l.display = log[s].display /\ l.line = log[s].line
    BY <1>1 DEF LogRecord
  <2> QED BY <1>1, <2>1, <2>2, LogFields
<1>3. /\ m \in LogRecord /\ m.file = f /\ m.mode = log[s].mode /\ m.cursor = n
      /\ m.paused = log[s].paused
      /\ ~m.display => m.line = << >>
      /\ Good(C, Waiting(m), D, Bound(s)', <<f, s>> \in torn)
  <2> DEFINE H == Waiting(log[s])
             b == Bound(s)
             d == Bound(s)'
             t == <<f, s>> \in torn
             E == due[f][s]
  <2>1. /\ H \in Texts /\ b \in Nat /\ d \in Nat /\ d > b /\ d >= b /\ Good(C, H, E, b, t)
    BY <1>1
  <2>2. CASE l.paused
    <3>1. m = l /\ D = E /\ Waiting(m) = H
      BY <1>2, <2>2
    <3> HIDE DEF m, D, E, H, l, b, d, t, C
    <3>2. Good(C, H, E, d, t)
      BY <1>1, <2>1, Later
    <3> QED BY <1>2, <3>1, <3>2 DEF d, t, C
  <2>3. CASE ~l.paused
    <3>1. m = Push(l, c, ends) /\ D = E \cup {b}
      BY <2>3
    <3> HIDE DEF m, D, E, l, b, d, t, C
    <3>2. /\ m \in LogRecord /\ Waiting(m) = Append(Waiting(l), c)
          /\ m.file = l.file /\ m.mode = l.mode /\ m.cursor = l.cursor
          /\ m.paused = l.paused /\ m.display = l.display
          /\ ~m.display => m.line = << >>
      BY <1>1, <1>2, <3>1, Pushed
    <3>3. Waiting(m) = Append(H, b)
      BY <1>2, <3>2 DEF b
    <3> HIDE DEF H
    <3>4. Good(C, Append(H, b), E \cup {b}, d, t)
      BY <1>1, <2>1, Grown
    <3> QED BY <1>2, <3>1, <3>2, <3>3, <3>4 DEF d, t, C
  <2> QED BY <2>2, <2>3
<1>4. WriteOut(s, m, after)
  BY DEF CaptureText
<1>5. due' = [due EXCEPT ![f][s] = D]
  <2>1. CASE l.paused
    <3>1. due' = due
      BY <2>1 DEF CaptureText
    <3>2. due = [due EXCEPT ![f][s] = due[f][s]]
      BY <1>1, SameDue
    <3> QED BY <2>1, <3>1, <3>2
  <2>2. CASE ~l.paused
    <3>1. due' = [due EXCEPT ![f][s] = @ \cup {c}]
      BY <1>2, <2>2 DEF CaptureText
    <3> QED BY <2>2, <3>1
  <2> QED BY <2>1, <2>2
<1> HIDE DEF m, D, l
<1>6. /\ after \in LogRecord /\ after.on /\ after.file = m.file /\ after.mode = m.mode
      /\ after.cursor = m.cursor /\ after.display = m.display /\ after.paused = m.paused
      /\ after.pending = << >> /\ after.line = m.line
  <2>1. after \in LogRecord
    BY <1>3, EmptyText, Pending
  <2> QED BY <1>3, <2>1 DEF LogRecord
<1> HIDE DEF after
<1>7. Good(content[m.file][s], Waiting(m), D, Bound(s)', <<m.file, s>> \in torn)
  BY <1>3
<1>8. /\ Bound(s)' >= Bound(s) /\ m.cursor \in {NoCursor, cursor'[s]}
      /\ due' = [due EXCEPT ![m.file][s] = D]
  BY <1>1, <1>3, <1>5
<1>9. /\ Stored' /\ \A t \in Session \ {s} : log'[t] = log[t]
      /\ failures' = failures => log'[s] = after
      /\ failures' # failures => log'[s] = m
  <2>1. /\ m \in LogRecord /\ m.file = log[s].file /\ m.mode = log[s].mode
        /\ ~m.display => m.line = << >>
    BY <1>3
  <2>2. after \in LogRecord \union {NoLog} /\ after.on
    BY <1>6
  <2> HIDE DEF f, C
  <2> QED BY <1>4, <1>6, <1>7, <1>8, <2>1, <2>2, WriteKeeps
<1>10. m.on
  BY <1>3, LogFields
<1>11. log'[s] \in {after, m}
  BY <1>9
<1> QED BY <1>3, <1>6, <1>9, <1>10, <1>11 DEF SameLog, Active

\* A file of a log, or of none, is opened; no active log changes.
LEMMA OpenKeeps ==
  ASSUME Stored, NEW f \in File, NEW append \in BOOLEAN, OpenFile(f, append),
         \A g \in File, s \in Session : Held(g, s)' = Held(g, s),
         \A s \in Session : Bound(s)' = Bound(s)
  PROVE  /\ content' \in [File -> [Session -> Texts]]
         /\ due' \in [File -> [Session -> SUBSET Nat]]
         /\ Recording'
         /\ exists' = exists \cup {f}
<1> DEFINE S == IF append THEN {} ELSE {f}
<1>1. Empty(S) /\ S \in SUBSET File /\ exists' = exists \cup {f}
  BY DEF OpenFile
<1> HIDE DEF S
<1> QED BY <1>1, EmptyKeeps

\* A log starts, in whichever file.
LEMMA CreateKeeps ==
  ASSUME Stored, NEW s \in Session, ~Active(s), NEW f \in File, NEW mode \in Mode,
         NEW append \in BOOLEAN, CreateLog(s, f, mode, append), UNCHANGED terminal
  PROVE  /\ Stored'
         /\ Active(s)' /\ log'[s].file = f /\ log'[s].paused = FALSE
         /\ \A t \in Session \ {s} : log'[t] = log[t]
<1> PICK display \in BOOLEAN :
      LET l == NewLog(f, mode, display)
      IN  /\ readable
          /\ OpenFile(f, append)
          /\ history' = Upsert(Row(s, l))
          /\ log' = [log EXCEPT ![s] = l]
          /\ UNCHANGED <<readable, failures>>
  BY DEF CreateLog
<1> DEFINE l == NewLog(f, mode, display)
<1>1. /\ log \in [Session -> LogRecord \union {NoLog}] /\ failures \in Nat
      /\ exists \subseteq File /\ history \subseteq Rows
      /\ cursor' \in [Session -> 0..MaxChars] /\ cursor' = cursor
  BY StoredTypes DEF Stored, LogTypes, terminal
<1>2. l \in LogRecord
  BY EmptyText, LoggerAssumption DEF NewLog, LogRecord, NoCursor
<1>3. /\ l.on /\ l.file = f /\ l.mode = mode /\ l.paused = FALSE
      /\ l.cursor = NoCursor /\ l.line = << >> /\ l.pending = << >>
  BY DEF NewLog
<1> HIDE DEF l
<1>4. log'[s] = l /\ \A t \in Session \ {s} : log'[t] = log[t]
  BY <1>1 DEF l
<1>5. \A t \in Session : Active(t)' <=> t = s \/ Active(t)
  BY <1>3, <1>4 DEF Active
<1>6. \A g \in File, t \in Session : Held(g, t)' = Held(g, t)
  <2> SUFFICES ASSUME NEW g \in File, NEW t \in Session PROVE Held(g, t)' = Held(g, t)
    OBVIOUS
  <2>1. << >> \o << >> = << >>
    BY EmptyText, Concat
  <2>2. CASE t = s
    BY <1>3, <1>4, <2>1, <2>2 DEF Held
  <2>3. CASE t # s
    BY <1>4, <1>5, <2>3 DEF Held
  <2> QED BY <2>2, <2>3
<1>7. /\ content' \in [File -> [Session -> Texts]]
      /\ due' \in [File -> [Session -> SUBSET Nat]]
      /\ Recording' /\ exists' = exists \cup {f}
  BY <1>6, SameBounds, OpenKeeps
<1>8. LogTypes'
  <2>1. Row(s, l) \in Rows
    BY <1>3 DEF Row, Rows
  <2>2. history' \subseteq Rows
    BY <1>1, <2>1 DEF Upsert, l
  <2>3. log' \in [Session -> LogRecord \union {NoLog}]
    BY <1>1, <1>2 DEF l
  <2> QED BY <1>1, <1>7, <2>2, <2>3 DEF LogTypes
<1>9. Capturing'
  BY <1>1, <1>3, <1>4, <1>5 DEF Stored, Capturing, NoCursor
<1>10. Guarded'
  <2>1. ASSUME NEW t \in Session, Active(t)'
        PROVE  Row(t, log'[t]) \in history' /\ log'[t].file \in exists'
    <3>1. CASE t = s
      BY <1>3, <1>4, <1>7, <3>1 DEF Upsert, l
    <3>2. CASE t # s
      <4>1. log'[t] = log[t] /\ Active(t)
        BY <2>1, <1>4, <1>5, <3>2
      <4>2. Row(t, log[t]) \in history /\ log[t].file \in exists
        BY <4>1 DEF Stored, Guarded
      <4>3. Row(t, log[t]).session # Row(s, l).session
        BY <3>2 DEF Row
      <4> QED BY <1>7, <4>1, <4>2, <4>3 DEF Upsert, l
    <3> QED BY <3>1, <3>2
  <2> QED BY <2>1 DEF Guarded, Row
<1> QED BY <1>3, <1>4, <1>5, <1>7, <1>8, <1>9, <1>10 DEF Stored

\* A start that fails leaves the active logs, though it may have emptied a file.
LEMMA CreateFailsKeeps ==
  ASSUME Stored, NEW f \in File, NEW append \in BOOLEAN, CreateFails(f, append),
         UNCHANGED terminal
  PROVE  Stored' /\ UNCHANGED log
<1>1. UNCHANGED <<log, history, cursor>>
  BY DEF CreateFails, terminal
<1>2. failures' \in Nat
  <2>1. failures' = failures \/ failures' = failures + 1
    BY DEF CreateFails
  <2> QED BY <2>1, StoredTypes
<1>3. CASE UNCHANGED <<files, exists, readable>>
  <2>1. LogTypes' /\ Capturing' /\ Guarded'
    BY <1>1, <1>2, <1>3 DEF Stored, LogTypes, Capturing, Guarded, Active, Row, files
  <2>2. Recording'
    BY <1>1, <1>3, SameBounds DEF Stored, Recording, Sound, Held, Active, files
  <2> QED BY <1>1, <2>1, <2>2 DEF Stored
<1>4. CASE OpenFile(f, append) /\ readable' \in {readable, FALSE}
  <2>1. \A g \in File, s \in Session : Held(g, s)' = Held(g, s)
    BY <1>1 DEF Held, Active
  <2>2. /\ content' \in [File -> [Session -> Texts]]
        /\ due' \in [File -> [Session -> SUBSET Nat]]
        /\ Recording' /\ exists' = exists \cup {f}
    BY <1>4, <2>1, SameBounds, OpenKeeps
  <2>3. LogTypes' /\ Capturing'
    BY <1>1, <1>2, <2>2 DEF Stored, LogTypes, Capturing, Active
  <2>4. Guarded'
    BY <1>1, <1>4, <2>2 DEF Stored, Guarded, Active, Row
  <2> QED BY <1>1, <2>2, <2>3, <2>4 DEF Stored
<1> QED BY <1>3, <1>4 DEF CreateFails

\* bulk_delete_log_sessions, whichever files could be deleted.
LEMMA DeleteKeeps ==
  ASSUME Stored, NEW deleteFiles \in BOOLEAN, BulkDelete(deleteFiles)
  PROVE  Stored' /\ UNCHANGED log
<1> DEFINE gone == history \ ProtectedRows(deleteFiles)
           autos == IF deleteFiles
                    THEN {row.file : row \in {r \in gone : r.mode = "auto"}} ELSE {}
           Delete(S) == exists' = exists \ S /\ Empty(S)
<1>1. PICK S \in SUBSET autos : Delete(S)
  <2>1. CASE Delete(autos)
    BY <2>1
  <2>2. CASE \E done \in SUBSET autos : Delete(done)
    BY <2>2
  <2> QED BY <2>1, <2>2 DEF BulkDelete
<1>2. readable /\ history \ gone \subseteq history' /\ history' \subseteq history
  BY DEF BulkDelete
<1>3. UNCHANGED <<log, cursor, terminal>> /\ failures' \in Nat
  <2>1. failures' = failures \/ failures' = failures + 1
    BY DEF BulkDelete
  <2> QED BY <2>1, StoredTypes DEF BulkDelete, terminal
<1>4. \A s \in Session : Active(s) => Row(s, log[s]) \in ActiveRows
  BY DEF ActiveRows
<1>5. \A s \in Session : Active(s) => log[s].file \in ActiveFiles
  <2> SUFFICES ASSUME NEW s \in Session, Active(s) PROVE log[s].file \in ActiveFiles
    OBVIOUS
  <2>1. Row(s, log[s]).file = log[s].file
    BY DEF Row
  <2> QED BY <1>4, <2>1 DEF ActiveFiles
<1>6. autos \cap ActiveFiles = {} /\ autos \subseteq File
  BY DEF ProtectedRows, Stored, LogTypes, Rows
<1>7. \A s \in Session : Active(s) => Row(s, log[s]) \in history'
  BY <1>2, <1>4 DEF Stored, Guarded, ProtectedRows
<1> HIDE DEF gone, autos
<1>8. \A f \in File, s \in Session : Held(f, s)' = Held(f, s)
  BY <1>3 DEF Held, Active
<1>9. S \in SUBSET File
  BY <1>6
<1>10. /\ content' \in [File -> [Session -> Texts]]
       /\ due' \in [File -> [Session -> SUBSET Nat]]
       /\ Recording'
  BY <1>1, <1>3, <1>8, <1>9, SameBounds, EmptyKeeps
<1>11. LogTypes' /\ Capturing'
  BY <1>1, <1>2, <1>3, <1>10 DEF Stored, LogTypes, Capturing, Active
<1>12. Guarded'
  <2>1. \A s \in Session : Active(s) => log[s].file \in exists'
    BY <1>1, <1>5, <1>6 DEF Stored, Guarded
  <2> QED BY <1>3, <1>7, <2>1 DEF Guarded, Active, Row
<1> QED BY <1>3, <1>10, <1>11, <1>12 DEF Stored

LEMMA AppendedAt ==
  ASSUME NEW S, NEW texts, NEW f \in File, NEW s \in Session
  PROVE  AppendedAll(S, texts)[f][s] =
           IF s \in S /\ log[s].file = f THEN content[f][s] \o texts[s] ELSE content[f][s]
  BY DEF AppendedAll

\* A log that is flushed as the program ends.
LEMMA FlushedAt ==
  ASSUME Stored, NEW s \in Session, Active(s), NEW f \in File, f = log[s].file
  PROVE  /\ Waiting(log[s]) \in Texts
         /\ content[f][s] \o Waiting(log[s]) \in Texts
         /\ Good(content[f][s] \o Waiting(log[s]), << >>, due[f][s], Bound(s),
                 <<f, s>> \in torn)
<1> DEFINE C == content[f][s]
           w == Waiting(log[s])
           e == << >>
           D == due[f][s]
           b == Bound(s)
           t == <<f, s>> \in torn
<1>1. C \in Texts /\ w \in Texts /\ e \in Texts /\ Good(C, w, D, b, t)
  BY StoredTypes, EmptyText DEF Sound, Held, Waiting
<1> HIDE DEF C, w, e, D, b, t
<1>2. w \o e = w /\ C \o w \in Texts
  BY <1>1, Concat DEF e
<1>3. Good(C \o w, e, D, b, t)
  BY <1>1, <1>2, Moved
<1> QED BY <1>1, <1>2, <1>3 DEF C, w, e, D, b, t

\* A log that cannot be flushed as the program ends, of whose text the first n are written.
LEMMA TornAt ==
  ASSUME Stored, NEW s \in Session, Active(s), NEW f \in File, f = log[s].file,
         NEW n \in 0..(Len(Waiting(log[s])) - 1)
  PROVE  /\ content[f][s] \o SubSeq(Waiting(log[s]), 1, n) \in Texts
         /\ Good(content[f][s] \o SubSeq(Waiting(log[s]), 1, n), Waiting(log[s]), due[f][s],
                 Bound(s), <<f, s>> \in IF n = 0 THEN torn ELSE torn \cup {<<f, s>>})
<1> DEFINE C == content[f][s]
           w == Waiting(log[s])
           e == << >>
           D == due[f][s]
           b == Bound(s)
           t == <<f, s>> \in torn
           u == <<f, s>> \in IF n = 0 THEN torn ELSE torn \cup {<<f, s>>}
<1>1. /\ C \in Texts /\ w \in Texts /\ e \in Texts /\ Good(C, w, D, b, t)
      /\ n = 0 => (t => u)
      /\ n > 0 => u
  BY StoredTypes, EmptyText DEF Sound, Held, Waiting
<1>2. n \in 0..(Len(w) - 1)
  OBVIOUS
<1> HIDE DEF C, w, e, D, b, t, u
<1>3. w \o e = w
  BY <1>1, Concat DEF e
<1>4. Good(C \o SubSeq(w, 1, n), w, D, b, u)
  <2>1. Good(C, w \o e, D, b, t)
    BY <1>1, <1>3
  <2>2. Good(C \o SubSeq(w, 1, n), w \o e, D, b, u)
    BY <1>1, <1>2, <2>1, Torn
  <2> QED BY <1>3, <2>2
<1>5. C \o SubSeq(w, 1, n) \in Texts
  <2>1. Len(w) \in Nat /\ \A i \in 1..Len(w) : w[i] \in Nat
    BY <1>1, LenProperties, ElementOfSeq DEF Texts
  <2>2. \A i \in 1..n : i \in 1..Len(w)
    BY <1>2, <2>1
  <2>3. SubSeq(w, 1, n) \in Texts
    BY <1>2, <2>1, <2>2, SubSeqProperties DEF Texts
  <2> QED BY <1>1, <2>3, Concat
<1> QED BY <1>4, <1>5 DEF C, w, e, D, b, t, u

\* finish_all_logs, up to the end or to the first log that cannot be flushed.
LEMMA ExitKeeps ==
  ASSUME Stored, AppExit
  PROVE  /\ Stored'
         /\ ~exited' => \A s \in Session : View(s)' = View(s)
<1> DEFINE whole == [s \in AllActive |-> Drained(log[s]).pending]
<1>1. /\ log \in [Session -> LogRecord \union {NoLog}] /\ << >> \in Texts
      /\ \A s \in Session : Active(s) => log[s] \in LogRecord /\ log[s].file \in File
      /\ UNCHANGED <<terminal, cursor, exists, index, due>>
  BY StoredTypes, LogFields, EmptyText DEF AppExit, terminal
<1>2. failures' \in Nat
  <2>1. failures' = failures \/ failures' = failures + 1
    BY DEF AppExit, FinishAllLogs
  <2> QED BY <2>1, StoredTypes
<1>3. \A s \in AllActive : s \in Session /\ Active(s) /\ whole[s] = Waiting(log[s])
  BY <1>1, DrainedLog DEF AllActive
<1>4. \A s \in Session : Bound(s)' = Bound(s)
  BY <1>1, SameBounds
<1>5. \A f \in File, s \in Session :
        /\ content[f][s] \in Texts
        /\ Good(content[f][s], Held(f, s), due[f][s], Bound(s), <<f, s>> \in torn)
  BY StoredTypes DEF Sound
<1> HIDE DEF whole
<1>6. CASE /\ content' = AppendedAll(AllActive, whole)
           /\ log' = [s \in Session |-> NoLog]
           /\ exited' = TRUE
           /\ UNCHANGED torn
  <2>1. \A s \in Session : ~Active(s)'
    BY <1>6 DEF Active, NoLog
  <2>2. ASSUME NEW f \in File, NEW s \in Session
        PROVE  content'[f][s] \in Texts /\ Sound(f, s)'
    <3>1. Held(f, s)' = << >>
      BY <2>1 DEF Held
    <3>2. CASE Active(s) /\ log[s].file = f
      <4>1. s \in AllActive
        BY <3>2 DEF AllActive
      <4>2. content'[f][s] = content[f][s] \o Waiting(log[s])
        <5>1. AppendedAll(AllActive, whole)[f][s] =
                IF s \in AllActive /\ log[s].file = f THEN content[f][s] \o whole[s]
                ELSE content[f][s]
          BY AppendedAt
        <5> QED BY <1>3, <1>6, <3>2, <4>1, <5>1
      <4>3. /\ content'[f][s] \in Texts
            /\ Good(content'[f][s], << >>, due[f][s], Bound(s), <<f, s>> \in torn)
        BY <3>2, <4>2, FlushedAt
      <4> QED BY <1>1, <1>4, <1>6, <3>1, <4>3 DEF Sound
    <3>3. CASE ~(Active(s) /\ log[s].file = f)
      <4>1. content'[f][s] = content[f][s]
        BY <1>6, <3>3, AppendedAt DEF AllActive
      <4>2. Held(f, s) = << >>
        BY <3>3 DEF Held
      <4> QED BY <1>1, <1>4, <1>5, <1>6, <3>1, <4>1, <4>2 DEF Sound
    <3> QED BY <3>2, <3>3
  <2>3. content' \in [File -> [Session -> Texts]]
    <3>1. content' = [f \in File |-> [s \in Session |-> content'[f][s]]]
      BY <1>6 DEF AppendedAll
    <3> QED BY <2>2, <3>1
  <2>4. LogTypes'
    BY <1>1, <1>2, <1>6, <2>3 DEF Stored, LogTypes, index
  <2> QED BY <1>6, <2>1, <2>2, <2>4 DEF Stored, Capturing, Recording, Guarded
<1>7. ASSUME NEW S \in SUBSET AllActive, NEW t \in AllActive \ S,
             NEW n \in 0..(Len(whole[t]) - 1),
             content' = AppendedAll(S \cup {t}, [whole EXCEPT ![t] = SubSeq(@, 1, n)]),
             torn' = IF n = 0 THEN torn ELSE torn \cup {<<log[t].file, t>>},
             log' = [s \in Session |->
                       IF s \in S THEN Flushed(s)
                       ELSE IF s = t THEN Drained(log[t])
                       ELSE log[s]]
      PROVE  Stored' /\ \A s \in Session : View(s)' = View(s)
  <2>1. \A s \in S \union {t} : s \in Session /\ Active(s) /\ log[s] \in LogRecord
    BY <1>1, <1>3, <1>7
  <2>2. ASSUME NEW s \in S
        PROVE  /\ log'[s] \in LogRecord /\ log'[s].on /\ log'[s].file = log[s].file
               /\ log'[s].mode = log[s].mode /\ log'[s].cursor = log[s].cursor
               /\ log'[s].paused = log[s].paused /\ log'[s].line = << >>
               /\ Waiting(log'[s]) = << >>
    <3>1. log[s] \in LogRecord /\ log'[s] = [log[s] EXCEPT !.pending = << >>, !.line = << >>]
      BY <1>1, <1>7, <2>1 DEF Flushed
    <3>2. Waiting(log'[s]) = << >> \o << >> /\ log'[s] \in LogRecord
      <4> DEFINE m == [log[s] EXCEPT !.pending = << >>, !.line = << >>]
      <4>1. Waiting(m) = << >> \o << >> /\ m \in LogRecord
        BY <1>1, <3>1, Pending
      <4> QED BY <3>1, <4>1, Zenon
    <3>3. << >> \o << >> = << >>
      BY <1>1, Concat
    <3> QED BY <3>1, <3>2, <3>3 DEF LogRecord
  <2>3. /\ log'[t] \in LogRecord /\ log'[t].on /\ log'[t].file = log[t].file
        /\ log'[t].mode = log[t].mode /\ log'[t].cursor = log[t].cursor
        /\ log'[t].paused = log[t].paused /\ log'[t].line = << >>
        /\ Waiting(log'[t]) = Waiting(log[t])
    <3>1. log'[t] = Drained(log[t])
      BY <1>7, <2>1
    <3> QED BY <2>1, <3>1, DrainedLog
  <2>4. \A s \in Session \ (S \union {t}) : log'[s] = log[s]
    BY <1>7
  <2>5. \A s \in Session : Active(s)' <=> Active(s)
    BY <2>1, <2>2, <2>3, <2>4 DEF Active
  <2>6. \A s \in Session : Active(s) =>
          /\ log'[s].file = log[s].file /\ log'[s].mode = log[s].mode
          /\ log'[s].cursor = log[s].cursor /\ log'[s].paused = log[s].paused
          /\ log'[s].line = << >> \/ log'[s] = log[s]
    BY <2>2, <2>3, <2>4
  <2>7. ASSUME NEW f \in File, NEW s \in Session
        PROVE  content'[f][s] \in Texts /\ Sound(f, s)'
    <3> DEFINE texts == [whole EXCEPT ![t] = SubSeq(@, 1, n)]
    <3>1. content'[f][s] = IF s \in S \cup {t} /\ log[s].file = f
                           THEN content[f][s] \o texts[s] ELSE content[f][s]
      <4>1. content' = AppendedAll(S \cup {t}, texts)
        BY <1>7
      <4> HIDE DEF texts
      <4> QED BY <4>1, AppendedAt
    <3>2. texts[t] = SubSeq(whole[t], 1, n) /\ \A u \in S : texts[u] = whole[u]
      BY <1>7 DEF whole
    <3> HIDE DEF texts
    <3>3. CASE s \in S /\ log[s].file = f
      <4>1. content'[f][s] = content[f][s] \o Waiting(log[s])
        BY <1>3, <3>1, <3>2, <3>3
      <4>2. Held(f, s)' = << >>
        BY <2>2, <3>3 DEF Held, Waiting
      <4>3. /\ content'[f][s] \in Texts
            /\ Good(content'[f][s], << >>, due[f][s], Bound(s), <<f, s>> \in torn)
        BY <2>1, <3>3, <4>1, FlushedAt
      <4>4. s # t
        BY <3>3
      <4>5. (<<f, s>> \in torn') = (<<f, s>> \in torn)
        BY <1>7, <4>4
      <4> QED BY <1>1, <1>4, <4>2, <4>3, <4>5 DEF Sound
    <3>4. CASE s = t /\ log[t].file = f
      <4>1. content'[f][s] = content[f][s] \o SubSeq(Waiting(log[t]), 1, n)
        BY <1>3, <3>1, <3>2, <3>4
      <4>2. Held(f, s)' = Waiting(log[t])
        BY <2>3, <3>4 DEF Held, Active, Waiting
      <4>3. n \in 0..(Len(Waiting(log[t])) - 1)
        BY <1>3
      <4>4. /\ content'[f][s] \in Texts
            /\ Good(content'[f][s], Waiting(log[t]), due[f][s], Bound(s),
                    <<f, s>> \in IF n = 0 THEN torn ELSE torn \cup {<<f, s>>})
        BY <2>1, <3>4, <4>1, <4>3, TornAt
      <4>5. torn' = IF n = 0 THEN torn ELSE torn \cup {<<f, s>>}
        BY <1>7, <3>4
      <4> QED BY <1>1, <1>4, <4>2, <4>4, <4>5 DEF Sound
    <3>5. CASE s \notin S \cup {t} \/ log[s].file # f
      <4>1. content'[f][s] = content[f][s]
        BY <3>1, <3>5
      <4>2. Held(f, s)' = Held(f, s)
        <5>1. CASE s \notin S \cup {t}
          BY <2>4, <5>1 DEF Held, Active
        <5>2. CASE s \in S \cup {t}
          BY <2>1, <2>6, <3>5, <5>2 DEF Held
        <5> QED BY <5>1, <5>2
      <4>3. (<<f, s>> \in torn') = (<<f, s>> \in torn)
        BY <1>7, <3>5
      <4> QED BY <1>1, <1>4, <1>5, <4>1, <4>2, <4>3 DEF Sound
    <3> QED BY <3>3, <3>4, <3>5
  <2>8. LogTypes'
    <3>1. content' = [f \in File |-> [s \in Session |-> content'[f][s]]]
      BY <1>7 DEF AppendedAll
    <3>2. content' \in [File -> [Session -> Texts]]
      BY <2>7, <3>1
    <3>3. \A s \in Session : log'[s] \in LogRecord \union {NoLog}
      BY <1>1, <2>2, <2>3, <2>4
    <3>4. log' \in [Session -> LogRecord \union {NoLog}]
      <4>1. log' = [s \in Session |-> log'[s]]
        BY <1>7
      <4> QED BY <3>3, <4>1
    <3> QED BY <1>1, <1>2, <3>2, <3>4 DEF Stored, LogTypes, index
  <2>9. Capturing'
    <3>1. \A s \in Session : Active(s) => (~log'[s].display => log'[s].line = << >>)
      BY <2>6 DEF Stored, Capturing
    <3> QED BY <1>1, <2>5, <2>6, <3>1 DEF Stored, Capturing
  <2>10. Guarded'
    BY <1>1, <2>5, <2>6 DEF Stored, Guarded, Row, index
  <2>11. \A s \in Session : View(s)' = View(s)
    BY <2>5, <2>6 DEF View
  <2> QED BY <2>7, <2>8, <2>9, <2>10, <2>11 DEF Stored, Recording
<1> QED BY <1>6, <1>7 DEF AppExit, FinishAllLogs, whole

-----------------------------------------------------------------------------
(* The metadata.                                                           *)

Flags == [active : BOOLEAN, paused : BOOLEAN, file : File \union {NoFile}]
OpRecord ==
  [step : {"idle", "begun", "start", "unpause", "status", "sync"},
   kind : {"none", "start", "stop", "pause", "resume"},
   session : Session \union {NoSession}, status : Flags]

MetaTypes ==
  /\ status \in [Session -> {"absent", "connected", "marked", "closed"}]
  /\ tab \in [Session -> {"none", "shown"}]
  /\ flags \in [Session -> Flags]
  /\ auto \in [Session -> File \union {NoFile, "due"}]
  /\ ops \in [Op -> OpRecord]
  /\ \A o \in Op : ops[o].step = "idle" <=> ops[o].session = NoSession
  /\ \A o \in Op : ops[o].step = "start" => ops[o].kind = "start"

Serialized ==
  \A o, p \in Op :
    ops[o].session = ops[p].session /\ ops[o].session # NoSession => o = p

Announced(s) ==
  /\ status[s] = "absent" => auto[s] = "due"
  /\ status[s] = "connected" /\ tab[s] = "none" /\ auto[s] # "due" =>
       View(s) = [active |-> auto[s] # NoFile, paused |-> FALSE, file |-> auto[s]]

\* What an operation on session s that has got as far as o can rely on, and what its
\* end leaves.
Knows(o, s) ==
  /\ o.step \in {"idle", "begun", "start"} => flags[s] = View(s)
  /\ o.step = "unpause" => Active(s) /\ (log[s].paused => flags[s] = View(s))
  /\ o.step = "sync" => o.status = View(s)

Shown(s) ==
  status[s] = "connected" /\ tab[s] = "shown" =>
    /\ LockFree(s) => flags[s] = View(s)
    /\ \A o \in Op : ops[o].session = s => Knows(ops[o], s)

MetaInv ==
  /\ MetaTypes /\ Serialized
  /\ ~exited => \A s \in Session : Announced(s) /\ Shown(s)

LoggerInv == LogInv /\ MetaInv

LEMMA ViewTells ==
  ASSUME NEW s \in Session, View(s)' = View(s)
  PROVE  /\ Active(s)' <=> Active(s)
         /\ Active(s) => log'[s].paused = log[s].paused
<1>1. \A p, f : [active |-> TRUE, paused |-> p, file |-> f].active = TRUE
  OBVIOUS
<1>2. NoFlags.active = FALSE
  BY DEF NoFlags
<1>3. Active(s)' <=> Active(s)
  BY <1>1, <1>2 DEF View
<1>4. ASSUME Active(s) PROVE log'[s].paused = log[s].paused
  <2>1. [active |-> TRUE, paused |-> log'[s].paused, file |-> log'[s].file].paused =
        [active |-> TRUE, paused |-> log[s].paused, file |-> log[s].file].paused
    BY <1>3, <1>4 DEF View
  <2> QED BY <2>1
<1> QED BY <1>3, <1>4

\* A step that does not touch session s leaves what is said of it.
LEMMA Untouched ==
  ASSUME NEW s \in Session, Fresh, View(s)' = View(s), tab'[s] = tab[s],
         status'[s] = status[s], flags'[s] = flags[s], auto'[s] = auto[s],
         \A o \in Op : ops[o].session = s \/ ops'[o].session = s => ops'[o] = ops[o]
  PROVE  /\ auto'[s] = "due" => tab'[s] = "none" /\ ~Active(s)'
         /\ tab'[s] = "none" => LockFree(s)'
         /\ Announced(s) => Announced(s)'
         /\ Shown(s) => Shown(s)'
<1>1. Active(s)' <=> Active(s)
  BY ViewTells
<1>2. LockFree(s)' <=> LockFree(s)
  BY DEF LockFree
<1>3. Announced(s) => Announced(s)'
  BY DEF Announced
<1>4. ASSUME NEW o \in Op, ops'[o].session = s, Knows(ops[o], s) PROVE Knows(ops[o], s)'
  BY <1>1, <1>4, ViewTells DEF Knows
<1>5. Shown(s) => Shown(s)'
  <2>1. \A o \in Op : ops'[o].session = s => ops[o].session = s
    OBVIOUS
  <2> QED BY <1>2, <1>4, <2>1 DEF Shown
<1> QED BY <1>1, <1>2, <1>3, <1>5 DEF Fresh

\* A step that shows no tab anything else, changes no log but what it has written.
LEMMA NothingToShow ==
  ASSUME LoggerInv, Stored', \A s \in Session : View(s)' = View(s),
         UNCHANGED <<status, tab, flags, auto, ops, exited>>
  PROVE  LoggerInv'
<1>1. \A s \in Session :
        /\ auto'[s] = "due" => tab'[s] = "none" /\ ~Active(s)'
        /\ tab'[s] = "none" => LockFree(s)'
        /\ Announced(s) => Announced(s)'
        /\ Shown(s) => Shown(s)'
  BY Untouched DEF LoggerInv, LogInv
<1>2. Fresh'
  BY <1>1 DEF Fresh
<1>3. MetaTypes' /\ Serialized'
  BY DEF LoggerInv, MetaInv, MetaTypes, Serialized
<1> QED BY <1>1, <1>2, <1>3 DEF LoggerInv, LogInv, MetaInv

\* A step of session s that no operation takes.
LEMMA SessionSteps ==
  ASSUME LoggerInv, ~exited, ~exited', Stored', NEW s \in Session, MetaTypes', UNCHANGED ops,
         \A t \in Session \ {s} :
           /\ View(t)' = View(t) /\ status'[t] = status[t] /\ tab'[t] = tab[t]
           /\ flags'[t] = flags[t] /\ auto'[t] = auto[t],
         auto'[s] = "due" => tab'[s] = "none" /\ ~Active(s)',
         tab'[s] = "none" => tab[s] = "none",
         Announced(s)', Shown(s)'
  PROVE  LoggerInv'
<1>1. \A t \in Session \ {s} :
        /\ auto'[t] = "due" => tab'[t] = "none" /\ ~Active(t)'
        /\ tab'[t] = "none" => LockFree(t)'
        /\ Announced(t)' /\ Shown(t)'
  BY Untouched DEF LoggerInv, LogInv, MetaInv
<1>2. tab'[s] = "none" => LockFree(s)'
  BY DEF LoggerInv, LogInv, Fresh, LockFree
<1>3. Fresh'
  BY <1>1, <1>2 DEF Fresh
<1>4. Serialized'
  BY DEF LoggerInv, MetaInv, Serialized
<1> QED BY <1>1, <1>3, <1>4 DEF LoggerInv, LogInv, MetaInv

\* A step of operation o, which holds the lock of session s, and may let go of it.
LEMMA OperationSteps ==
  ASSUME LoggerInv, ~exited, ~exited', Stored', NEW o \in Op, NEW s \in Session,
         tab[s] = "shown",
         ops[o].session = s \/ (ops[o].session = NoSession /\ LockFree(s)),
         UNCHANGED <<status, tab, auto>>, flags' \in [Session -> Flags],
         ops'[o] \in OpRecord, \A p \in Op \ {o} : ops'[p] = ops[p],
         ops' \in [Op -> OpRecord],
         \/ ops'[o].step = "idle" /\ ops'[o].session = NoSession
         \/ ops'[o].step # "idle" /\ ops'[o].session = s,
         ops'[o].step = "start" => ops'[o].kind = "start",
         \A t \in Session \ {s} : View(t)' = View(t) /\ flags'[t] = flags[t],
         status[s] = "connected" => Knows(ops[o], s)'
  PROVE  LoggerInv'
<1> USE LoggerAssumption
<1>1. Fresh /\ Serialized /\ MetaTypes /\ \A t \in Session : Announced(t) /\ Shown(t)
  BY DEF LoggerInv, LogInv, MetaInv
<1>2. MetaTypes'
  BY <1>1 DEF MetaTypes
<1>3. \A p \in Op \ {o} : ops[p].session # s
  BY <1>1 DEF Serialized, LockFree
<1>4. Serialized'
  BY <1>1, <1>3 DEF Serialized
<1>5. \A t \in Session \ {s} :
        /\ auto'[t] = "due" => tab'[t] = "none" /\ ~Active(t)'
        /\ tab'[t] = "none" => LockFree(t)'
        /\ Announced(t)' /\ Shown(t)'
  <2> SUFFICES ASSUME NEW t \in Session \ {s}
               PROVE  /\ auto'[t] = "due" => tab'[t] = "none" /\ ~Active(t)'
                      /\ tab'[t] = "none" => LockFree(t)'
                      /\ Announced(t)' /\ Shown(t)'
    OBVIOUS
  <2>1. \A p \in Op : ops[p].session = t \/ ops'[p].session = t => ops'[p] = ops[p]
    OBVIOUS
  <2> QED BY <1>1, <2>1, Untouched
<1>6. auto'[s] # "due"
  BY <1>1 DEF Fresh
<1>7. Fresh'
  BY <1>5, <1>6 DEF Fresh
<1>8. Announced(s)'
  BY <1>1 DEF Announced
<1>9. Shown(s)'
  <2>1. ASSUME status[s] = "connected", LockFree(s)' PROVE flags'[s] = View(s)'
    <3>1. ops'[o].step = "idle"
      BY <2>1 DEF LockFree
    <3> QED BY <2>1, <3>1 DEF Knows
  <2>2. ASSUME NEW p \in Op, ops'[p].session = s, status[s] = "connected"
        PROVE  Knows(ops[p], s)'
    BY <1>3, <2>2
  <2> QED BY <2>1, <2>2 DEF Shown
<1> QED BY <1>2, <1>4, <1>5, <1>7, <1>8, <1>9 DEF LoggerInv, LogInv, MetaInv

\* Views that a step keeps: no log but that of s changes, and that one keeps its file
\* and whether it is paused.
LEMMA SameViews ==
  ASSUME NEW s \in Session, \A t \in Session \ {s} : log'[t] = log[t],
         \/ log'[s] = log[s]
         \/ Active(s) /\ SameLog(s) /\ log'[s].paused = log[s].paused
  PROVE  \A t \in Session : View(t)' = View(t)
  BY DEF View, Active, SameLog

-----------------------------------------------------------------------------
(* The steps of a session.                                                 *)

LEMMA ProduceStep ==
  ASSUME LoggerInv, NEW s \in Session, Produce(s) PROVE LoggerInv'
<1>1. /\ Stored /\ cursor \in [Session -> 0..MaxChars] /\ MaxChars \in Nat
      /\ status[s] \in {"connected", "marked"} /\ cursor[s] < MaxChars
      /\ cursor' = [cursor EXCEPT ![s] = @ + 1]
      /\ UNCHANGED <<status, tabs, exists, index, ops, exited>>
  BY LoggerAssumption DEF LoggerInv, LogInv, Stored, LogTypes, Produce
<1>2. /\ cursor[s] \in Nat /\ cursor' \in [Session -> 0..MaxChars]
      /\ cursor'[s] = cursor[s] + 1
      /\ \A t \in Session \ {s} : cursor'[t] = cursor[t]
  BY <1>1
<1>3. /\ Bound(s) = cursor[s] /\ Bound(s)' \in Nat /\ Bound(s)' > Bound(s)
      /\ \A t \in Session \ {s} : Bound(t)' = Bound(t)
  BY <1>1, <1>2 DEF Bound
<1>4. CASE Active(s)
  <2> DEFINE c == cursor[s]
             n == cursor[s] + 1
  <2>1. log[s].cursor \in {NoCursor, c}
    BY <1>1, <1>4 DEF Stored, Capturing
  <2>2. CaptureText(s, [log[s] EXCEPT !.cursor = n], c, c \in LineEnd)
    BY <1>4, <2>1 DEF Produce, TakeOutput
  <2>3. PICK ends \in BOOLEAN : CaptureText(s, [log[s] EXCEPT !.cursor = n], c, ends)
    <3> DEFINE e == c \in LineEnd
    <3>1. e \in BOOLEAN /\ CaptureText(s, [log[s] EXCEPT !.cursor = n], c, e)
      BY <2>2
    <3> HIDE DEF c, n, e
    <3> QED BY <3>1
  <2>4. /\ c = Bound(s) /\ n \in Nat /\ n \in {NoCursor, cursor'[s]} /\ Bound(s)' > c
        /\ UNCHANGED <<exists, index>>
    BY <1>1, <1>2, <1>3
  <2> HIDE DEF c, n
  <2>5. /\ Stored' /\ SameLog(s) /\ log'[s].paused = log[s].paused
        /\ \A t \in Session \ {s} : log'[t] = log[t]
    BY <1>1, <1>2, <1>3, <1>4, <2>3, <2>4, CaptureKeeps
  <2>6. \A t \in Session : View(t)' = View(t)
    BY <1>4, <2>5, SameViews
  <2> QED BY <1>1, <2>5, <2>6, NothingToShow DEF tabs
<1>5. CASE ~Active(s)
  <2>1. UNCHANGED <<log, disk>>
    BY <1>1, <1>5 DEF Produce, disk
  <2>2. Stored'
    <3>1. LogTypes' /\ Guarded'
      BY <1>1, <1>2, <2>1
         DEF Stored, LogTypes, Guarded, Active, Row, disk, files, index
    <3>2. Capturing'
      BY <1>1, <1>2, <1>5, <2>1 DEF Stored, Capturing, Active
    <3>3. ASSUME NEW f \in File, NEW t \in Session PROVE Sound(f, t)'
      <4>1. /\ content[f][t] \in Texts /\ Held(f, t) \in Texts /\ Bound(t) \in Nat
            /\ Good(content[f][t], Held(f, t), due[f][t], Bound(t), <<f, t>> \in torn)
        BY <1>1, StoredTypes DEF Sound
      <4>2. Bound(t)' \in Nat /\ Bound(t)' >= Bound(t)
        BY <1>3, <4>1
      <4>3. Good(content[f][t], Held(f, t), due[f][t], Bound(t)', <<f, t>> \in torn)
        BY <4>1, <4>2, Later
      <4>4. Held(f, t)' = Held(f, t) /\ UNCHANGED files
        BY <2>1 DEF Held, Active, disk
      <4> QED BY <4>3, <4>4 DEF Sound, files
    <3> QED BY <3>1, <3>2, <3>3 DEF Stored, Recording
  <2>3. \A t \in Session : View(t)' = View(t)
    BY <2>1 DEF View, Active
  <2> QED BY <1>1, <2>2, <2>3, NothingToShow DEF tabs
<1> QED BY <1>4, <1>5

\* What stays of session s when it is not connected any more.
LEMMA NotConnected ==
  ASSUME LoggerInv, NEW s \in Session, status'[s] \in {"marked", "closed"}
  PROVE  Announced(s)' /\ Shown(s)'
  BY DEF Announced, Shown

LEMMA NoticeStep ==
  ASSUME LoggerInv, NEW s \in Session, CaptureNotice(s) PROVE LoggerInv'
<1>1. /\ Stored /\ MetaTypes /\ Fresh /\ cursor \in [Session -> 0..MaxChars]
      /\ MaxChars \in Nat /\ status[s] = "connected" /\ cursor[s] = MaxChars
      /\ ~exited /\ status' = [status EXCEPT ![s] = "marked"]
      /\ UNCHANGED <<cursor, tabs, exists, index, ops, exited>>
  BY LoggerAssumption
     DEF LoggerInv, LogInv, Stored, LogTypes, MetaInv, CaptureNotice
<1>2. status'[s] = "marked" /\ \A t \in Session \ {s} : status'[t] = status[t]
  BY <1>1 DEF MetaTypes
<1>3. /\ Bound(s) = MaxChars /\ Bound(s)' \in Nat /\ Bound(s)' > Bound(s)
      /\ \A t \in Session \ {s} : Bound(t)' = Bound(t)
  BY <1>1, <1>2 DEF Bound
<1>4. /\ Stored' /\ \A t \in Session : View(t)' = View(t)
  <2>1. CASE Active(s)
    <3> DEFINE n == log[s].cursor
               ends == TRUE
    <3>1. log[s] \in LogRecord /\ n \in Nat /\ n \in {NoCursor, cursor'[s]}
      BY <1>1, <2>1, StoredTypes DEF Stored, Capturing, LogRecord
    <3>2. log[s] = [log[s] EXCEPT !.cursor = n]
      BY <3>1 DEF LogRecord
    <3>3. CaptureText(s, [log[s] EXCEPT !.cursor = n], MaxChars, ends)
      BY <2>1, <3>2 DEF CaptureNotice
    <3>4. /\ ends \in BOOLEAN /\ cursor' \in [Session -> 0..MaxChars]
          /\ UNCHANGED <<exists, index>> /\ Bound(s)' > MaxChars
          /\ \A t \in Session \ {s} : cursor'[t] = cursor[t] /\ Bound(t)' = Bound(t)
      BY <1>1, <1>3
    <3> HIDE DEF n, ends
    <3>5. /\ Stored' /\ SameLog(s) /\ log'[s].paused = log[s].paused
          /\ \A t \in Session \ {s} : log'[t] = log[t]
      BY <1>1, <1>3, <2>1, <3>1, <3>3, <3>4, CaptureKeeps
    <3> QED BY <2>1, <3>5, SameViews
  <2>2. CASE ~Active(s)
    <3>1. UNCHANGED <<cursor, log, disk>>
      BY <1>1, <2>2 DEF CaptureNotice, disk
    <3>2. \A t \in Session : Bound(t)' \in Nat /\ Bound(t)' >= Bound(t)
      BY <1>1, <1>3, StoredTypes
    <3> QED BY <1>1, <3>1, <3>2, StillStored DEF View, Active
  <2> QED BY <2>1, <2>2
<1>5. MetaTypes'
  BY <1>1 DEF MetaTypes, tabs
<1>6. auto'[s] = "due" => tab'[s] = "none" /\ ~Active(s)'
  BY <1>1, <1>4, ViewTells DEF Fresh, tabs
<1> QED BY <1>1, <1>2, <1>4, <1>5, <1>6, NotConnected, SessionSteps DEF tabs

LEMMA FlushManualStep ==
  ASSUME LoggerInv, NEW s \in Session, FlushManual(s) PROVE LoggerInv'
<1>1. /\ Stored /\ Active(s) /\ FlushTo(s, Flushed(s))
      /\ UNCHANGED <<terminal, tabs, exists, index, ops, exited>>
  BY DEF LoggerInv, LogInv, FlushManual
<1>2. log[s] \in LogRecord /\ << >> \in Texts
  BY <1>1, StoredTypes, EmptyText
<1>3. /\ Flushed(s) \in LogRecord
      /\ Flushed(s).file = log[s].file /\ Flushed(s).mode = log[s].mode
      /\ Flushed(s).cursor = log[s].cursor /\ Flushed(s).paused = log[s].paused
      /\ Flushed(s).display = log[s].display
      /\ Flushed(s).pending = << >> /\ Flushed(s).line = << >> /\ Flushed(s).on
  BY <1>2, Pending DEF Flushed, LogRecord
<1>4. /\ Stored' /\ \A t \in Session \ {s} : log'[t] = log[t]
      /\ SameLog(s) /\ log'[s].paused = log[s].paused
  BY <1>1, <1>3, SameBounds, FlushKeeps DEF SameLog, Active, terminal
<1> QED BY <1>1, <1>4, SameViews, NothingToShow DEF terminal, tabs

LEMMA AutoStartStep ==
  ASSUME LoggerInv, NEW s \in Session, AutoStart(s) PROVE LoggerInv'
<1>1. /\ Stored /\ MetaTypes /\ Fresh /\ Announced(s) /\ Shown(s)
      /\ ~exited /\ status[s] # "absent" /\ auto[s] = "due"
      /\ tab[s] = "none" /\ ~Active(s)
      /\ UNCHANGED <<terminal, tab, flags, ops, exited>>
  BY DEF LoggerInv, LogInv, MetaInv, AutoStart, Fresh
<1>2. ASSUME Stored', UNCHANGED log, auto' = [auto EXCEPT ![s] = NoFile]
      PROVE  LoggerInv'
  <2>1. MetaTypes'
    BY <1>1, <1>2 DEF MetaTypes, terminal
  <2>2. \A t \in Session : View(t)' = View(t)
    BY <1>2 DEF View, Active
  <2>3. View(s)' = [active |-> FALSE, paused |-> FALSE, file |-> NoFile]
    BY <1>1, <1>2 DEF View, Active, NoFlags
  <2>4. auto'[s] = NoFile /\ \A t \in Session \ {s} : auto'[t] = auto[t]
    BY <1>1, <1>2 DEF MetaTypes
  <2>5. Announced(s)' /\ Shown(s)'
    BY <1>1, <2>3, <2>4 DEF Announced, Shown, terminal
  <2> QED BY <1>1, <1>2, <2>1, <2>2, <2>4, <2>5, LoggerAssumption, SessionSteps DEF terminal
<1>3. CASE UNCHANGED <<log, disk>> /\ auto' = [auto EXCEPT ![s] = NoFile]
  <2>1. Stored'
    BY <1>1, <1>3, SameBounds, StillStored DEF terminal
  <2> QED BY <1>2, <1>3, <2>1
<1>4. ASSUME NEW f \in GeneratedFiles, CreateFails(f, FALSE), auto' = [auto EXCEPT ![s] = NoFile]
      PROVE  LoggerInv'
  <2>1. Stored' /\ UNCHANGED log
    BY <1>1, <1>4, CreateFailsKeeps DEF GeneratedFiles
  <2> QED BY <1>2, <1>4, <2>1
<1>5. ASSUME NEW f \in GeneratedFiles, CreateLog(s, f, "auto", FALSE),
             auto' = [auto EXCEPT ![s] = f]
      PROVE  LoggerInv'
  <2>1. f \in File
    BY DEF GeneratedFiles
  <2>2. /\ Stored' /\ Active(s)' /\ log'[s].file = f /\ log'[s].paused = FALSE
        /\ \A t \in Session \ {s} : log'[t] = log[t]
    BY <1>1, <1>5, <2>1, CreateKeeps DEF Mode
  <2>3. MetaTypes'
    BY <1>1, <1>5, <2>1 DEF MetaTypes, terminal
  <2>4. \A t \in Session \ {s} : View(t)' = View(t)
    BY <2>2 DEF View, Active
  <2>5. View(s)' = [active |-> TRUE, paused |-> FALSE, file |-> f]
    BY <2>2 DEF View
  <2>6. auto'[s] = f /\ \A t \in Session \ {s} : auto'[t] = auto[t]
    BY <1>1, <1>5 DEF MetaTypes
  <2>7. f # NoFile /\ f # "due"
    BY <2>1, LoggerAssumption
  <2>8. Announced(s)' /\ Shown(s)'
    BY <1>1, <2>5, <2>6, <2>7 DEF Announced, Shown, terminal
  <2> QED BY <1>1, <2>2, <2>3, <2>4, <2>6, <2>7, <2>8, SessionSteps DEF terminal
<1> QED BY <1>3, <1>4, <1>5 DEF AutoStart

LEMMA RegisterStep ==
  ASSUME LoggerInv, NEW s \in Session, RegisterTab(s) PROVE LoggerInv'
<1>1. /\ Stored /\ MetaTypes /\ Fresh /\ Announced(s)
      /\ ~exited /\ auto[s] # "due" /\ tab[s] = "none" /\ LockFree(s)
      /\ tab' = [tab EXCEPT ![s] = "shown"]
      /\ flags' = [flags EXCEPT ![s] = [active |-> auto[s] # NoFile, paused |-> FALSE,
                                          file |-> auto[s]]]
      /\ UNCHANGED <<terminal, auto, log, disk, ops, exited>>
  BY DEF LoggerInv, LogInv, MetaInv, RegisterTab, Fresh
<1>2. Stored'
  BY <1>1, SameBounds, StillStored DEF terminal
<1>3. auto[s] \in File \union {NoFile}
  BY <1>1 DEF MetaTypes
<1>4. MetaTypes'
  BY <1>1, <1>3 DEF MetaTypes, Flags, terminal
<1>5. /\ tab'[s] = "shown" /\ \A t \in Session \ {s} : tab'[t] = tab[t] /\ flags'[t] = flags[t]
      /\ flags'[s] = [active |-> auto[s] # NoFile, paused |-> FALSE, file |-> auto[s]]
  BY <1>1 DEF MetaTypes
<1>6. \A t \in Session : View(t)' = View(t)
  BY <1>1 DEF View, Active
<1>7. Announced(s)'
  BY <1>1, <1>5 DEF Announced, terminal
<1>8. Shown(s)'
  <2>1. status[s] = "connected" => flags'[s] = View(s)
    BY <1>1, <1>5 DEF Announced
  <2>2. \A o \in Op : ops'[o].session # s
    BY <1>1 DEF LockFree
  <2> QED BY <1>1, <1>6, <2>1, <2>2 DEF Shown, terminal
<1> QED BY <1>1, <1>2, <1>4, <1>5, <1>6, <1>7, <1>8, SessionSteps DEF terminal

\* Once a session is torn down its notice may come after all its output.
LEMMA StatusBounds ==
  ASSUME Stored, MetaTypes, NEW s \in Session, UNCHANGED cursor,
         NEW x \in {"connected", "marked", "closed"}, status' = [status EXCEPT ![s] = x],
         x = "connected" => status[s] = "absent"
  PROVE  \A t \in Session :
           /\ Bound(t)' \in Nat /\ Bound(t)' >= Bound(t)
           /\ status[s] = "marked" /\ x = "closed" => Bound(t)' = Bound(t)
<1>1. \A t \in Session :
        /\ MaxChars \in Nat /\ cursor[t] \in Nat /\ cursor[t] <= MaxChars
        /\ cursor'[t] = cursor[t] /\ status'[t] = IF t = s THEN x ELSE status[t]
  BY StoredTypes DEF MetaTypes
<1> QED BY <1>1 DEF Bound

LEMMA ConnectStep ==
  ASSUME LoggerInv, NEW s \in Session, Connect(s) PROVE LoggerInv'
<1>1. /\ Stored /\ MetaTypes /\ Fresh /\ auto[s] = "due" /\ tab[s] = "none" /\ ~Active(s)
      /\ ~exited /\ status[s] = "absent" /\ status' = [status EXCEPT ![s] = "connected"]
      /\ UNCHANGED <<cursor, tabs, log, disk, ops, exited>>
  BY DEF LoggerInv, LogInv, MetaInv, Connect, Fresh, Announced
<1>0. \A t \in Session : Bound(t)' \in Nat /\ Bound(t)' >= Bound(t)
  BY <1>1, StatusBounds
<1>2. Stored' /\ \A t \in Session : View(t)' = View(t)
  BY <1>0, <1>1, StillStored DEF View, Active
<1>3. MetaTypes'
  BY <1>1 DEF MetaTypes, tabs
<1>4. status'[s] = "connected" /\ \A t \in Session \ {s} : status'[t] = status[t]
  BY <1>1 DEF MetaTypes
<1>5. Announced(s)' /\ Shown(s)' /\ ~Active(s)'
  BY <1>1, <1>4 DEF Announced, Shown, Active, tabs
<1> QED BY <1>1, <1>2, <1>3, <1>4, <1>5, SessionSteps DEF tabs

LEMMA MarkStep ==
  ASSUME LoggerInv, NEW s \in Session, MarkDisconnected(s) PROVE LoggerInv'
<1>1. /\ Stored /\ MetaTypes /\ Fresh
      /\ ~exited /\ status' = [status EXCEPT ![s] = "marked"]
      /\ UNCHANGED <<cursor, tabs, log, disk, ops, exited>>
  BY DEF LoggerInv, LogInv, MetaInv, MarkDisconnected
<1>0. \A t \in Session : Bound(t)' \in Nat /\ Bound(t)' >= Bound(t)
  BY <1>1, StatusBounds
<1>2. Stored' /\ \A t \in Session : View(t)' = View(t)
  BY <1>0, <1>1, StillStored DEF View, Active
<1>3. MetaTypes'
  BY <1>1 DEF MetaTypes, tabs
<1>4. status'[s] = "marked" /\ \A t \in Session \ {s} : status'[t] = status[t]
  BY <1>1 DEF MetaTypes
<1>5. auto'[s] = "due" => tab'[s] = "none" /\ ~Active(s)'
  BY <1>1 DEF Fresh, Active, tabs
<1> QED BY <1>1, <1>2, <1>3, <1>4, <1>5, NotConnected, SessionSteps DEF tabs

LEMMA ClearStep ==
  ASSUME LoggerInv, NEW s \in Session, ClearLogs(s) PROVE LoggerInv'
<1>1. /\ Stored /\ MetaTypes /\ Fresh
      /\ ~exited /\ status[s] = "marked" /\ status' = [status EXCEPT ![s] = "closed"]
      /\ UNCHANGED <<cursor, tabs, exists, index, ops, exited>>
  BY DEF LoggerInv, LogInv, MetaInv, ClearLogs
<1>0. \A t \in Session : Bound(t)' \in Nat /\ Bound(t)' >= Bound(t) /\ Bound(t)' = Bound(t)
  BY <1>1, StatusBounds
<1>2. /\ Stored' /\ \A t \in Session \ {s} : log'[t] = log[t]
      /\ ~Active(s) => ~Active(s)'
  <2>1. CASE Active(s)
    <3>1. FlushTo(s, NoLog) /\ ~NoLog.on
      BY <2>1 DEF ClearLogs, NoLog
    <3> QED BY <1>0, <1>1, <2>1, <3>1, FlushKeeps
  <2>2. CASE ~Active(s)
    <3>1. UNCHANGED <<log, files, failures>>
      BY <2>2 DEF ClearLogs
    <3> QED BY <1>0, <1>1, <2>2, <3>1, StillStored DEF Active, disk
  <2> QED BY <2>1, <2>2
<1>3. MetaTypes'
  BY <1>1 DEF MetaTypes, tabs
<1>4. status'[s] = "closed" /\ \A t \in Session \ {s} : status'[t] = status[t]
  BY <1>1 DEF MetaTypes
<1>5. auto'[s] = "due" => tab'[s] = "none" /\ ~Active(s)'
  BY <1>1, <1>2 DEF Fresh, tabs
<1>6. \A t \in Session \ {s} : View(t)' = View(t)
  BY <1>2 DEF View, Active
<1> QED BY <1>1, <1>2, <1>3, <1>4, <1>5, <1>6, NotConnected, SessionSteps DEF tabs

-----------------------------------------------------------------------------
(* The steps of an operation.                                              *)

\* What operation o, on its way, knows of its session.
LEMMA Underway ==
  ASSUME LoggerInv, ~exited, NEW o \in Op, ops[o].step # "idle"
  PROVE  LET s == ops[o].session IN
         /\ s \in Session /\ tab[s] = "shown" /\ ops[o] \in OpRecord
         /\ status[s] = "connected" => Knows(ops[o], s)
         /\ Stored /\ MetaTypes
<1>1. /\ MetaTypes /\ Fresh /\ Stored /\ ops[o] \in OpRecord
      /\ ops[o].session # NoSession /\ ops[o].session \in Session
      /\ Shown(ops[o].session)
  BY DEF LoggerInv, LogInv, MetaInv, MetaTypes, OpRecord
<1>2. ~LockFree(ops[o].session)
  BY DEF LockFree
<1>3. tab[ops[o].session] = "shown"
  BY <1>1, <1>2 DEF Fresh, MetaTypes
<1> QED BY <1>1, <1>3 DEF Shown

LEMMA BeginStep ==
  ASSUME LoggerInv, NEW o \in Op, NEW s \in Session,
         NEW kind \in {"start", "stop", "pause", "resume"}, BeginOp(o, s, kind)
  PROVE  LoggerInv'
<1> DEFINE r == [IdleOp EXCEPT !.step = "begun", !.kind = kind, !.session = s]
<1>1. /\ Stored /\ MetaTypes /\ Shown(s) /\ ~exited
      /\ ops[o].step = "idle" /\ tab[s] = "shown" /\ LockFree(s)
      /\ ops' = [ops EXCEPT ![o] = r]
      /\ UNCHANGED <<terminal, tabs, log, disk, exited>>
  BY DEF LoggerInv, LogInv, MetaInv, BeginOp
<1>2. /\ r.step = "begun" /\ r.session = s /\ r \in OpRecord
  BY DEF IdleOp, NoFlags, OpRecord, Flags
<1> HIDE DEF r
<1>3. /\ ops'[o] = r /\ \A p \in Op \ {o} : ops'[p] = ops[p]
  BY <1>1 DEF MetaTypes
<1>4. ops[o].session = NoSession /\ flags' \in [Session -> Flags] /\ ops' \in [Op -> OpRecord]
  BY <1>1, <1>2 DEF MetaTypes, tabs
<1>5. Stored' /\ \A t \in Session : View(t)' = View(t)
  BY <1>1, SameBounds, StillStored DEF View, Active, terminal
<1>6. status[s] = "connected" => Knows(ops[o], s)'
  BY <1>1, <1>2, <1>3, <1>5 DEF Shown, Knows, tabs
<1>7. UNCHANGED <<status, tab, auto, flags, exited>>
  BY <1>1 DEF terminal, tabs
<1> QED BY <1>1, <1>2, <1>3, <1>4, <1>5, <1>6, <1>7, OperationSteps

\* The two ends of a step of operation o: it goes on, or lets go of the lock.
LEMMA GoesOn ==
  ASSUME LoggerInv, ~exited, ~exited', Stored', NEW o \in Op, ops[o].step # "idle",
         NEW s \in Session, s = ops[o].session,
         UNCHANGED <<status, tabs>>,
         \A t \in Session \ {s} : log'[t] = log[t],
         NEW step \in {"start", "unpause", "status"},
         Goto(o, step), step = "start" => ops[o].kind = "start",
         status[s] = "connected" => Knows(ops[o], s)'
  PROVE  LoggerInv'
<1>1. s \in Session /\ tab[s] = "shown" /\ ops[o] \in OpRecord /\ MetaTypes
  BY Underway
<1>2. /\ ops' = [ops EXCEPT ![o] = [ops[o] EXCEPT !.step = step]]
      /\ [ops[o] EXCEPT !.step = step] \in OpRecord
  BY <1>1 DEF Goto, OpRecord
<1>3. /\ ops'[o].step = step /\ ops'[o].session = s /\ ops'[o].kind = ops[o].kind
      /\ ops'[o] \in OpRecord /\ \A p \in Op \ {o} : ops'[p] = ops[p]
  BY <1>1, <1>2 DEF MetaTypes, OpRecord
<1>4. flags' \in [Session -> Flags] /\ ops' \in [Op -> OpRecord]
  BY <1>1, <1>2 DEF MetaTypes, tabs
<1>5. \A t \in Session \ {s} : View(t)' = View(t) /\ flags'[t] = flags[t]
  BY DEF View, Active, tabs
<1>6. ops[o].session = s /\ (status[s] = "connected" => Knows(ops[o], s)')
  OBVIOUS
<1> QED BY <1>1, <1>3, <1>4, <1>5, <1>6, OperationSteps DEF tabs

LEMMA Ends ==
  ASSUME LoggerInv, ~exited, ~exited', Stored', NEW o \in Op, ops[o].step # "idle",
         NEW s \in Session, s = ops[o].session,
         UNCHANGED <<status, tab, auto>>,
         \A t \in Session \ {s} : log'[t] = log[t] /\ flags'[t] = flags[t],
         flags' \in [Session -> Flags],
         EndOp(o),
         status[s] = "connected" => flags'[s] = View(s)'
  PROVE  LoggerInv'
<1>1. s \in Session /\ tab[s] = "shown" /\ MetaTypes
  BY Underway
<1>2. IdleOp \in OpRecord /\ IdleOp.step = "idle" /\ IdleOp.session = NoSession
  BY DEF IdleOp, OpRecord, NoFlags, Flags
<1>3. /\ ops'[o] = IdleOp /\ \A p \in Op \ {o} : ops'[p] = ops[p]
  BY <1>1 DEF EndOp, MetaTypes
<1>4. ops' \in [Op -> OpRecord]
  BY <1>1, <1>2 DEF MetaTypes, EndOp
<1>5. \A t \in Session \ {s} : View(t)' = View(t) /\ flags'[t] = flags[t]
  BY DEF View, Active
<1>6. ops[o].session = s /\ (status[s] = "connected" => Knows(ops[o], s)')
  BY <1>2, <1>3 DEF Knows
<1> QED BY <1>1, <1>2, <1>3, <1>4, <1>5, <1>6, OperationSteps

LEMMA CheckStep ==
  ASSUME LoggerInv, ~exited, ~exited', NEW o \in Op, CheckTab(o)
  PROVE  LoggerInv'
<1>0. PICK s \in Session : s = ops[o].session
  BY Underway DEF CheckTab
<1>1. /\ ops[o].kind = "start" /\ ops[o].step = "begun" /\ ops[o].step # "idle"
      /\ UNCHANGED <<terminal, tabs, log, disk>>
  BY DEF CheckTab
<1>2. /\ s \in Session /\ Stored /\ MetaTypes
      /\ status[s] = "connected" => flags[s] = View(s)
  BY <1>0, <1>1, Underway DEF Knows
<1>3. Stored' /\ View(s)' = View(s)
  BY <1>0, <1>1, <1>2, SameBounds, StillStored DEF View, Active, terminal
<1>4. CASE status[s] = "connected"
  <2>1. Goto(o, "start")
    BY <1>0, <1>4 DEF CheckTab
  <2>2. ops'[o].step = "start"
    BY <1>0, <1>2, <2>1 DEF Goto, MetaTypes, OpRecord
  <2>3. Knows(ops[o], s)'
    BY <1>0, <1>1, <1>2, <1>3, <1>4, <2>2 DEF Knows, tabs
  <2> QED BY <1>0, <1>1, <1>3, <2>1, <2>3, GoesOn DEF terminal
<1>5. CASE status[s] # "connected"
  <2>1. EndOp(o)
    BY <1>0, <1>5 DEF CheckTab
  <2> QED BY <1>0, <1>1, <1>2, <1>3, <1>5, <2>1, Ends DEF terminal, tabs, MetaTypes
<1> QED BY <1>0, <1>4, <1>5

LEMMA StartStep ==
  ASSUME LoggerInv, ~exited, ~exited', NEW o \in Op, StartManual(o)
  PROVE  LoggerInv'
<1>0. PICK s \in Session : s = ops[o].session
  BY Underway DEF StartManual
<1>1. /\ ops[o].step = "start" /\ ops[o].step # "idle"
      /\ UNCHANGED <<terminal, tabs>>
  BY <1>0 DEF StartManual
<1>2. /\ s \in Session /\ Stored /\ MetaTypes
      /\ status[s] = "connected" => flags[s] = View(s)
  BY <1>0, <1>1, Underway DEF Knows
<1>3. Goto(o, "unpause") => ops'[o].step = "unpause"
  BY <1>0, <1>1, <1>2 DEF Goto, MetaTypes, OpRecord
<1>4. CASE Active(s) /\ Goto(o, "unpause") /\ UNCHANGED <<log, disk>>
  <2>1. UNCHANGED <<cursor, log, disk>>
    BY <1>0, <1>1, <1>4 DEF terminal
  <2>2. Stored' /\ View(s)' = View(s) /\ Active(s)'
    BY <1>0, <1>1, <1>2, <1>4, <2>1, SameBounds, StillStored DEF View, Active
  <2>3. status[s] = "connected" => Knows(ops[o], s)'
    BY <1>0, <1>1, <1>2, <1>3, <1>4, <2>2 DEF Knows, tabs
  <2> QED BY <1>0, <1>1, <1>4, <2>1, <2>2, <2>3, GoesOn DEF terminal
<1>5. ASSUME ~Active(s), NEW f \in File, NEW append \in BOOLEAN,
             CreateLog(s, f, "manual", append), Goto(o, "unpause")
      PROVE  LoggerInv'
  <2>1. /\ Stored' /\ Active(s)' /\ log'[s].paused = FALSE
        /\ \A t \in Session \ {s} : log'[t] = log[t]
    <3>1. "manual" \in Mode /\ UNCHANGED terminal
      BY <1>1 DEF Mode
    <3> QED BY <1>2, <1>5, <3>1, CreateKeeps
  <2>2. Knows(ops[o], s)'
    BY <1>0, <1>3, <1>5, <2>1 DEF Knows
  <2> QED BY <1>0, <1>1, <1>5, <2>1, <2>2, GoesOn DEF terminal
<1>6. ASSUME NEW f \in File, NEW append \in BOOLEAN, CreateFails(f, append), EndOp(o)
      PROVE  LoggerInv'
  <2>1. Stored' /\ UNCHANGED log
    BY <1>1, <1>2, <1>6, CreateFailsKeeps
  <2>2. View(s)' = View(s)
    BY <2>1 DEF View, Active
  <2> QED BY <1>0, <1>1, <1>2, <1>6, <2>1, <2>2, Ends DEF terminal, tabs, MetaTypes
<1>7. GeneratedFiles \subseteq File
  BY DEF GeneratedFiles
<1> QED BY <1>0, <1>4, <1>5, <1>6, <1>7 DEF StartManual

\* A flush of the log of o's session, on the way to its status.
LEMMA FlushingStep ==
  ASSUME LoggerInv, ~exited, ~exited', NEW o \in Op, ops[o].step # "idle",
         NEW s \in Session, s = ops[o].session,
         Active(s),
         NEW after \in LogRecord \union {NoLog},
         after.on => /\ after.file = log[s].file
                     /\ after.mode = log[s].mode
                     /\ after.cursor = log[s].cursor
                     /\ after.display = log[s].display
                     /\ after.pending = << >> /\ after.line = << >>,
         FlushOr(o, s, after),
         UNCHANGED <<terminal, tabs, exists, index>>,
         status[s] = "connected" => flags[s] = View(s)
  PROVE  LoggerInv'
<1>1. s \in Session /\ Stored /\ MetaTypes
  BY Underway
<1>2. /\ Stored' /\ \A t \in Session \ {s} : log'[t] = log[t]
      /\ failures' # failures => SameLog(s) /\ log'[s].paused = log[s].paused
  BY <1>1, SameBounds, FlushKeeps DEF FlushOr, terminal
<1>3. CASE failures' = failures
  <2>1. Goto(o, "status") /\ ops'[o].step = "status"
    BY <1>1, <1>3 DEF FlushOr, Goto, MetaTypes, OpRecord
  <2>2. Knows(ops[o], s)'
    BY <2>1 DEF Knows
  <2> QED BY <1>2, <2>1, <2>2, GoesOn DEF terminal
<1>4. CASE failures' # failures
  <2>1. EndOp(o) /\ SameLog(s) /\ log'[s].paused = log[s].paused
    BY <1>2, <1>4 DEF FlushOr
  <2>2. View(s)' = View(s)
    BY <1>1, <1>2, <2>1, SameViews
  <2> QED BY <1>1, <1>2, <2>1, <2>2, Ends DEF terminal, tabs, MetaTypes
<1> QED BY <1>3, <1>4

LEMMA PauseStep ==
  ASSUME LoggerInv, ~exited, ~exited', NEW o \in Op, NEW paused \in BOOLEAN,
         SetPaused(o, paused),
         ops[o].step = "begun" \/ (ops[o].step = "unpause" /\ paused = FALSE)
  PROVE  LoggerInv'
<1>0. PICK s \in Session : s = ops[o].session
  BY Underway DEF SetPaused
<1>1. /\ s \in Session /\ Stored /\ MetaTypes /\ ops[o].step # "idle"
      /\ status[s] = "connected" => Knows(ops[o], s)
  BY <1>0, Underway
<1>2. UNCHANGED <<terminal, tabs, exists, index>>
  BY DEF SetPaused
<1>3. CASE ~Active(s)
  <2>1. EndOp(o) /\ UNCHANGED <<log, files, failures>>
    BY <1>0, <1>3 DEF SetPaused
  <2>2. Stored' /\ View(s)' = View(s)
    BY <1>0, <1>1, <1>2, <2>1, SameBounds, StillStored DEF View, Active, terminal, disk
  <2>3. status[s] = "connected" => flags[s] = View(s)
    BY <1>0, <1>1, <1>3 DEF Knows
  <2> QED BY <1>0, <1>1, <1>2, <2>1, <2>2, <2>3, Ends DEF terminal, tabs, MetaTypes
<1>4. CASE Active(s) /\ log[s].paused = paused
  <2>1. Goto(o, "status") /\ UNCHANGED <<log, files, failures>>
    BY <1>0, <1>4 DEF SetPaused
  <2>2. Stored' /\ ops'[o].step = "status"
    BY <1>0, <1>1, <1>2, <2>1, SameBounds, StillStored DEF terminal, disk, Goto, MetaTypes, OpRecord
  <2>3. Knows(ops[o], s)'
    BY <2>2 DEF Knows
  <2> QED BY <1>0, <1>1, <1>2, <2>1, <2>2, <2>3, GoesOn DEF terminal
<1>5. CASE Active(s) /\ log[s].paused # paused
  <2> DEFINE after == [Flushed(s) EXCEPT !.paused = paused]
  <2>1. FlushOr(o, s, after)
    BY <1>0, <1>5 DEF SetPaused
  <2>2. /\ log[s] \in LogRecord /\ log[s].paused \in BOOLEAN /\ << >> \in Texts
    BY <1>0, <1>1, <1>5, StoredTypes, LogFields, EmptyText
  <2>3. /\ after \in LogRecord /\ after.file = log[s].file /\ after.mode = log[s].mode
        /\ after.cursor = log[s].cursor /\ after.display = log[s].display
        /\ after.pending = << >> /\ after.line = << >>
    BY <2>2 DEF Flushed, LogRecord
  <2>4. status[s] = "connected" => flags[s] = View(s)
    BY <1>0, <1>1, <1>5, <2>2 DEF Knows
  <2> HIDE DEF after
  <2> QED BY <1>0, <1>1, <1>2, <1>5, <2>1, <2>3, <2>4, FlushingStep
<1> QED BY <1>0, <1>3, <1>4, <1>5

LEMMA StopStep ==
  ASSUME LoggerInv, ~exited, ~exited', NEW o \in Op, StopManual(o)
  PROVE  LoggerInv'
<1>0. PICK s \in Session : s = ops[o].session
  BY Underway DEF StopManual
<1>1. /\ ops[o].step = "begun" /\ ops[o].step # "idle"
      /\ UNCHANGED <<terminal, tabs, exists, index>>
  BY <1>0 DEF StopManual
<1>2. /\ s \in Session /\ Stored /\ MetaTypes
      /\ status[s] = "connected" => flags[s] = View(s)
  BY <1>0, <1>1, Underway DEF Knows
<1>3. CASE Active(s)
  <2>1. FlushOr(o, s, NoLog) /\ ~NoLog.on
    BY <1>0, <1>3 DEF StopManual, NoLog
  <2> QED BY <1>0, <1>1, <1>2, <1>3, <2>1, FlushingStep
<1>4. CASE ~Active(s)
  <2>1. Goto(o, "status") /\ UNCHANGED <<log, files, failures>>
    BY <1>0, <1>4 DEF StopManual
  <2>2. Stored' /\ ops'[o].step = "status"
    BY <1>0, <1>1, <1>2, <2>1, SameBounds, StillStored DEF terminal, disk, Goto, MetaTypes, OpRecord
  <2>3. Knows(ops[o], s)'
    BY <2>2 DEF Knows
  <2> QED BY <1>0, <1>1, <2>1, <2>2, <2>3, GoesOn DEF terminal
<1> QED BY <1>0, <1>3, <1>4

LEMMA StatusStep ==
  ASSUME LoggerInv, ~exited, ~exited', NEW o \in Op, ReadStatus(o)
  PROVE  LoggerInv'
<1>0. PICK s \in Session : s = ops[o].session
  BY Underway DEF ReadStatus
<1> DEFINE r == [ops[o] EXCEPT !.step = "sync", !.status = View(s)]
<1>1. /\ ops[o].step = "status" /\ ops[o].step # "idle"
      /\ UNCHANGED <<terminal, tabs, log, disk>>
  BY <1>0 DEF ReadStatus
<1>2. ops' = [ops EXCEPT ![o] = r]
  BY <1>0 DEF ReadStatus, View
<1>3. s \in Session /\ tab[s] = "shown" /\ Stored /\ MetaTypes /\ ops[o] \in OpRecord
  BY <1>0, <1>1, Underway
<1>4. View(s) \in Flags
  <2>1. Active(s) => log[s].paused \in BOOLEAN /\ log[s].file \in File
    BY <1>0, <1>3, StoredTypes, LogFields
  <2> QED BY <2>1 DEF View, NoFlags, Flags
<1>5. /\ r \in OpRecord /\ r.step = "sync" /\ r.session = s /\ r.status = View(s)
  BY <1>0, <1>3, <1>4 DEF OpRecord
<1>6. Stored' /\ \A t \in Session : View(t)' = View(t)
  BY <1>0, <1>1, <1>3, SameBounds, StillStored DEF View, Active, terminal
<1>7. /\ ops'[o] = r /\ \A p \in Op \ {o} : ops'[p] = ops[p]
  BY <1>0, <1>2, <1>3 DEF MetaTypes
<1>8. flags' \in [Session -> Flags] /\ ops' \in [Op -> OpRecord]
  BY <1>0, <1>1, <1>2, <1>3, <1>5 DEF MetaTypes, tabs
<1>9. ops[o].session = s
  BY <1>0
<1> HIDE DEF r
<1>10. Knows(ops[o], s)'
  BY <1>0, <1>3, <1>5, <1>6, <1>7 DEF Knows
<1>11. UNCHANGED <<status, tab, auto, flags>>
  BY <1>0, <1>1 DEF terminal, tabs
<1> QED BY <1>0, <1>3, <1>5, <1>6, <1>7, <1>8, <1>9, <1>10, <1>11, OperationSteps

LEMMA SyncStep ==
  ASSUME LoggerInv, ~exited, ~exited', NEW o \in Op, SyncLogState(o)
  PROVE  LoggerInv'
<1>0. PICK s \in Session : s = ops[o].session
  BY Underway DEF SyncLogState
<1>1. /\ ops[o].step = "sync" /\ ops[o].step # "idle" /\ EndOp(o)
      /\ flags' = [flags EXCEPT ![s] = ops[o].status]
      /\ UNCHANGED <<terminal, tab, auto, log, disk>>
  BY <1>0 DEF SyncLogState
<1>2. /\ s \in Session /\ Stored /\ MetaTypes /\ ops[o] \in OpRecord
      /\ status[s] = "connected" => ops[o].status = View(s)
  BY <1>0, <1>1, Underway DEF Knows
<1>3. Stored' /\ View(s)' = View(s)
  BY <1>0, <1>1, <1>2, SameBounds, StillStored DEF View, Active, terminal
<1>4. ops[o].status \in Flags
  BY <1>0, <1>2 DEF OpRecord
<1>5. /\ flags'[s] = ops[o].status /\ flags' \in [Session -> Flags]
      /\ \A t \in Session \ {s} : flags'[t] = flags[t]
  BY <1>0, <1>1, <1>2, <1>4 DEF MetaTypes
<1> QED BY <1>0, <1>1, <1>2, <1>3, <1>5, Ends DEF terminal

LEMMA OpSteps ==
  ASSUME LoggerInv, NEW o \in Op, OpStep(o)
  PROVE  LoggerInv'
<1>1. ~exited /\ ~exited'
  BY DEF OpStep
<1>2. CASE CheckTab(o)
  BY <1>1, <1>2, CheckStep
<1>3. CASE StartManual(o)
  BY <1>1, <1>3, StartStep
<1>4. CASE Pause(o)
  BY <1>1, <1>4, PauseStep DEF Pause
<1>5. CASE StopManual(o)
  BY <1>1, <1>5, StopStep
<1>6. CASE ReadStatus(o)
  BY <1>1, <1>6, StatusStep
<1>7. CASE SyncLogState(o)
  BY <1>1, <1>7, SyncStep
<1> QED BY <1>2, <1>3, <1>4, <1>5, <1>6, <1>7 DEF OpStep

-----------------------------------------------------------------------------
(* The theorems.                                                           *)

LEMMA LoggerBegins == Init => LoggerInv
<1> SUFFICES ASSUME Init PROVE LoggerInv
  OBVIOUS
<1> USE DEF Init
<1>1. NoFlags \in Flags /\ IdleOp \in OpRecord
  BY DEF NoFlags, Flags, IdleOp, OpRecord
<1>2. MetaTypes
  BY <1>1 DEF MetaTypes, IdleOp
<1>3. Serialized
  BY DEF Serialized, IdleOp
<1>4. \A s \in Session : Announced(s) /\ Shown(s)
  BY DEF Announced, Shown
<1> QED BY <1>2, <1>3, <1>4, LogBegins DEF LoggerInv, MetaInv

LEMMA LoggerKeeps == LoggerInv /\ [Next]_vars => LoggerInv'
<1> SUFFICES ASSUME LoggerInv, [Next]_vars PROVE LoggerInv'
  OBVIOUS
<1>1. CASE UNCHANGED vars
  <2>1. UNCHANGED <<status, cursor, tab, flags, auto, log, disk, ops, exited>>
    BY <1>1 DEF vars, terminal, tabs
  <2>2. Stored' /\ \A s \in Session : View(s)' = View(s)
    BY <2>1, SameBounds, StillStored DEF LoggerInv, LogInv, View, Active, terminal
  <2> QED BY <2>1, <2>2, NothingToShow
<1>2. ASSUME NEW s \in Session,
             \/ Connect(s) \/ Produce(s) \/ CaptureNotice(s) \/ FlushManual(s)
             \/ AutoStart(s) \/ RegisterTab(s) \/ MarkDisconnected(s) \/ ClearLogs(s)
      PROVE  LoggerInv'
  BY <1>2, ConnectStep, ProduceStep, NoticeStep, FlushManualStep, AutoStartStep, RegisterStep,
     MarkStep, ClearStep
<1>3. ASSUME NEW o \in Op, NEW s \in Session,
             NEW kind \in {"start", "stop", "pause", "resume"}, BeginOp(o, s, kind)
      PROVE  LoggerInv'
  BY <1>3, BeginStep
<1>4. ASSUME NEW o \in Op, OpStep(o) PROVE LoggerInv'
  BY <1>4, OpSteps
<1>5. ASSUME NEW deleteFiles \in BOOLEAN, BulkDelete(deleteFiles) PROVE LoggerInv'
  <2>1. Stored' /\ UNCHANGED log
    BY <1>5, DeleteKeeps DEF LoggerInv, LogInv
  <2>2. UNCHANGED <<status, tab, flags, auto, ops, exited>>
    BY <1>5 DEF BulkDelete, terminal, tabs
  <2> QED BY <2>1, <2>2, NothingToShow DEF View, Active
<1>6. CASE AppExit
  <2>1. /\ Stored'
        /\ ~exited' => \A s \in Session : View(s)' = View(s)
    BY <1>6, ExitKeeps DEF LoggerInv, LogInv
  <2>2. UNCHANGED <<status, tab, flags, auto, ops>> /\ ~exited
    BY <1>6 DEF AppExit, terminal, tabs
  <2>3. CASE UNCHANGED exited
    BY <2>1, <2>2, <2>3, NothingToShow
  <2>4. CASE exited' = TRUE /\ log' = [s \in Session |-> NoLog]
    <3>1. \A s \in Session : ~Active(s)'
      BY <2>4 DEF Active, NoLog
    <3>2. Fresh'
      BY <2>2, <2>4, <3>1 DEF LoggerInv, LogInv, Fresh, LockFree
    <3>3. MetaTypes' /\ Serialized'
      BY <2>2 DEF LoggerInv, MetaInv, MetaTypes, Serialized
    <3> QED BY <2>1, <2>4, <3>2, <3>3 DEF LoggerInv, LogInv, MetaInv
  <2> QED BY <1>6, <2>3, <2>4 DEF AppExit, FinishAllLogs
<1> QED BY <1>1, <1>2, <1>3, <1>4, <1>5, <1>6 DEF Next

LEMMA LoggerAlways == Spec => []LoggerInv
  BY LoggerBegins, LoggerKeeps, PTL DEF Spec

\* Nothing owed is lost on its way to the log or reordered, and nothing is doubled but the
\* part that a failed write left, whatever fails and however the operations interleave and
\* the sessions share files; and what an active log needs is never deleted.
THEOREM LogsIntactHolds == Spec => []LogsIntact
<1>1. LoggerInv => LogsIntact
  <2> SUFFICES ASSUME LoggerInv PROVE LogsIntact
    OBVIOUS
  <2>1. Stored
    BY DEF LoggerInv, LogInv
  <2>2. ASSUME NEW f \in File, NEW s \in Session
        PROVE  /\ due[f][s] = Range(Text(f, s)) /\ InOrder(Text(f, s))
               /\ <<f, s>> \notin torn => Increasing(Text(f, s))
    BY <2>1, StoredTypes DEF Sound, Good, Text
  <2>3. NothingLost /\ Ordered
    BY <2>2 DEF NothingLost, Ordered
  <2>4. Protected
    BY <2>1 DEF Stored, Guarded, Protected, ActiveRows, ActiveFiles, Row
  <2> QED BY <2>3, <2>4 DEF LogsIntact
<1> QED BY <1>1, LoggerAlways, PTL

\* What the tab of a connected session shows of its log is what the logger does, once no
\* operation on it is under way (ARCHITECTURE.md: operations serialize per session).
THEOREM MetadataAgreesHolds == Spec => []MetadataAgrees
<1>1. LoggerInv => MetadataAgrees
  BY DEF LoggerInv, MetaInv, Shown, View, MetadataAgrees
<1> QED BY <1>1, LoggerAlways, PTL

=============================================================================
