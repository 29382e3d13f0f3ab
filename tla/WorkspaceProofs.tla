-------------------------- MODULE WorkspaceProofs --------------------------
(***************************************************************************)
(* What Workspace's runs check on small instances, proved for every set of *)
(* windows and tabs and every bound.                                       *)
(***************************************************************************)
EXTENDS Workspace, TLAPS, FiniteSetTheorems, WellFoundedInduction, SequenceTheorems

-----------------------------------------------------------------------------
(* Sequences without duplicates.                                           *)

\* IndexIn finds an element that is there.
LEMMA IndexInFinds ==
  ASSUME NEW S, NEW s \in Seq(S), NEW e \in Range(s)
  PROVE  IndexIn(s, e) \in 1..Len(s) /\ s[IndexIn(s, e)] = e
<1>1. \E i \in DOMAIN s : s[i] = e
  BY DEF Range
<1> QED
  BY <1>1 DEF IndexIn

\* Without takes the element out of a duplicate-free sequence and keeps the rest.
LEMMA WithoutKeeps ==
  ASSUME NEW S, NEW s \in Seq(S), IsInjective(s), NEW e
  PROVE  /\ Without(s, e) \in Seq(S)
         /\ IsInjective(Without(s, e))
         /\ Range(Without(s, e)) = Range(s) \ {e}
         /\ e \in Range(s) => Len(Without(s, e)) = Len(s) - 1
<1>1. CASE e \notin Range(s)
  BY <1>1 DEF Without
<1>2. CASE e \in Range(s)
  <2> DEFINE i == IndexIn(s, e)
             r == RemoveAt(s, i)
  <2>1. i \in 1..Len(s) /\ s[i] = e
    BY <1>2, IndexInFinds
  <2>2. /\ r \in Seq(S)
        /\ Len(r) = Len(s) - 1
        /\ \A j \in 1..Len(r) : r[j] = IF j < i THEN s[j] ELSE s[j + 1]
    <3> HIDE DEF i
    <3> DEFINE a == SubSeq(s, 1, i - 1)
               b == SubSeq(s, i + 1, Len(s))
    <3>1. /\ a \in Seq(S) /\ Len(a) = i - 1
          /\ \A j \in 1..i - 1 : a[j] = s[j]
      BY <2>1
    <3>2. /\ b \in Seq(S) /\ Len(b) = Len(s) - i
          /\ \A j \in 1..Len(s) - i : b[j] = s[i + j]
      BY <2>1
    <3>3. r = a \o b
      BY DEF RemoveAt
    <3> HIDE DEF a, b, r
    <3>4. /\ a \o b \in Seq(S)
          /\ Len(a \o b) = Len(a) + Len(b)
          /\ \A j \in 1..Len(a) + Len(b) :
               (a \o b)[j] = IF j <= Len(a) THEN a[j] ELSE b[j - Len(a)]
      BY <3>1, <3>2, ConcatProperties
    <3>5. Len(s) \in Nat /\ i \in Int
      BY <2>1
    <3>6. ASSUME NEW j \in 1..Len(r) PROVE r[j] = IF j < i THEN s[j] ELSE s[j + 1]
      <4>1. CASE j < i
        BY <2>1, <3>1, <3>2, <3>3, <3>4, <3>5, <4>1
      <4>2. CASE ~(j < i)
        <5>1. j - (i - 1) \in 1..Len(s) - i
          BY <2>1, <3>1, <3>2, <3>3, <3>4, <3>5, <4>2
        <5> QED
          BY <2>1, <3>1, <3>2, <3>3, <3>4, <3>5, <4>2, <5>1
      <4> QED
        BY <4>1, <4>2
    <3> QED
      BY <2>1, <3>1, <3>2, <3>3, <3>4, <3>5, <3>6
  <2> HIDE DEF i, r
  <2>3. IsInjective(r)
    BY <2>1, <2>2 DEF IsInjective
  <2>4. Range(r) \subseteq Range(s) \ {e}
    BY <2>1, <2>2 DEF Range, IsInjective
  <2>5. ASSUME NEW x \in Range(s), x # e PROVE x \in Range(r)
    <3>1. PICK j \in 1..Len(s) : s[j] = x
      BY DEF Range
    <3>2. CASE j < i
      BY <2>1, <2>2, <3>1, <3>2 DEF Range
    <3>3. CASE j > i
      <4>1. j - 1 \in 1..Len(r) /\ r[j - 1] = x
        BY <2>1, <2>2, <3>1, <3>3
      <4> QED
        BY <2>2, <4>1 DEF Range
    <3> QED
      BY <2>1, <2>5, <3>1, <3>2, <3>3
  <2>6. Without(s, e) = r
    BY <1>2 DEF Without, r, i
  <2> QED
    BY <2>2, <2>3, <2>4, <2>5, <2>6
<1> QED
  BY <1>1, <1>2

\* InsertAt adds a new element, at any place, and nothing else.
LEMMA InsertAtAdds ==
  ASSUME NEW S, NEW s \in Seq(S), IsInjective(s), NEW e \in S, e \notin Range(s),
         NEW k \in 1..(Len(s) + 1)
  PROVE  /\ InsertAt(s, k, e) \in Seq(S)
         /\ IsInjective(InsertAt(s, k, e))
         /\ Range(InsertAt(s, k, e)) = Range(s) \cup {e}
<1> DEFINE r == InsertAt(s, k, e)
<1>1. /\ r \in Seq(S)
      /\ Len(r) = Len(s) + 1
      /\ \A j \in 1..Len(r) :
           r[j] = IF j < k THEN s[j] ELSE IF j = k THEN e ELSE s[j - 1]
  <2> DEFINE a == SubSeq(s, 1, k - 1)
             b == SubSeq(s, k, Len(s))
  <2>1. /\ a \in Seq(S) /\ Len(a) = k - 1
        /\ \A j \in 1..k - 1 : a[j] = s[j]
    OBVIOUS
  <2>2. /\ b \in Seq(S) /\ Len(b) = Len(s) - k + 1
        /\ \A j \in 1..Len(s) - k + 1 : b[j] = s[k + j - 1]
    OBVIOUS
  <2>3. r = (a \o <<e>>) \o b
    BY DEF InsertAt
  <2> HIDE DEF a, b, r
  <2>4. /\ a \o <<e>> \in Seq(S) /\ Len(a \o <<e>>) = k
        /\ \A j \in 1..k : (a \o <<e>>)[j] = IF j < k THEN s[j] ELSE e
    BY <2>1
  <2> DEFINE c == a \o <<e>>
  <2> HIDE DEF c
  <2>5. /\ c \in Seq(S) /\ Len(c) = k
        /\ \A j \in 1..k : c[j] = IF j < k THEN s[j] ELSE e
    BY <2>4 DEF c
  <2>6. r = c \o b
    BY <2>3 DEF c
  <2> QED
    BY <2>2, <2>5, <2>6, ConcatProperties
<1> HIDE DEF r
<1>2. IsInjective(r)
  <2>1. Len(s) \in Nat /\ DOMAIN s = 1..Len(s) /\ DOMAIN r = 1..Len(s) + 1
    BY <1>1
  <2>2. \A i \in 1..Len(s) : s[i] # e
    BY DEF Range
  <2> SUFFICES ASSUME NEW i \in 1..Len(s) + 1, NEW j \in 1..Len(s) + 1, i < j, r[i] = r[j]
               PROVE  FALSE
    BY <2>1 DEF IsInjective
  <2>3. CASE j < k
    <3>1. i \in 1..Len(s) /\ j \in 1..Len(s) /\ i # j
      BY <2>1, <2>3
    <3>2. r[i] = s[i] /\ r[j] = s[j]
      BY <1>1, <2>1, <2>3
    <3> QED
      BY <2>1, <3>1, <3>2 DEF IsInjective
  <2>4. CASE j = k
    BY <1>1, <2>1, <2>2, <2>4 DEF IsInjective
  <2>5. CASE i = k
    BY <1>1, <2>1, <2>2, <2>5 DEF IsInjective
  <2>6. CASE i < k /\ k < j
    <3>1. i \in 1..Len(s) /\ j - 1 \in 1..Len(s) /\ i # j - 1
      BY <1>1, <2>1, <2>6
    <3>2. r[i] = s[i] /\ r[j] = s[j - 1]
      BY <1>1, <2>1, <2>6
    <3> QED
      BY <2>1, <3>1, <3>2 DEF IsInjective
  <2>7. CASE k < i
    <3>1. i - 1 \in 1..Len(s) /\ j - 1 \in 1..Len(s) /\ i - 1 # j - 1
      BY <2>1, <2>7
    <3>2. r[i] = s[i - 1] /\ r[j] = s[j - 1]
      BY <1>1, <2>1, <2>7
    <3> QED
      BY <2>1, <3>1, <3>2 DEF IsInjective
  <2> QED
    BY <2>1, <2>3, <2>4, <2>5, <2>6, <2>7
<1>3. Range(r) \subseteq Range(s) \cup {e}
  BY <1>1 DEF Range
<1>4. e \in Range(r)
  BY <1>1 DEF Range
<1>5. ASSUME NEW x \in Range(s) PROVE x \in Range(r)
  <2>1. PICK j \in 1..Len(s) : s[j] = x
    BY DEF Range
  <2>2. CASE j < k
    <3>1. j \in DOMAIN r /\ r[j] = x
      BY <1>1, <2>1, <2>2
    <3> QED
      BY <3>1 DEF Range
  <2>3. CASE j >= k
    <3>1. j + 1 \in DOMAIN r /\ r[j + 1] = x
      BY <1>1, <2>1, <2>3
    <3> QED
      BY <3>1 DEF Range
  <2> QED
    BY <2>1, <2>2, <2>3
<1> QED
  BY <1>1, <1>2, <1>3, <1>4, <1>5 DEF r

\* Append adds a new element and nothing else.
LEMMA AppendAdds ==
  ASSUME NEW S, NEW s \in Seq(S), IsInjective(s), NEW e \in S, e \notin Range(s)
  PROVE  /\ Append(s, e) \in Seq(S)
         /\ IsInjective(Append(s, e))
         /\ Range(Append(s, e)) = Range(s) \cup {e}
<1> DEFINE r == Append(s, e)
           n == Len(s)
<1>1. /\ r \in Seq(S)
      /\ Len(r) = n + 1
      /\ \A i \in 1..n + 1 : r[i] = IF i <= n THEN s[i] ELSE e
  OBVIOUS
<1>2. n \in Nat /\ DOMAIN s = 1..n /\ DOMAIN r = 1..n + 1
  BY <1>1
<1>3. \A i \in 1..n : s[i] # e
  BY <1>2 DEF Range
<1> HIDE DEF r, n
<1>4. IsInjective(r)
  BY <1>1, <1>2, <1>3 DEF IsInjective
<1>5. Range(r) = Range(s) \cup {e}
  BY <1>1, <1>2 DEF Range
<1> QED
  BY <1>1, <1>4, <1>5 DEF r

\* Concatenating sequences that share no element keeps both sets of elements.
LEMMA ConcatAdds ==
  ASSUME NEW S, NEW s \in Seq(S), IsInjective(s), NEW r \in Seq(S), IsInjective(r),
         Range(s) \cap Range(r) = {}
  PROVE  /\ s \o r \in Seq(S)
         /\ IsInjective(s \o r)
         /\ Range(s \o r) = Range(s) \cup Range(r)
<1> DEFINE c == s \o r
           m == Len(s)
           n == Len(r)
<1>1. /\ c \in Seq(S)
      /\ Len(c) = m + n
      /\ \A i \in 1..m + n : c[i] = IF i <= m THEN s[i] ELSE r[i - m]
  OBVIOUS
<1>2. /\ m \in Nat /\ DOMAIN s = 1..m
      /\ n \in Nat /\ DOMAIN r = 1..n
      /\ DOMAIN c = 1..m + n
  BY <1>1
<1> HIDE DEF c, m, n
<1>3. \A i \in 1..m, j \in 1..n : s[i] # r[j]
  BY <1>2 DEF Range
<1>4. \A i \in 1..m : c[i] = s[i]
  BY <1>1, <1>2
<1>5. \A i \in 1..n : m + i \in 1..m + n /\ c[m + i] = r[i]
  BY <1>1, <1>2
<1>6. \A i \in 1..m + n : i \in 1..m \/ (i - m \in 1..n /\ i = m + (i - m))
  BY <1>2
<1>7. IsInjective(c)
  <2> SUFFICES ASSUME NEW i \in 1..m + n, NEW j \in 1..m + n, c[i] = c[j]
               PROVE  i = j
    BY <1>2 DEF IsInjective
  <2>1. CASE i \in 1..m /\ j \in 1..m
    BY <1>2, <1>4, <2>1 DEF IsInjective
  <2>2. CASE i - m \in 1..n /\ j - m \in 1..n
    <3>1. r[i - m] = r[j - m]
      BY <1>1, <1>2, <2>2
    <3>2. i - m = j - m
      BY <1>2, <2>2, <3>1 DEF IsInjective
    <3> QED
      BY <1>2, <3>2
  <2>3. CASE i \in 1..m /\ j - m \in 1..n
    BY <1>1, <1>2, <1>3, <2>3
  <2>4. CASE i - m \in 1..n /\ j \in 1..m
    BY <1>1, <1>2, <1>3, <2>4
  <2> QED
    BY <1>6, <2>1, <2>2, <2>3, <2>4
<1>8. Range(c) = Range(s) \cup Range(r)
  <2>1. Range(c) \subseteq Range(s) \cup Range(r)
    <3> SUFFICES ASSUME NEW i \in 1..m + n PROVE c[i] \in Range(s) \cup Range(r)
      BY <1>2 DEF Range
    <3>1. CASE i \in 1..m
      BY <1>2, <1>4, <3>1 DEF Range
    <3>2. CASE i - m \in 1..n
      <4>1. c[i] = r[i - m]
        BY <1>1, <1>2, <3>2
      <4> QED
        BY <1>2, <3>2, <4>1 DEF Range
    <3> QED
      BY <1>6, <3>1, <3>2
  <2>2. Range(s) \subseteq Range(c)
    BY <1>2, <1>4 DEF Range
  <2>3. Range(r) \subseteq Range(c)
    BY <1>2, <1>5 DEF Range
  <2> QED
    BY <2>1, <2>2, <2>3
<1> QED
  BY <1>1, <1>7, <1>8 DEF c

\* Every ordered part of a sequence lists, once each, what it keeps of it.
LEMMA OrderedPartsKeep ==
  ASSUME NEW S, NEW s \in Seq(S), NEW U, NEW r \in OrderedParts(s, U)
  PROVE  /\ r \in Seq(S)
         /\ IsInjective(r)
         /\ Range(r) = Range(s) \cap U
<1> DEFINE kept == Range(s) \cap U
           n == Cardinality(kept)
<1>1. /\ r \in [1..n -> kept]
      /\ Range(r) = kept
      /\ \A i, j \in DOMAIN r : i < j => IndexIn(s, r[i]) < IndexIn(s, r[j])
  BY DEF OrderedParts
<1>2. IsFiniteSet(kept) /\ n \in Nat
  <2>1. s \in Surjection(1..Len(s), Range(s))
    BY DEF Surjection, Range
  <2>2. IsFiniteSet(1..Len(s))
    BY FS_Interval
  <2>3. IsFiniteSet(Range(s))
    BY <2>1, <2>2, FS_Surjection
  <2> QED
    BY <2>3, FS_Subset, FS_CardinalityType
<1>3. kept \subseteq S /\ kept \subseteq Range(s)
  BY DEF Range
<1> HIDE DEF kept, n
<1>4. r \in Seq(S) /\ DOMAIN r = 1..n
  BY <1>1, <1>2, <1>3
<1>5. ASSUME NEW i \in 1..n, NEW j \in 1..n, r[i] = r[j], i < j
      PROVE  FALSE
  <2>1. r[i] \in Range(s)
    BY <1>1, <1>3
  <2>2. IndexIn(s, r[i]) \in Int
    BY <2>1, IndexInFinds
  <2>3. IndexIn(s, r[i]) < IndexIn(s, r[j])
    BY <1>1, <1>4, <1>5
  <2> QED
    BY <1>5, <2>2, <2>3
<1>6. IsInjective(r)
  BY <1>2, <1>4, <1>5 DEF IsInjective
<1> QED
  BY <1>1, <1>4, <1>6 DEF kept

\* A set of positions has a largest one.
LEMMA MaxIsIn ==
  ASSUME NEW n \in Nat, NEW S, S \subseteq 1..n, S # {}
  PROVE  Max(S) \in S
<1> DEFINE below == {k \in Nat : k <= n /\ n - k \in S}
<1>1. PICK i \in S : TRUE
  OBVIOUS
<1>2. n - i \in below
  BY <1>1
<1>3. PICK k \in below : \A j \in below : <<j, k>> \notin OpToRel(<, Nat)
  BY <1>2, NatLessThanWellFounded, WFMin
<1>4. k \in below /\ \A j \in below : ~(j < k)
  BY <1>3 DEF OpToRel
<1>5. ASSUME NEW j \in S PROVE n - k >= j
  <2>1. n - j \in below /\ j \in Nat /\ k \in Nat
    BY <1>4
  <2>2. ~(n - j < k)
    BY <1>4, <2>1, Zenon
  <2> QED
    BY <2>1, <2>2
<1> QED
  BY <1>4, <1>5 DEF Max

-----------------------------------------------------------------------------
(* The helpers of workspace/model.rs.                                      *)

\* The last focused existing window exists.
LEMMA LastFocusedExists ==
  ASSUME NEW wins, NEW focused \in Seq(Window), NEW last
  PROVE  LastFocusedExisting(wins, focused, last) \in wins \cup {NoWindow}
<1> DEFINE live == {i \in DOMAIN focused : focused[i] \in wins}
<1>1. CASE live # {}
  <2>1. Max(live) \in live
    BY <1>1, MaxIsIn
  <2> QED
    BY <1>1, <2>1 DEF LastFocusedExisting
<1>2. CASE live = {}
  BY <1>2 DEF LastFocusedExisting
<1> QED
  BY <1>1, <1>2

\* A tab rehomed from a closing window goes to a registered one.
LEMMA RehomeToRegistered ==
  ASSUME NEW wins, NEW focused \in Seq(Window), NEW last
  PROVE  RehomeCandidates(wins, focused, last) \subseteq wins
BY LastFocusedExists DEF RehomeCandidates

\* The invariant: the placement of tabs is consistent.
Inv ==
  /\ TypeOK
  /\ PlacedOnce
  /\ OwnerAgrees
  /\ ActiveIsListed
  /\ FocusIsRegistered

\* Removing a tab from a window leaves it showing a tab that it still lists.
LEMMA ActiveWithoutListed ==
  ASSUME Inv, NEW w \in Window, NEW t \in Tab
  PROVE  /\ ActiveWithout(w, t) \in Tab \cup {NoTab}
         /\ IF Without(order[w], t) = << >>
            THEN ActiveWithout(w, t) = NoTab
            ELSE ActiveWithout(w, t) \in Range(Without(order[w], t))
<1> DEFINE s == order[w]
           i == IndexIn(s, t)
           rest == Without(s, t)
<1>1. /\ s \in Seq(Tab) /\ IsInjective(s)
      /\ active[w] \in Tab \cup {NoTab}
      /\ IF s = << >> THEN active[w] = NoTab ELSE active[w] \in Range(s)
  BY DEF Inv, TypeOK, PlacedOnce, ActiveIsListed
<1>2. /\ rest \in Seq(Tab) /\ Range(rest) = Range(s) \ {t}
      /\ t \in Range(s) => Len(rest) = Len(s) - 1
  BY <1>1, WithoutKeeps
<1>3. CASE t \notin Range(s)
  <2>1. rest = s /\ ActiveWithout(w, t) = active[w]
    BY <1>3 DEF Without, ActiveWithout
  <2> QED
    BY <1>1, <2>1
<1>4. CASE t \in Range(s) /\ active[w] # t
  <2>1. ActiveWithout(w, t) = active[w]
    BY <1>4 DEF ActiveWithout
  <2>2. s # << >>
    BY <1>4 DEF Range
  <2>3. active[w] \in Range(rest)
    BY <1>1, <1>2, <1>4, <2>2
  <2>4. rest # << >>
    BY <2>3 DEF Range
  <2> QED
    BY <1>1, <2>1, <2>3, <2>4
<1>5. CASE t \in Range(s) /\ active[w] = t
  <2>1. i \in 1..Len(s)
    BY <1>1, <1>5, IndexInFinds
  <2>2. ActiveWithout(w, t) = IF i <= Len(rest) THEN rest[i]
                              ELSE IF i > 1 THEN rest[i - 1]
                              ELSE NoTab
    BY <1>5 DEF ActiveWithout
  <2> HIDE DEF i, rest, s
  <2>3. Len(rest) \in Nat /\ Len(s) \in Nat /\ Len(rest) = Len(s) - 1
    BY <1>1, <1>2, <1>5
  <2>4. CASE i <= Len(rest)
    <3>1. i \in DOMAIN rest /\ rest # << >>
      BY <1>2, <2>1, <2>3, <2>4
    <3> QED
      BY <1>2, <2>2, <2>4, <3>1 DEF Range, rest, s
  <2>5. CASE i > Len(rest) /\ i > 1
    <3>1. i - 1 \in DOMAIN rest /\ rest # << >>
      BY <1>2, <2>1, <2>3, <2>5
    <3>2. ActiveWithout(w, t) = rest[i - 1]
      BY <2>1, <2>2, <2>3, <2>5
    <3> QED
      BY <1>2, <3>1, <3>2 DEF Range, rest, s
  <2>6. CASE i > Len(rest) /\ i <= 1
    <3>1. rest = << >>
      BY <1>2, <2>1, <2>3, <2>6
    <3>2. ActiveWithout(w, t) = NoTab
      BY <2>1, <2>2, <2>3, <2>6
    <3> QED
      BY <3>1, <3>2 DEF rest, s
  <2> QED
    BY <2>1, <2>3, <2>4, <2>5, <2>6
<1> QED
  BY <1>3, <1>4, <1>5

-----------------------------------------------------------------------------
(* Inv is inductive: one lemma for each action that changes a placement.   *)

\* Focusing a window registers it and keeps the focus history duplicate-free.
LEMMA EnsureFocusedKeeps ==
  ASSUME Inv, NEW w \in Window, EnsureFocused(w)
  PROVE  /\ windows' \subseteq Window /\ windows \subseteq windows' /\ w \in windows'
         /\ lastFocused' \in Window
         /\ focusOrder' \in Seq(Window)
         /\ FocusIsRegistered'
<1>1. /\ focusOrder \in Seq(Window) /\ IsInjective(focusOrder)
      /\ Range(focusOrder) \subseteq windows /\ windows \subseteq Window
  BY DEF Inv, TypeOK, FocusIsRegistered
<1>2. /\ Without(focusOrder, w) \in Seq(Window)
      /\ IsInjective(Without(focusOrder, w))
      /\ Range(Without(focusOrder, w)) = Range(focusOrder) \ {w}
  BY <1>1, WithoutKeeps
<1>3. /\ focusOrder' \in Seq(Window)
      /\ IsInjective(focusOrder')
      /\ Range(focusOrder') = Range(focusOrder) \cup {w}
  BY <1>2, AppendAdds DEF EnsureFocused
<1> QED
  BY <1>1, <1>3 DEF EnsureFocused, FocusIsRegistered

\* An action that changes no placement and no focus keeps Inv if it keeps TypeOK.
LEMMA ModelUnchanged ==
  ASSUME Inv, TypeOK', UNCHANGED <<windows, order, active, tabs, owner, lastFocused, focusOrder>>
  PROVE  Inv' /\ ListedStays
BY DEF Inv, PlacedOnce, OwnerAgrees, ActiveIsListed, FocusIsRegistered, ListedStays, Listed

\* A command that is done is idle or has its drag to cancel.
LEMMA AfterMoveTyped ==
  ASSUME TypeOK
  PROVE  AfterMove \in Command /\ AfterMove.step # "register"
<1>1. Idle \in Command /\ Idle.step # "register"
  BY WorkspaceAssumption DEF Idle, Command
<1>2. move \in Command
  BY DEF TypeOK
<1>3. /\ [move EXCEPT !.step = "cancel"] \in Command
      /\ [move EXCEPT !.step = "cancel"].step # "register"
  BY <1>2 DEF Command
<1> QED
  BY <1>1, <1>3 DEF AfterMove

\* Native windows and the tasks of their events.
LEMMA WindowTaskStep ==
  ASSUME Inv, NEW w \in Window,
         \/ CreateWindow(w) \/ FocusEvent(w) \/ DestroyWindow(w)
         \/ CreateTarget(w)
  PROVE  Inv' /\ ListedStays
<1> USE WorkspaceAssumption DEF Inv, model, tasks
<1>1. CASE CreateWindow(w) \/ FocusEvent(w) \/ DestroyWindow(w)
  <2>1. TypeOK'
    <3>1. CASE CreateWindow(w) \/ FocusEvent(w)
      BY <3>1 DEF TypeOK, CreateWindow, FocusEvent
    <3>2. CASE DestroyWindow(w)
      <4>1. closing' \subseteq closing
        BY <3>2 DEF DestroyWindow
      <4> QED
        BY <3>2, <4>1 DEF TypeOK, DestroyWindow
    <3> QED
      BY <1>1, <3>1, <3>2
  <2> QED
    BY <1>1, <2>1, ModelUnchanged DEF CreateWindow, FocusEvent, DestroyWindow
<1>2. CASE CreateTarget(w)
  <2>1. TypeOK'
    BY <1>2 DEF TypeOK, CreateTarget, Command
  <2> QED
    BY <1>2, <2>1, ModelUnchanged DEF CreateTarget
<1> QED
  BY <1>1, <1>2

\* Sessions.
LEMMA SessionEventStep ==
  ASSUME Inv, NEW t \in Tab,
         \/ Connect(t) \/ MarkTerminal(t)
         \/ MarkDisconnected(t)
  PROVE  Inv' /\ ListedStays
<1> USE WorkspaceAssumption DEF Inv, model, tasks
<1>1. CASE Connect(t) \/ MarkTerminal(t)
  <2>1. TypeOK'
    BY <1>1 DEF TypeOK, Connect, MarkTerminal
  <2> QED
    BY <1>1, <2>1, ModelUnchanged DEF Connect, MarkTerminal
<1>2. CASE MarkDisconnected(t)
  <2>1. TypeOK'
    BY <1>2 DEF TypeOK, MarkDisconnected
  <2> QED
    BY <1>2, <2>1, ModelUnchanged DEF MarkDisconnected
<1> QED
  BY <1>1, <1>2

\* Closing and detaching a tab, until the workspace is called.
LEMMA TabCommandStep ==
  ASSUME Inv, NEW w \in Window, NEW t \in Tab,
         \/ BeginClose(w, t) \/ CloseFails(w, t)
         \/ DetachBegin(w, t)
  PROVE  Inv' /\ ListedStays
<1> USE WorkspaceAssumption DEF Inv, model, tasks
<1>1. CASE BeginClose(w, t) \/ CloseFails(w, t)
  <2>1. TypeOK'
    BY <1>1 DEF TypeOK, BeginClose, CloseFails
  <2> QED
    BY <1>1, <2>1, ModelUnchanged DEF BeginClose, CloseFails
<1>2. CASE DetachBegin(w, t)
  <2>1. TypeOK'
    BY <1>2 DEF TypeOK, DetachBegin, Command
  <2> QED
    BY <1>2, <2>1, ModelUnchanged DEF DetachBegin
<1> QED
  BY <1>1, <1>2

\* Ends of commands.
LEMMA CommandEndStep ==
  ASSUME Inv,
         \/ CreateTargetFails \/ CancelStep
  PROVE  Inv' /\ ListedStays
<1> USE WorkspaceAssumption DEF Inv, model, tasks
<1>1. CASE CreateTargetFails \/ CancelStep
  <2>1. TypeOK'
    <3>1. Idle \in Command /\ Idle.step # "register"
      BY DEF Idle, Command
    <3>2. AfterMove \in Command /\ AfterMove.step # "register"
      BY AfterMoveTyped
    <3>3. move' \in Command /\ move'.step # "register"
      BY <1>1, <3>1, <3>2 DEF CreateTargetFails, CancelStep
    <3> QED
      BY <1>1, <3>3 DEF TypeOK, CreateTargetFails, CancelStep
  <2> QED
    BY <1>1, <2>1, ModelUnchanged DEF CreateTargetFails, CancelStep
<1> QED
  BY <1>1

\* Starting a drag.
LEMMA DragStartStep ==
  ASSUME Inv, NEW w \in Window, NEW t \in Tab,
         \/ DragStart(w, t)
  PROVE  Inv' /\ ListedStays
<1> USE WorkspaceAssumption DEF Inv, model, tasks
<1>1. CASE DragStart(w, t)
  <2>1. drag' \in DragSession
    BY <1>1 DEF DragStart, DragSession
  <2>2. TypeOK'
    BY <1>1, <2>1 DEF TypeOK, DragStart
  <2> QED
    BY <1>1, <2>2, ModelUnchanged DEF DragStart
<1> QED
  BY <1>1

\* Hovering over a window.
LEMMA DragHoverStep ==
  ASSUME Inv, NEW w \in Window, NEW i \in 0..MaxIndex,
         \/ DragHover(w, i) \/ DragLeave(w)
  PROVE  Inv' /\ ListedStays
<1> USE WorkspaceAssumption DEF Inv, model, tasks
<1>1. CASE DragHover(w, i) \/ DragLeave(w)
  <2>1. drag' \in DragSession
    <3>1. drag \in DragSession
      BY <1>1 DEF TypeOK, DragHover, DragLeave
    <3>2. drag' \in {[drag EXCEPT !.target = w, !.index = i],
                     [drag EXCEPT !.target = NoWindow, !.index = 0]}
      BY <1>1 DEF DragHover, DragLeave
    <3>3. 0 \in 0..MaxIndex
      OBVIOUS
    <3>4. /\ [drag EXCEPT !.target = w, !.index = i] \in DragSession
          /\ [drag EXCEPT !.target = NoWindow, !.index = 0] \in DragSession
      BY <3>1, <3>3 DEF DragSession
    <3> QED
      BY <3>2, <3>4
  <2>2. TypeOK'
    BY <1>1, <2>1 DEF TypeOK, DragHover, DragLeave
  <2> QED
    BY <1>1, <2>2, ModelUnchanged DEF DragHover, DragLeave
<1> QED
  BY <1>1

\* Cancelling a drag and preparing its drop.
LEMMA DragEndStep ==
  ASSUME Inv,
         \/ DragCancel
         \/ DropPrepare
  PROVE  Inv' /\ ListedStays
<1> USE WorkspaceAssumption DEF Inv, model, tasks
<1>1. CASE DragCancel
  <2>1. TypeOK'
    BY <1>1 DEF TypeOK, DragCancel
  <2> QED
    BY <1>1, <2>1, ModelUnchanged DEF DragCancel
<1>2. CASE DropPrepare
  <2>1. drag \in DragSession
    BY <1>2 DEF TypeOK, DropPrepare
  <2>2. move' \in Command /\ move'.step # "register"
    <3>1. CASE drag' = NoDrag
      <4>1. move' = [kind |-> "drop", tab |-> drag.tab, source |-> drag.source,
                     target |-> drag.target, index |-> drag.index,
                     step |-> IF drag.target = NoWindow THEN "create" ELSE "move"]
        BY <1>2, <3>1 DEF DropPrepare
      <4> QED
        BY <2>1, <4>1 DEF DragSession, Command
    <3>2. CASE drag' # NoDrag
      <4>1. move' = [Idle EXCEPT !.kind = "drop", !.step = "cancel"]
        BY <1>2, <3>2 DEF DropPrepare
      <4>2. Idle \in Command
        BY DEF Idle, Command
      <4> QED
        BY <4>1, <4>2 DEF Command
    <3> QED
      BY <3>1, <3>2
  <2>3. TypeOK'
    BY <1>2, <2>2 DEF TypeOK, DropPrepare
  <2> QED
    BY <1>2, <2>3, ModelUnchanged DEF DropPrepare
<1> QED
  BY <1>1, <1>2

\* The registration of a tab takes the mutex.
LEMMA ReadStatusStep ==
  ASSUME Inv, NEW t \in Tab, NEW v \in Window \cup {NoWindow},
         \/ ReadStatus(t, v)
  PROVE  Inv' /\ ListedStays
<1> USE WorkspaceAssumption DEF Inv, model, tasks
<1>1. CASE ReadStatus(t, v)
  <2>1. registering' \in Registration
    BY <1>1 DEF ReadStatus, Registration
  <2>2. TypeOK'
    BY <1>1, <2>1 DEF TypeOK, ReadStatus
  <2> QED
    BY <1>1, <2>2, ModelUnchanged DEF ReadStatus
<1> QED
  BY <1>1

\* Focus events and registrations of windows.
LEMMA FocusStep ==
  ASSUME Inv,
         \/ \E w \in Window : FocusWindow(w)
         \/ \E w \in Window, t \in Tab : FocusSessionWindow(w, t)
         \/ RegisterTarget
  PROVE  Inv' /\ ListedStays
<1>1. PICK v \in Window : EnsureFocused(v)
  BY DEF Inv, TypeOK, FocusWindow, FocusSessionWindow, RegisterTarget
<1>2. UNCHANGED <<native, session, order, active, tabs, owner, connected, drag, registering>>
  BY DEF FocusWindow, FocusSessionWindow, RegisterTarget
<1>3. /\ windows' \subseteq Window /\ windows \subseteq windows'
      /\ lastFocused' \in Window
      /\ focusOrder' \in Seq(Window)
      /\ FocusIsRegistered'
  BY <1>1, EnsureFocusedKeeps
<1>4. /\ focusing' \subseteq Window
      /\ UNCHANGED <<unregistering, closing>>
  BY DEF Inv, TypeOK, FocusWindow, FocusSessionWindow, RegisterTarget, tasks
<1>5. move' \in Command /\ (move'.step = "register" => move'.target \in Window)
  <2>1. CASE RegisterTarget
    <3>1. move \in Command /\ move' = [move EXCEPT !.step = "move"]
      BY <2>1 DEF Inv, TypeOK, RegisterTarget
    <3> QED
      BY <3>1 DEF Command
  <2>2. CASE ~RegisterTarget
    BY <2>2 DEF Inv, TypeOK, FocusWindow, FocusSessionWindow
  <2> QED
    BY <2>1, <2>2
<1>6. TypeOK'
  BY <1>2, <1>3, <1>4, <1>5 DEF Inv, TypeOK
<1> QED
  BY <1>2, <1>3, <1>6
     DEF Inv, PlacedOnce, OwnerAgrees, ActiveIsListed, ListedStays, Listed

\* Selecting a tab in the window that lists it.
LEMMA ActivateStep ==
  ASSUME Inv, NEW t \in Tab,
         ActivateSession(t) \/ \E w \in Window : ActivateTab(w, t)
  PROVE  Inv' /\ ListedStays
<1> USE DEF Inv
<1>1. PICK v \in windows : t \in Range(order[v]) /\ active' = [active EXCEPT ![v] = t]
  BY DEF ActivateTab, ActivateSession
<1>2. lastFocused' \in windows \cup {lastFocused}
  BY DEF ActivateTab, ActivateSession
<1>3. UNCHANGED <<native, session, windows, order, tabs, owner, connected, focusOrder,
                  drag, registering, tasks, move>>
  BY DEF ActivateTab, ActivateSession
<1>4. TypeOK'
  BY <1>1, <1>2, <1>3 DEF TypeOK, tasks
<1>5. PlacedOnce' /\ OwnerAgrees'
  BY <1>3 DEF PlacedOnce, OwnerAgrees
<1>6. ActiveIsListed'
  <2> SUFFICES ASSUME NEW u \in Window
               PROVE  IF order[u] = << >> THEN active'[u] = NoTab
                      ELSE active'[u] \in Range(order[u])
    BY <1>3 DEF ActiveIsListed
  <2>1. CASE u = v
    <3>1. order[v] # << >>
      BY <1>1 DEF Range
    <3> QED
      BY <1>1, <2>1, <3>1 DEF TypeOK
  <2>2. CASE u # v
    BY <1>1, <2>2 DEF TypeOK, ActiveIsListed
  <2> QED
    BY <2>1, <2>2
<1>7. FocusIsRegistered'
  BY <1>2, <1>3 DEF FocusIsRegistered
<1>8. ListedStays
  BY <1>3 DEF ListedStays, Listed
<1> QED
  BY <1>4, <1>5, <1>6, <1>7, <1>8

\* Reordering permutes one window's tabs.
LEMMA ReorderStep ==
  ASSUME Inv, NEW w \in Window, NEW t \in Tab, NEW u \in Tab, NEW side,
         ReorderTab(w, t, u, side)
  PROVE  Inv' /\ ListedStays
<1> USE DEF Inv
<1> DEFINE rest == Without(order[w], t)
           at == IndexIn(rest, u)
           k == IF side = "after" THEN at + 1 ELSE at
           new == InsertAt(rest, k, t)
<1>1. /\ order[w] \in Seq(Tab) /\ IsInjective(order[w])
      /\ t \in Range(order[w]) /\ u \in Range(order[w]) /\ t # u /\ w \in windows
      /\ order' = [order EXCEPT ![w] = new]
  BY DEF ReorderTab, TypeOK, PlacedOnce
<1>2. /\ rest \in Seq(Tab) /\ IsInjective(rest) /\ Range(rest) = Range(order[w]) \ {t}
  BY <1>1, WithoutKeeps
<1>3. at \in 1..Len(rest)
  BY <1>1, <1>2, IndexInFinds
<1>4. k \in 1..(Len(rest) + 1)
  <2> HIDE DEF rest, at
  <2> QED
    BY <1>2, <1>3
<1>5. new \in Seq(Tab) /\ IsInjective(new) /\ Range(new) = Range(order[w])
  <2> HIDE DEF rest, k
  <2>1. t \notin Range(rest)
    BY <1>2
  <2>2. /\ new \in Seq(Tab) /\ IsInjective(new)
        /\ Range(new) = Range(rest) \cup {t}
    BY <1>2, <1>4, <2>1, InsertAtAdds
  <2> QED
    BY <1>1, <1>2, <2>2
<1> HIDE DEF new
<1>6. UNCHANGED <<native, session, windows, active, tabs, owner, connected,
                  lastFocused, focusOrder, drag, registering, tasks, move>>
  BY DEF ReorderTab
<1>7. TypeOK'
  BY <1>1, <1>5, <1>6 DEF TypeOK, tasks
<1>8. \A v \in Window : Range(order'[v]) = Range(order[v]) /\ IsInjective(order'[v])
  BY <1>1, <1>5 DEF TypeOK, PlacedOnce
<1>9. PlacedOnce' /\ OwnerAgrees'
  BY <1>6, <1>8 DEF PlacedOnce, OwnerAgrees
<1>10. ActiveIsListed'
  <2> SUFFICES ASSUME NEW v \in Window
               PROVE  IF order'[v] = << >> THEN active[v] = NoTab
                      ELSE active[v] \in Range(order'[v])
    BY <1>6 DEF ActiveIsListed
  <2>1. order'[v] = << >> <=> order[v] = << >>
    <3>1. CASE v = w
      <4>1. order[w] # << >>
        BY <1>1 DEF Range
      <4>2. new # << >>
        <5>1. Range(<< >>) = {}
          BY DEF Range
        <5> QED
          BY <1>1, <1>5, <5>1
      <4> QED
        BY <1>1, <3>1, <4>1, <4>2 DEF TypeOK
    <3>2. CASE v # w
      BY <1>1, <3>2 DEF TypeOK
    <3> QED
      BY <3>1, <3>2
  <2> QED
    BY <1>8, <2>1 DEF ActiveIsListed
<1>11. FocusIsRegistered'
  BY <1>6 DEF FocusIsRegistered
<1>12. ListedStays
  BY <1>6, <1>8 DEF ListedStays, Listed, TypeOK
<1> QED
  BY <1>7, <1>9, <1>10, <1>11, <1>12

\* Closing a tab takes it out of the window that closes it.
LEMMA RemoveStep ==
  ASSUME Inv, NEW w \in Window, NEW t \in Tab, RemoveTab(w, t)
  PROVE  Inv' /\ ListedStays
<1> USE DEF Inv
<1>1. CASE w \notin windows
  <2>1. UNCHANGED <<native, session, windows, order, active, tabs, owner, connected,
                    lastFocused, focusOrder, drag, registering, focusing, unregistering, move>>
    BY <1>1 DEF RemoveTab
  <2>2. TypeOK'
    BY <2>1 DEF TypeOK, RemoveTab
  <2> QED
    BY <2>1, <2>2, ModelUnchanged
<1>2. CASE w \in windows
  <2> DEFINE rest == Without(order[w], t)
  <2>1. /\ tabs' = tabs \ {t}
        /\ owner' = [owner EXCEPT ![t] = NoWindow]
        /\ order' = [order EXCEPT ![w] = rest]
        /\ active' = [active EXCEPT ![w] = ActiveWithout(w, t)]
        /\ session' = [session EXCEPT ![t] = "closed"]
        /\ closing' = closing \ {<<w, t>>}
        /\ UNCHANGED <<native, windows, connected, lastFocused, focusOrder, drag,
                       registering, focusing, unregistering, move>>
    BY <1>2 DEF RemoveTab, TypeOK
  <2>2. /\ rest \in Seq(Tab) /\ IsInjective(rest) /\ Range(rest) = Range(order[w]) \ {t}
    BY WithoutKeeps DEF TypeOK, PlacedOnce
  <2>3. /\ ActiveWithout(w, t) \in Tab \cup {NoTab}
        /\ IF rest = << >> THEN ActiveWithout(w, t) = NoTab
           ELSE ActiveWithout(w, t) \in Range(rest)
    BY ActiveWithoutListed
  <2> HIDE DEF rest
  <2>4. TypeOK'
    BY <1>2, <2>1, <2>2, <2>3 DEF TypeOK
  <2>5. PlacedOnce'
    BY <2>1, <2>2 DEF PlacedOnce, TypeOK
  <2>6. OwnerAgrees'
    BY <2>1, <2>2 DEF OwnerAgrees, TypeOK
  <2>7. ActiveIsListed'
    BY <2>1, <2>2, <2>3 DEF ActiveIsListed, TypeOK
  <2>8. FocusIsRegistered'
    BY <2>1 DEF FocusIsRegistered
  <2>9. ListedStays
    <3>1. \A x \in Tab \ {t}, v \in Window : x \in Range(order[v]) => x \in Range(order'[v])
      BY <2>1, <2>2 DEF TypeOK
    <3> QED
      BY <2>1, <3>1 DEF ListedStays, Listed, TypeOK
  <2> QED
    BY <2>4, <2>5, <2>6, <2>7, <2>8, <2>9
<1> QED
  BY <1>1, <1>2

\* Moving a tab, within a window or to another.
LEMMA MoveStepKeeps ==
  ASSUME Inv, MoveStep
  PROVE  Inv' /\ ListedStays
<1> USE DEF Inv
<1> DEFINE t == move.tab
           from == move.source
           to == move.target
<1>1. /\ UNCHANGED <<native, session, windows, tabs, connected, lastFocused,
                     focusOrder, drag, registering, tasks>>
      /\ move' \in Command /\ (move'.step = "register" => move'.target \in Window)
  BY AfterMoveTyped DEF MoveStep
<1>2. CASE ~CanMove(t, from, to)
  <2>1. UNCHANGED <<owner, order, active>>
    BY <1>2 DEF MoveStep
  <2>2. TypeOK'
    BY <1>1, <2>1 DEF TypeOK, tasks
  <2> QED
    BY <1>1, <2>1, <2>2, ModelUnchanged
<1>3. CASE CanMove(t, from, to)
  <2> DEFINE rest == Without(order[to], t)
             at == IF move.index < Len(rest) THEN move.index ELSE Len(rest)
             placed == InsertAt(rest, at + 1, t)
             left == Without(order[from], t)
  <2>1. /\ from \in windows /\ to \in windows
        /\ t \in Range(order[from]) /\ t \in tabs /\ owner[t] = from
    BY <1>3 DEF CanMove
  <2>2. from \in Window /\ to \in Window /\ t \in Tab
    BY <2>1 DEF TypeOK
  <2>3. /\ rest \in Seq(Tab) /\ IsInjective(rest) /\ Range(rest) = Range(order[to]) \ {t}
    BY <2>2, WithoutKeeps DEF TypeOK, PlacedOnce
  <2>4. /\ left \in Seq(Tab) /\ IsInjective(left) /\ Range(left) = Range(order[from]) \ {t}
    BY <2>2, WithoutKeeps DEF TypeOK, PlacedOnce
  <2>5. at + 1 \in 1..(Len(rest) + 1)
    <3>1. move.index \in Nat
      BY WorkspaceAssumption DEF TypeOK, Command
    <3> HIDE DEF rest
    <3> QED
      BY <2>3, <3>1
  <2>6. /\ placed \in Seq(Tab) /\ IsInjective(placed)
        /\ Range(placed) = Range(order[to]) \cup {t}
    <3> HIDE DEF rest, at
    <3>1. t \notin Range(rest)
      BY <2>3
    <3>2. /\ placed \in Seq(Tab) /\ IsInjective(placed) /\ Range(placed) = Range(rest) \cup {t}
      BY <2>2, <2>3, <2>5, <3>1, InsertAtAdds
    <3> QED
      BY <2>3, <3>2
  <2>7. /\ ActiveWithout(from, t) \in Tab \cup {NoTab}
        /\ IF left = << >> THEN ActiveWithout(from, t) = NoTab
           ELSE ActiveWithout(from, t) \in Range(left)
    BY <2>2, ActiveWithoutListed
  <2>8. owner' = [owner EXCEPT ![t] = to]
    BY <1>3 DEF MoveStep, MoveTab
  <2>9. CASE from = to
    <3>1. order' = [order EXCEPT ![to] = placed] /\ active' = active
      BY <1>3, <2>9 DEF MoveStep, MoveTab
    <3> HIDE DEF placed
    <3>2. TypeOK'
      BY <1>1, <2>1, <2>2, <2>6, <2>8, <3>1 DEF TypeOK, tasks
    <3>3. \A v \in Window : Range(order'[v]) = Range(order[v]) /\ IsInjective(order'[v])
      <4>1. order'[to] = placed /\ Range(placed) = Range(order[to])
        BY <2>1, <2>2, <2>6, <2>9, <3>1 DEF TypeOK
      <4>2. \A v \in Window \ {to} : order'[v] = order[v]
        BY <3>1 DEF TypeOK
      <4> HIDE DEF t, from, to
      <4> QED
        BY <2>6, <4>1, <4>2 DEF PlacedOnce
    <3>4. PlacedOnce' /\ OwnerAgrees'
      BY <1>1, <2>1, <2>2, <2>8, <2>9, <3>3 DEF PlacedOnce, OwnerAgrees, TypeOK
    <3>5. Range(<< >>) = {}
      BY DEF Range
    <3>6. \A v \in Window : order'[v] = << >> <=> order[v] = << >>
      BY <2>1, <2>2, <2>6, <2>9, <3>1, <3>5 DEF TypeOK
    <3>7. ActiveIsListed'
      BY <3>1, <3>3, <3>6 DEF ActiveIsListed
    <3>8. ListedStays
      BY <1>1, <3>3 DEF ListedStays, Listed, TypeOK
    <3> QED
      BY <1>1, <3>2, <3>4, <3>7, <3>8 DEF FocusIsRegistered
  <2>10. CASE from # to
    <3>1. /\ order' = [order EXCEPT ![from] = left, ![to] = placed]
          /\ active' = [active EXCEPT ![from] = ActiveWithout(from, t), ![to] = t]
      BY <1>3, <2>10 DEF MoveStep, MoveTab
    <3> HIDE DEF placed, left
    <3>2. /\ order'[from] = left /\ order'[to] = placed
          /\ active'[from] = ActiveWithout(from, t) /\ active'[to] = t
          /\ \A v \in Window \ {from, to} : order'[v] = order[v] /\ active'[v] = active[v]
      BY <2>2, <2>10, <3>1 DEF TypeOK
    <3>3. TypeOK'
      BY <1>1, <2>1, <2>2, <2>4, <2>6, <2>7, <2>8, <3>1 DEF TypeOK, tasks
    <3>4. PlacedOnce'
      <4>1. \A v \in Window : IsInjective(order'[v])
        BY <2>4, <2>6, <3>2 DEF PlacedOnce
      <4>2. \A v \in Window \ {from} : t \notin Range(order[v])
        BY <2>1, <2>2 DEF PlacedOnce
      <4>3. \A u, v \in Window : u # v => Range(order[u]) \cap Range(order[v]) = {}
        BY DEF PlacedOnce
      <4> HIDE DEF t, from, to
      <4>4. ASSUME NEW u \in Window, NEW v \in Window, u # v,
                   NEW x \in Range(order'[u]), x \in Range(order'[v])
            PROVE  FALSE
        <5>1. CASE x = t
          BY <2>4, <2>6, <3>2, <4>2, <4>4, <5>1
        <5>2. CASE x # t
          <6>1. x \in Range(order[u]) /\ x \in Range(order[v])
            BY <2>4, <2>6, <3>2, <4>4, <5>2
          <6> QED
            BY <4>3, <4>4, <6>1
        <5> QED
          BY <5>1, <5>2
      <4> QED
        BY <4>1, <4>4 DEF PlacedOnce
    <3>5. OwnerAgrees'
      <4>1. \A v \in Window \ {from} : t \notin Range(order[v])
        BY <2>1, <2>2 DEF PlacedOnce
      <4>2. /\ owner'[t] = to /\ \A x \in Tab \ {t} : owner'[x] = owner[x]
            /\ tabs' = tabs /\ tabs \subseteq Tab
        BY <1>1, <2>2, <2>8 DEF TypeOK
      <4>3. \A v \in Window : \A x \in Range(order[v]) \cap tabs : owner[x] = v
        BY DEF OwnerAgrees
      <4> HIDE DEF t, from, to
      <4>4. ASSUME NEW v \in Window, NEW x \in Range(order'[v]), x \in tabs
            PROVE  owner'[x] = v
        <5>1. CASE x = t
          BY <2>4, <2>6, <3>2, <4>1, <4>2, <4>4, <5>1
        <5>2. CASE x # t
          <6>1. x \in Range(order[v])
            BY <2>4, <2>6, <3>2, <4>4, <5>2
          <6> QED
            BY <4>2, <4>3, <4>4, <5>2, <6>1
        <5> QED
          BY <5>1, <5>2
      <4> QED
        BY <4>2, <4>4 DEF OwnerAgrees
    <3>6. ActiveIsListed'
      <4>1. Range(<< >>) = {}
        BY DEF Range
      <4> QED
        BY <2>2, <2>4, <2>6, <2>7, <3>2, <4>1 DEF ActiveIsListed
    <3>7. ListedStays
      <4> HIDE DEF t, from, to
      <4>1. \A x \in Tab \ {t}, v \in Window : x \in Range(order[v]) => x \in Range(order'[v])
        BY <2>4, <2>6, <3>2
      <4>2. t \in Range(order'[to])
        BY <2>6, <3>2
      <4> QED
        BY <1>1, <2>1, <4>1, <4>2 DEF ListedStays, Listed, TypeOK
    <3> QED
      BY <1>1, <3>3, <3>4, <3>5, <3>6, <3>7 DEF FocusIsRegistered
  <2> QED
    BY <2>9, <2>10
<1> QED
  BY <1>2, <1>3

\* Registering a session's tab takes it out of every window it was in.
LEMMA InsertStep ==
  ASSUME Inv, InsertTab
  PROVE  Inv' /\ ListedStays
<1> USE DEF Inv
<1> DEFINE t == registering.tab
           requested == registering.window
           recent == LastFocusedExisting(windows, focusOrder, lastFocused)
           dest == IF requested # NoWindow THEN requested
                   ELSE IF recent # NoWindow THEN recent
                   ELSE Main
           new == Append(Without(order[dest], t), t)
<1>1. /\ registering \in Registration
      /\ registering' = NoRegistration
      /\ order' = [w \in Window |-> IF w = dest THEN new ELSE Without(order[w], t)]
      /\ active' = [w \in Window |-> IF w = dest THEN t ELSE ActiveWithout(w, t)]
      /\ tabs' = tabs \cup {t}
      /\ owner' = [owner EXCEPT ![t] = dest]
      /\ connected' = [connected EXCEPT ![t] = registering.connected]
      /\ UNCHANGED <<native, session, drag, tasks, move>>
  BY DEF InsertTab, TypeOK, LockFree
<1>2. t \in Tab /\ requested \in Window \cup {NoWindow} /\ registering.connected \in BOOLEAN
  BY <1>1 DEF Registration
<1>3. recent \in windows \cup {NoWindow}
  BY LastFocusedExists DEF TypeOK
<1>4. dest \in Window
  BY <1>2, <1>3, WorkspaceAssumption DEF TypeOK
<1>5. /\ windows' \subseteq Window /\ windows \subseteq windows' /\ dest \in windows'
      /\ lastFocused' \in Window \cup {NoWindow}
      /\ focusOrder' \in Seq(Window)
      /\ FocusIsRegistered'
  <2>1. CASE requested # NoWindow
    <3>1. EnsureFocused(requested) /\ requested \in Window /\ dest = requested
      BY <1>2, <2>1 DEF InsertTab
    <3> QED
      BY <3>1, EnsureFocusedKeeps
  <2>2. CASE requested = NoWindow
    <3>1. windows' = windows \cup {dest} /\ UNCHANGED <<lastFocused, focusOrder>>
      BY <2>2 DEF InsertTab
    <3> QED
      BY <1>4, <3>1 DEF TypeOK, FocusIsRegistered
  <2> QED
    BY <2>1, <2>2
<1>6. \A w \in Window :
        /\ Without(order[w], t) \in Seq(Tab)
        /\ IsInjective(Without(order[w], t))
        /\ Range(Without(order[w], t)) = Range(order[w]) \ {t}
  BY WithoutKeeps DEF TypeOK, PlacedOnce
<1>7. /\ new \in Seq(Tab) /\ IsInjective(new)
      /\ Range(new) = Range(order[dest]) \cup {t}
  <2>1. /\ Without(order[dest], t) \in Seq(Tab)
        /\ IsInjective(Without(order[dest], t))
        /\ Range(Without(order[dest], t)) = Range(order[dest]) \ {t}
    BY <1>4, <1>6
  <2>2. /\ new \in Seq(Tab) /\ IsInjective(new)
        /\ Range(new) = Range(Without(order[dest], t)) \cup {t}
    BY <1>2, <2>1, AppendAdds
  <2> QED
    BY <2>1, <2>2
<1>8. \A w \in Window :
        /\ ActiveWithout(w, t) \in Tab \cup {NoTab}
        /\ IF Without(order[w], t) = << >> THEN ActiveWithout(w, t) = NoTab
           ELSE ActiveWithout(w, t) \in Range(Without(order[w], t))
  BY <1>2, ActiveWithoutListed
<1> HIDE DEF new, dest, requested, recent, t
<1>9. TypeOK'
  <2>1. order' \in [Window -> Seq(Tab)]
    BY <1>1, <1>6, <1>7
  <2>2. active' \in [Window -> Tab \cup {NoTab}]
    BY <1>1, <1>2, <1>8
  <2>3. \A w \in Window \ windows' : order'[w] = << >> /\ active'[w] = NoTab
    <3> SUFFICES ASSUME NEW w \in Window \ windows'
                 PROVE  order'[w] = << >> /\ active'[w] = NoTab
      OBVIOUS
    <3>1. w # dest /\ order[w] = << >>
      BY <1>5 DEF TypeOK
    <3>2. Without(<< >>, t) = << >>
      BY DEF Without, Range
    <3> QED
      BY <1>1, <1>8, <3>1, <3>2
  <2> QED
    BY <1>1, <1>2, <1>4, <1>5, <2>1, <2>2, <2>3 DEF TypeOK, tasks
<1>10. \A w \in Window :
         /\ IsInjective(order'[w])
         /\ Range(order'[w]) = IF w = dest THEN Range(order[dest]) \cup {t}
                               ELSE Range(order[w]) \ {t}
  BY <1>1, <1>6, <1>7
<1>11. PlacedOnce'
  <2>1. \A u, v \in Window : u # v => Range(order[u]) \cap Range(order[v]) = {}
    BY DEF PlacedOnce
  <2>2. ASSUME NEW u \in Window, NEW v \in Window, u # v,
               NEW x \in Range(order'[u]), x \in Range(order'[v])
        PROVE  FALSE
    <3>1. x # t
      BY <1>10, <2>2
    <3>2. x \in Range(order[u]) /\ x \in Range(order[v])
      BY <1>10, <2>2, <3>1
    <3> QED
      BY <2>1, <2>2, <3>2
  <2> QED
    BY <1>10, <2>2 DEF PlacedOnce
<1>12. OwnerAgrees'
  <2>1. /\ owner'[t] = dest /\ \A x \in Tab \ {t} : owner'[x] = owner[x]
        /\ tabs' = tabs \cup {t} /\ tabs \subseteq Tab
    BY <1>1, <1>2 DEF TypeOK
  <2>2. \A v \in Window : \A x \in Range(order[v]) \cap tabs : owner[x] = v
    BY DEF OwnerAgrees
  <2>3. ASSUME NEW v \in Window, NEW x \in Range(order'[v]), x \in tabs'
        PROVE  owner'[x] = v
    <3>1. CASE x = t
      BY <1>10, <2>1, <2>3, <3>1
    <3>2. CASE x # t
      <4>1. x \in Range(order[v]) /\ x \in tabs
        BY <1>10, <2>1, <2>3, <3>2
      <4> QED
        BY <2>1, <2>2, <3>2, <4>1
    <3> QED
      BY <3>1, <3>2
  <2> QED
    BY <2>3 DEF OwnerAgrees
<1>13. ActiveIsListed'
  <2> SUFFICES ASSUME NEW w \in Window
               PROVE  IF order'[w] = << >> THEN active'[w] = NoTab
                      ELSE active'[w] \in Range(order'[w])
    BY DEF ActiveIsListed
  <2>1. Range(<< >>) = {}
    BY DEF Range
  <2>2. CASE w = dest
    BY <1>1, <1>7, <2>1, <2>2
  <2>3. CASE w # dest
    BY <1>1, <1>8, <2>3
  <2> QED
    BY <2>2, <2>3
<1>14. ListedStays
  <2>1. t \in Range(order'[dest])
    BY <1>4, <1>10
  <2>2. \A x \in Tab \ {t}, v \in Window : x \in Range(order[v]) => x \in Range(order'[v])
    BY <1>10
  <2>3. tabs' = tabs \cup {t}
    BY <1>1
  <2> QED
    BY <1>5, <2>1, <2>2, <2>3 DEF ListedStays, Listed, TypeOK
<1> QED
  BY <1>5, <1>9, <1>11, <1>12, <1>13, <1>14

\* Closing a window: its tabs go to one registered window, or nowhere.
LEMMA UnregisterStep ==
  ASSUME Inv, NEW w \in Window, UnregisterWindow(w)
  PROVE  Inv' /\ ListedStays
<1> USE DEF Inv
<1> DEFINE wins == windows \ {w}
           focused == Without(focusOrder, w)
           last == LastFocusedExisting(wins, focused, lastFocused)
<1>1. /\ windows' = wins /\ focusOrder' = focused /\ lastFocused' = last
      /\ unregistering' = unregistering \ {w}
      /\ Rehome(w, wins, focused, last) \/ DropWindow(w, wins)
      /\ UNCHANGED <<native, session, tabs, connected, drag, registering,
                     focusing, closing, move>>
  BY DEF UnregisterWindow
<1>2. /\ focused \in Seq(Window) /\ IsInjective(focused)
      /\ Range(focused) = Range(focusOrder) \ {w}
  BY WithoutKeeps DEF TypeOK, FocusIsRegistered
<1>3. last \in wins \cup {NoWindow}
  BY <1>2, LastFocusedExists
<1>4. FocusIsRegistered'
  BY <1>1, <1>2, <1>3 DEF FocusIsRegistered
<1> HIDE DEF focused, last
<1>5. CASE DropWindow(w, wins)
  <2>1. /\ order' = [order EXCEPT ![w] = << >>]
        /\ active' = [active EXCEPT ![w] = NoTab]
        /\ UNCHANGED owner
    BY <1>5 DEF DropWindow
  <2>2. Range(<< >>) = {} /\ IsInjective(<< >>) /\ << >> \in Seq(Tab)
    BY DEF Range, IsInjective
  <2>3. TypeOK'
    BY <1>1, <1>2, <1>3, <2>1, <2>2 DEF TypeOK
  <2>4. /\ order'[w] = << >> /\ active'[w] = NoTab
        /\ \A v \in Window \ {w} : order'[v] = order[v] /\ active'[v] = active[v]
    BY <2>1 DEF TypeOK
  <2>5. PlacedOnce'
    BY <2>2, <2>4 DEF PlacedOnce
  <2>6. OwnerAgrees'
    BY <1>1, <2>1, <2>2, <2>4 DEF OwnerAgrees
  <2>7. ActiveIsListed'
    BY <2>2, <2>4 DEF ActiveIsListed
  <2>8. ListedStays
    <3>1. wins = {} \/ Range(order[w]) \cap tabs = {}
      BY <1>5 DEF DropWindow
    <3> QED
      BY <1>1, <2>4, <3>1 DEF ListedStays, Listed, TypeOK
  <2> QED
    BY <1>4, <2>3, <2>5, <2>6, <2>7, <2>8
<1>6. CASE Rehome(w, wins, focused, last)
  <2>1. PICK dest \in RehomeCandidates(wins, focused, last),
             moved \in OrderedParts(order[w], tabs) :
          \E kept \in OrderedParts(moved, Tab \ Range(order[dest])) :
            /\ w \in windows
            /\ moved # << >>
            /\ order' = [order EXCEPT ![w] = << >>, ![dest] = @ \o kept]
            /\ active' = [active EXCEPT ![w] = NoTab,
                                        ![dest] = IF @ = NoTab THEN moved[1] ELSE @]
            /\ owner' = [t \in Tab |-> IF t \in Range(moved) THEN dest ELSE owner[t]]
    BY <1>6 DEF Rehome
  <2>2. PICK kept \in OrderedParts(moved, Tab \ Range(order[dest])) :
            /\ w \in windows
            /\ moved # << >>
            /\ order' = [order EXCEPT ![w] = << >>, ![dest] = @ \o kept]
            /\ active' = [active EXCEPT ![w] = NoTab,
                                        ![dest] = IF @ = NoTab THEN moved[1] ELSE @]
            /\ owner' = [t \in Tab |-> IF t \in Range(moved) THEN dest ELSE owner[t]]
    BY <2>1
  <2>3. dest \in wins /\ dest \in Window /\ dest # w
    BY <1>2, RehomeToRegistered DEF TypeOK
  <2>4. /\ moved \in Seq(Tab) /\ IsInjective(moved) /\ Range(moved) = Range(order[w]) \cap tabs
    BY OrderedPartsKeep DEF TypeOK
  <2>5. Range(order[w]) \cap Range(order[dest]) = {}
    BY <2>3 DEF PlacedOnce
  <2>6. /\ kept \in Seq(Tab) /\ IsInjective(kept)
        /\ Range(kept) = Range(moved) \cap (Tab \ Range(order[dest]))
    BY <2>4, OrderedPartsKeep
  <2>7. Range(kept) = Range(moved) /\ Range(moved) \subseteq tabs /\ tabs \subseteq Tab
    BY <2>4, <2>5, <2>6 DEF TypeOK
  <2> DEFINE new == order[dest] \o kept
  <2>8. /\ new \in Seq(Tab) /\ IsInjective(new)
        /\ Range(new) = Range(order[dest]) \cup Range(moved)
    <3>1. Range(order[dest]) \cap Range(kept) = {}
      BY <2>6
    <3>2. /\ new \in Seq(Tab) /\ IsInjective(new)
          /\ Range(new) = Range(order[dest]) \cup Range(kept)
      BY <2>3, <2>6, <3>1, ConcatAdds DEF TypeOK, PlacedOnce
    <3> QED
      BY <2>7, <3>2
  <2> HIDE DEF new
  <2>9. moved[1] \in Range(moved) /\ moved[1] \in Tab
    <3>1. 1 \in DOMAIN moved
      BY <2>2, <2>4
    <3> QED
      BY <2>4, <2>7, <3>1 DEF Range
  <2>10. /\ order' = [order EXCEPT ![w] = << >>, ![dest] = new]
         /\ active' = [active EXCEPT ![w] = NoTab,
                          ![dest] = IF active[dest] = NoTab THEN moved[1] ELSE active[dest]]
    BY <2>2, <2>3 DEF TypeOK, new
  <2>11. Range(<< >>) = {} /\ IsInjective(<< >>) /\ << >> \in Seq(Tab)
    BY DEF Range, IsInjective
  <2>12. /\ order'[w] = << >> /\ active'[w] = NoTab
         /\ order'[dest] = new
         /\ active'[dest] = IF active[dest] = NoTab THEN moved[1] ELSE active[dest]
         /\ \A v \in Window \ {w, dest} : order'[v] = order[v] /\ active'[v] = active[v]
    BY <2>3, <2>10 DEF TypeOK
  <2>13. TypeOK'
    <3>1. order' \in [Window -> Seq(Tab)] /\ active' \in [Window -> Tab \cup {NoTab}]
      BY <2>8, <2>9, <2>10, <2>11 DEF TypeOK
    <3>2. owner' \in [Tab -> Window \cup {NoWindow}]
      BY <2>2, <2>3 DEF TypeOK
    <3>3. \A v \in Window \ windows' : order'[v] = << >> /\ active'[v] = NoTab
      BY <1>1, <2>3, <2>12 DEF TypeOK
    <3> QED
      BY <1>1, <1>2, <1>3, <3>1, <3>2, <3>3 DEF TypeOK
  <2>14. PlacedOnce'
    <3>1. \A v \in Window : IsInjective(order'[v])
      BY <2>8, <2>11, <2>12 DEF PlacedOnce
    <3>2. \A u, v \in Window : u # v => Range(order[u]) \cap Range(order[v]) = {}
      BY DEF PlacedOnce
    <3>3. ASSUME NEW u \in Window, NEW v \in Window, u # v,
                 NEW x \in Range(order'[u]), x \in Range(order'[v])
          PROVE  FALSE
      <4>1. u # w /\ v # w
        BY <2>11, <2>12, <3>3
      <4>2. \A z \in Window \ {w} : x \in Range(order'[z]) =>
              x \in Range(order[z]) \/ (z = dest /\ x \in Range(order[w]))
        BY <2>4, <2>8, <2>12
      <4> QED
        BY <3>2, <3>3, <4>1, <4>2
    <3> QED
      BY <3>1, <3>3 DEF PlacedOnce
  <2>15. OwnerAgrees'
    <3>1. \A v \in Window : \A x \in Range(order[v]) \cap tabs : owner[x] = v
      BY DEF OwnerAgrees
    <3>2. \A x \in Tab : owner'[x] = IF x \in Range(moved) THEN dest ELSE owner[x]
      BY <2>2
    <3>3. ASSUME NEW v \in Window, NEW x \in Range(order'[v]), x \in tabs
          PROVE  owner'[x] = v
      <4>1. v # w
        BY <2>11, <2>12, <3>3
      <4>2. CASE x \in Range(moved)
        <5>1. x \in Range(order[w])
          BY <2>4, <4>2
        <5>2. x \notin Range(order[v])
          BY <4>1, <5>1 DEF PlacedOnce
        <5>3. v = dest
          BY <2>12, <3>3, <4>1, <5>2
        <5> QED
          BY <2>7, <3>2, <4>2, <5>3
      <4>3. CASE x \notin Range(moved)
        <5>1. x \in Range(order[v])
          BY <2>8, <2>12, <3>3, <4>1, <4>3
        <5> QED
          BY <2>7, <3>1, <3>2, <3>3, <4>3, <5>1
      <4> QED
        BY <4>2, <4>3
    <3> QED
      BY <1>1, <3>3 DEF OwnerAgrees
  <2>16. ActiveIsListed'
    <3> SUFFICES ASSUME NEW v \in Window
                 PROVE  IF order'[v] = << >> THEN active'[v] = NoTab
                        ELSE active'[v] \in Range(order'[v])
      BY DEF ActiveIsListed
    <3>1. CASE v = w
      BY <2>12, <3>1
    <3>2. CASE v = dest
      <4>1. new # << >>
        BY <2>8, <2>9, <2>11
      <4>2. active'[dest] \in Range(new)
        BY <2>3, <2>8, <2>9, <2>12 DEF ActiveIsListed
      <4> QED
        BY <2>12, <3>2, <4>1, <4>2
    <3>3. CASE v # w /\ v # dest
      BY <2>12, <3>3 DEF ActiveIsListed
    <3> QED
      BY <3>1, <3>2, <3>3
  <2>17. ListedStays
    <3> SUFFICES ASSUME NEW t \in Tab, Listed(t)
                 PROVE  \E v \in wins : t \in Range(order'[v])
      BY <1>1 DEF ListedStays, Listed
    <3>1. PICK v \in windows : t \in Range(order[v]) /\ t \in tabs
      BY DEF Listed
    <3>2. CASE v = w
      BY <2>3, <2>4, <2>8, <2>12, <3>1, <3>2
    <3>3. CASE v # w
      BY <2>3, <2>8, <2>12, <3>1, <3>3 DEF TypeOK
    <3> QED
      BY <3>2, <3>3
  <2> QED
    BY <1>4, <2>13, <2>14, <2>15, <2>16, <2>17
<1> QED
  BY <1>1, <1>5, <1>6

-----------------------------------------------------------------------------
(* The theorems.                                                           *)

\* Inv holds of the empty workspace.
LEMMA InitInv == Init => Inv
<1> SUFFICES ASSUME Init PROVE Inv
  OBVIOUS
<1> USE WorkspaceAssumption DEF Init
<1>1. Range(<< >>) = {} /\ IsInjective(<< >>)
  BY DEF Range, IsInjective
<1>2. Idle \in Command /\ Idle.step # "register"
  BY DEF Idle, Command
<1>3. TypeOK
  BY <1>2 DEF TypeOK
<1>4. PlacedOnce /\ OwnerAgrees /\ ActiveIsListed /\ FocusIsRegistered
  BY <1>1 DEF PlacedOnce, OwnerAgrees, ActiveIsListed, FocusIsRegistered
<1> QED
  BY <1>3, <1>4 DEF Inv

\* Every step keeps Inv and loses no tab.
LEMMA NextInv == Inv /\ [Next]_vars => Inv' /\ ListedStays
<1> SUFFICES ASSUME Inv, [Next]_vars PROVE Inv' /\ ListedStays
  OBVIOUS
<1>1. CASE UNCHANGED vars
  <2>1. TypeOK'
    BY <1>1 DEF Inv, TypeOK, vars, model, tasks
  <2> QED
    BY <1>1, <2>1, ModelUnchanged DEF vars, model
<1>2. ASSUME NEW w \in Window, WindowStep(w) PROVE Inv' /\ ListedStays
  <2>1. CASE CreateWindow(w) \/ FocusEvent(w) \/ DestroyWindow(w) \/ CreateTarget(w)
    BY <2>1, WindowTaskStep
  <2>2. CASE FocusWindow(w)
    BY <2>2, FocusStep
  <2>3. CASE UnregisterWindow(w)
    BY <2>3, UnregisterStep
  <2>4. CASE DragLeave(w)
    BY <2>4, DragHoverStep, WorkspaceAssumption
  <2>5. ASSUME NEW i \in 0..MaxIndex, DragHover(w, i) PROVE Inv' /\ ListedStays
    BY <2>5, DragHoverStep
  <2> QED
    BY <1>2, <2>1, <2>2, <2>3, <2>4, <2>5 DEF WindowStep
<1>3. ASSUME NEW t \in Tab, SessionStep(t) PROVE Inv' /\ ListedStays
  <2>1. CASE Connect(t) \/ MarkTerminal(t) \/ MarkDisconnected(t)
    BY <2>1, SessionEventStep
  <2>2. ASSUME NEW v \in Window \cup {NoWindow}, ReadStatus(t, v) PROVE Inv' /\ ListedStays
    BY <2>2, ReadStatusStep
  <2>3. CASE ActivateSession(t)
    BY <2>3, ActivateStep, WorkspaceAssumption
  <2> QED
    BY <1>3, <2>1, <2>2, <2>3 DEF SessionStep
<1>4. ASSUME NEW w \in Window, NEW t \in Tab, TabStep(w, t) PROVE Inv' /\ ListedStays
  <2>1. CASE BeginClose(w, t) \/ CloseFails(w, t) \/ DetachBegin(w, t)
    BY <2>1, TabCommandStep
  <2>2. CASE RemoveTab(w, t)
    BY <2>2, RemoveStep
  <2>3. CASE ActivateTab(w, t)
    BY <2>3, ActivateStep
  <2>4. CASE FocusSessionWindow(w, t)
    BY <2>4, FocusStep
  <2>5. ASSUME NEW u \in Tab, NEW side \in {"before", "after"}, ReorderTab(w, t, u, side)
        PROVE  Inv' /\ ListedStays
    BY <2>5, ReorderStep
  <2>6. CASE DragStart(w, t)
    BY <2>6, DragStartStep
  <2> QED
    BY <1>4, <2>1, <2>2, <2>3, <2>4, <2>5, <2>6 DEF TabStep
<1>5. CASE CommandStep
  <2>1. CASE InsertTab
    BY <2>1, InsertStep
  <2>2. CASE DragCancel \/ DropPrepare
    BY <2>2, DragEndStep
  <2>3. CASE CreateTargetFails \/ CancelStep
    BY <2>3, CommandEndStep
  <2>4. CASE RegisterTarget
    BY <2>4, FocusStep
  <2>5. CASE MoveStep
    BY <2>5, MoveStepKeeps
  <2> QED
    BY <1>5, <2>1, <2>2, <2>3, <2>4, <2>5 DEF CommandStep
<1> QED
  BY <1>1, <1>2, <1>3, <1>4, <1>5 DEF Next

\* TypeOK, for every number of windows, tabs and commands.
THEOREM TypeCorrect == Spec => []TypeOK
<1>1. Inv => TypeOK
  BY DEF Inv
<1> QED
  BY InitInv, NextInv, <1>1, PTL DEF Spec

\* No interleaving of moves, rehomings, closings and registrations lists a tab twice,
\* disagrees with its owner, leaves a window without an active tab, or breaks the
\* focus history.
THEOREM ConsistentHolds == Spec => []Consistent
<1>1. Inv => Consistent
  BY DEF Inv, Consistent
<1> QED
  BY InitInv, NextInv, <1>1, PTL DEF Spec

\* A tab that a window lists is never lost between windows.
THEOREM StaysListedHolds == Spec => StaysListed
<1>1. Inv /\ [Next]_vars => [ListedStays]_vars
  BY NextInv
<1> QED
  BY InitInv, NextInv, <1>1, PTL DEF Spec, StaysListed

-----------------------------------------------------------------------------
(* The registration of a tab and the end of its session.                   *)

\* The second step of a teardown waits for the mutex a registration holds, so
\* the status read stays true until it is used; a tab whose teardown is
\* complete was therefore inserted, or marked, as disconnected.
LEMMA StatusStep ==
  ASSUME Inv, StatusHolds, NeverRevived, [Next]_vars
  PROVE  StatusHolds' /\ NeverRevived'
<1> USE DEF Inv, TypeOK, StatusHolds, NeverRevived, LockFree
<1> DEFINE Kept == UNCHANGED <<session, registering, tabs, connected>>
<1>0. ASSUME Kept PROVE StatusHolds' /\ NeverRevived'
  BY <1>0
<1>1. CASE UNCHANGED vars
  BY <1>0, <1>1 DEF vars, model
<1>2. ASSUME NEW w \in Window, WindowStep(w) PROVE StatusHolds' /\ NeverRevived'
  <2>1. Kept
    BY <1>2 DEF WindowStep, CreateWindow, FocusEvent, FocusWindow, DestroyWindow,
                UnregisterWindow, CreateTarget, DragLeave, DragHover, model
  <2> QED
    BY <1>0, <2>1
<1>3. ASSUME NEW t \in Tab, SessionStep(t) PROVE StatusHolds' /\ NeverRevived'
  <2>1. CASE Connect(t)
    BY <2>1 DEF Connect, model
  <2>2. CASE MarkTerminal(t)
    BY <2>2 DEF MarkTerminal, model
  <2>3. CASE MarkDisconnected(t)
    BY <2>3 DEF MarkDisconnected
  <2>4. ASSUME NEW v \in Window \cup {NoWindow}, ReadStatus(t, v)
        PROVE  StatusHolds' /\ NeverRevived'
    BY <2>4 DEF ReadStatus, model
  <2>5. CASE ActivateSession(t)
    BY <1>0, <2>5 DEF ActivateSession
  <2> QED
    BY <1>3, <2>1, <2>2, <2>3, <2>4, <2>5 DEF SessionStep
<1>4. ASSUME NEW w \in Window, NEW t \in Tab, TabStep(w, t)
      PROVE  StatusHolds' /\ NeverRevived'
  <2>1. CASE RemoveTab(w, t)
    <3>1. LockFree /\ registering' = registering
      BY <2>1 DEF RemoveTab
    <3>2. tabs' \subseteq tabs /\ UNCHANGED connected
      BY <2>1 DEF RemoveTab
    <3>3. \A u \in tabs' : session'[u] = session[u]
      BY <2>1 DEF RemoveTab
    <3> QED
      BY <3>1, <3>2, <3>3
  <2>2. CASE ~RemoveTab(w, t)
    <3>1. Kept
      BY <1>4, <2>2 DEF TabStep, BeginClose, CloseFails, ActivateTab, FocusSessionWindow,
                        ReorderTab, DragStart, DetachBegin, model
    <3> QED
      BY <1>0, <3>1
  <2> QED
    BY <2>1, <2>2
<1>5. CASE CommandStep
  <2>1. CASE InsertTab
    <3> DEFINE t == registering.tab
    <3>1. /\ registering \in Registration
          /\ registering' = NoRegistration
          /\ tabs' = tabs \cup {t}
          /\ connected' = [connected EXCEPT ![t] = registering.connected]
          /\ UNCHANGED session
      BY <2>1 DEF InsertTab
    <3>2. t \in Tab /\ registering.connected \in BOOLEAN
      BY <3>1 DEF Registration
    <3>3. registering.connected => session[t] \in {"connected", "marked"}
      BY <2>1 DEF InsertTab
    <3>4. NeverRevived'
      BY <3>1, <3>2, <3>3
    <3>5. StatusHolds'
      BY <3>1
    <3> QED
      BY <3>4, <3>5
  <2>2. CASE ~InsertTab
    <3>1. Kept
      BY <1>5, <2>2 DEF CommandStep, DragCancel, DropPrepare, CreateTargetFails,
                        RegisterTarget, MoveStep, CancelStep, model
    <3> QED
      BY <1>0, <3>1
  <2> QED
    BY <2>1, <2>2
<1> QED
  BY <1>1, <1>2, <1>3, <1>4, <1>5 DEF Next

\* A tab of a session whose teardown is complete is never shown as connected,
\* however its registration and its teardown interleave.
THEOREM NeverRevivedHolds == Spec => []NeverRevived
<1>1. Init => StatusHolds /\ NeverRevived
  BY DEF Init, StatusHolds, NeverRevived, LockFree
<1> QED
  BY InitInv, NextInv, <1>1, StatusStep, PTL DEF Spec
=============================================================================
