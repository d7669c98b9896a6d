--------------------------- MODULE MainScreenProofs ---------------------------
(***************************************************************************)
(* Proofs about the main screen, for any pages, buttons, sidebars and      *)
(* tables.                                                                 *)
(*                                                                         *)
(* A press of a button runs a fold of Displayed over what it assigns.  The *)
(* recursive function behind FoldLeft is shown to exist for every length,  *)
(* so that what one assignment keeps every button keeps.                   *)
(***************************************************************************)
EXTENDS MainScreen, WellFoundedInduction, TLAPS

-----------------------------------------------------------------------------
(* Operators on sequences, and the fold *)

LEMMA RemoveAtFacts ==
  ASSUME NEW S, NEW s \in Seq(S), NEW i \in 1 .. Len(s)
  PROVE  /\ RemoveAt(s, i) \in Seq(S)
         /\ Len(RemoveAt(s, i)) = Len(s) - 1
         /\ \A n \in 1 .. Len(s) - 1 :
              RemoveAt(s, i)[n] = IF n < i THEN s[n] ELSE s[n + 1]
<1> DEFINE a == SubSeq(s, 1, i - 1)
           b == SubSeq(s, i + 1, Len(s))
<1>1. i \in Nat /\ Len(s) \in Nat /\ 1 <= i /\ i <= Len(s)
  OBVIOUS
<1>2. a \in Seq(S) /\ Len(a) = i - 1 /\ \A n \in 1 .. i - 1 : a[n] = s[n]
  BY <1>1
<1>3. /\ b \in Seq(S) /\ Len(b) = Len(s) - i
      /\ \A n \in 1 .. Len(s) - i : b[n] = s[n + i]
  BY <1>1
<1> HIDE DEF a, b
<1>4. /\ a \o b \in Seq(S)
      /\ Len(a \o b) = Len(s) - 1
  <2>1. a \in Seq(S) /\ b \in Seq(S)
    BY <1>2, <1>3
  <2>2. a \o b \in Seq(S) /\ Len(a \o b) = Len(a) + Len(b)
    BY <2>1
  <2>3. Len(a) + Len(b) = Len(s) - 1
    BY <1>1, <1>2, <1>3
  <2> QED
    BY <2>2, <2>3
<1>5. ASSUME NEW n \in 1 .. Len(s) - 1
      PROVE  (a \o b)[n] = IF n < i THEN s[n] ELSE s[n + 1]
  <2>1. CASE n < i
    BY <2>1, <1>1, <1>2, <1>3
  <2>2. CASE ~(n < i)
    <3> DEFINE m == n - (i - 1)
    <3>1. m \in 1 .. Len(b) /\ m \in 1 .. Len(s) - i /\ m + i = n + 1
      BY <2>2, <1>1, <1>3
    <3>2. (a \o b)[n] = b[m]
      BY <2>2, <3>1, <1>1, <1>2, <1>3
    <3>3. b[m] = s[m + i]
      BY <3>1, <1>3
    <3> HIDE DEF m
    <3> QED
      BY <2>2, <3>1, <3>2, <3>3
  <2> QED
    BY <2>1, <2>2
<1>6. RemoveAt(s, i) = a \o b
  BY DEF RemoveAt, a, b
<1> QED
  BY <1>4, <1>5, <1>6

LEMMA InsertAtFacts ==
  ASSUME NEW S, NEW s \in Seq(S), NEW i \in 1 .. Len(s) + 1, NEW e \in S
  PROVE  /\ InsertAt(s, i, e) \in Seq(S)
         /\ Len(InsertAt(s, i, e)) = Len(s) + 1
         /\ \A n \in 1 .. i - 1 : InsertAt(s, i, e)[n] = s[n]
         /\ InsertAt(s, i, e)[i] = e
         /\ \A n \in i .. Len(s) : InsertAt(s, i, e)[n + 1] = s[n]
<1> DEFINE a == SubSeq(s, 1, i - 1)
           b == SubSeq(s, i, Len(s))
           c == a \o <<e>>
<1>1. i \in Nat /\ Len(s) \in Nat /\ 1 <= i /\ i <= Len(s) + 1
  OBVIOUS
<1>2. a \in Seq(S) /\ Len(a) = i - 1 /\ \A n \in 1 .. i - 1 : a[n] = s[n]
  BY <1>1
<1>3. /\ b \in Seq(S) /\ Len(b) = Len(s) - i + 1
      /\ \A n \in 1 .. Len(s) - i + 1 : b[n] = s[n + i - 1]
  BY <1>1
<1> HIDE DEF a, b
<1>4. /\ c \in Seq(S) /\ Len(c) = i /\ c[i] = e
      /\ \A n \in 1 .. i - 1 : c[n] = s[n]
  BY <1>1, <1>2
<1> HIDE DEF c
<1>5. /\ c \o b \in Seq(S) /\ Len(c \o b) = Len(s) + 1
      /\ \A n \in 1 .. Len(c) : (c \o b)[n] = c[n]
      /\ \A n \in 1 .. Len(b) : (c \o b)[Len(c) + n] = b[n]
  BY <1>1, <1>3, <1>4
<1>6. ASSUME NEW n \in i .. Len(s)
      PROVE  (c \o b)[n + 1] = s[n]
  <2> DEFINE m == n + 1 - i
  <2>1. m \in 1 .. Len(b) /\ m \in 1 .. Len(s) - i + 1 /\ Len(c) + m = n + 1 /\ m + i - 1 = n
    BY <1>1, <1>3, <1>4
  <2>2. (c \o b)[Len(c) + m] = b[m]
    BY <1>5, <2>1
  <2>3. b[m] = s[m + i - 1]
    BY <1>3, <2>1
  <2> HIDE DEF m
  <2> QED
    BY <2>1, <2>2, <2>3
<1>7. InsertAt(s, i, e) = c \o b
  BY DEF InsertAt, a, b, c
<1> QED
  BY <1>1, <1>4, <1>5, <1>6, <1>7

(* Induction over the natural numbers for a set that is given: the library's *)
(* theorem takes a predicate.                                               *)
LEMMA SetInduction ==
  ASSUME NEW S, 0 \in S, \A n \in Nat : n \in S => n + 1 \in S
  PROVE  \A n \in Nat : n \in S
<1> DEFINE T == {n \in Nat : n \notin S}
<1> SUFFICES ASSUME T # {} PROVE FALSE
  OBVIOUS
<1>1. T \subseteq Nat
  OBVIOUS
<1>2. PICK n \in T : \A m \in T : <<m, n>> \notin OpToRel(<, Nat)
  BY <1>1, WFMin, NatLessThanWellFounded, Zenon
<1>3. n \in Nat /\ n # 0
  BY <1>2
<1>4. n - 1 \in Nat /\ n - 1 < n
  BY <1>3
<1>5. <<n - 1, n>> \in OpToRel(<, Nat)
  BY <1>3, <1>4, Zenon DEF OpToRel
<1>6. n - 1 \in S
  BY <1>2, <1>4, <1>5
<1>7. (n - 1) + 1 \in S
  BY <1>4, <1>6
<1>8. (n - 1) + 1 = n
  BY <1>3
<1> QED
  BY <1>2, <1>7, <1>8

(* The last index of a part of a sequence. *)
LEMMA MaxIs ==
  ASSUME NEW n \in Nat, NEW s \in SUBSET (1 .. n), n \in s
  PROVE  Max(s) = n
<1>1. n \in s /\ \A y \in s : n >= y
  OBVIOUS
<1>2. ASSUME NEW m \in s, \A y \in s : m >= y
      PROVE  m = n
  <2>1. m >= n /\ n >= m /\ m \in Nat
    BY <1>1, <1>2
  <2> QED
    BY <2>1
<1> QED
  BY <1>1, <1>2, Zenon DEF Max

(* What Open folds is what one Displayed after the other makes of it.      *)
LEMMA FoldSteps ==
  ASSUME NEW base, NEW keys, NEW K, keys \in Seq(K)
  PROVE  \E f : /\ f[0] = base
                /\ \A n \in 1 .. Len(keys) : f[n] = Displayed(f[n - 1], keys[n])
                /\ FoldLeft(Displayed, base, keys) = f[Len(keys)]
<1> DEFINE Step(it, s) ==
             IF s = {} THEN base ELSE Displayed(it[s \ {Max(s)}], keys[Max(s)])
           Iterated(it, n) == it = [s \in SUBSET (1 .. n) |-> Step(it, s)]
           N == {n \in Nat : \E it : Iterated(it, n)}
<1>1. 0 \in N
  <2>1. Iterated([s \in SUBSET (1 .. 0) |-> base], 0)
    OBVIOUS
  <2> QED
    BY <2>1
<1>2. ASSUME NEW n \in Nat, n \in N
      PROVE  n + 1 \in N
  <2>1. PICK it : Iterated(it, n)
    BY <1>2
  <2> DEFINE next == [s \in SUBSET (1 .. n + 1) |->
                        IF n + 1 \in s THEN Displayed(it[s \ {n + 1}], keys[n + 1]) ELSE it[s]]
  <2>2. ASSUME NEW s \in SUBSET (1 .. n + 1)
        PROVE  next[s] = Step(next, s)
    <3>1. CASE n + 1 \in s
      <4>1. Max(s) = n + 1
        BY <3>1, MaxIs
      <4>2. s \ {n + 1} \in SUBSET (1 .. n + 1) /\ n + 1 \notin s \ {n + 1}
        OBVIOUS
      <4>3. next[s \ {n + 1}] = it[s \ {n + 1}]
        BY <4>2
      <4> QED
        BY <3>1, <4>1, <4>3
    <3>2. CASE n + 1 \notin s
      <4>1. s \in SUBSET (1 .. n)
        BY <3>2
      <4>2. /\ s \ {Max(s)} \in SUBSET (1 .. n + 1)
            /\ n + 1 \notin s \ {Max(s)}
        BY <3>2
      <4>3. next[s \ {Max(s)}] = it[s \ {Max(s)}]
        BY <4>2
      <4>4. it[s] = Step(it, s)
        BY <2>1, <4>1
      <4> QED
        BY <3>2, <4>3, <4>4
    <3> QED
      BY <3>1, <3>2
  <2>3. Iterated(next, n + 1)
    BY <2>2
  <2>4. n + 1 \in Nat
    OBVIOUS
  <2> HIDE DEF Iterated, next
  <2> QED
    BY <2>3, <2>4
<1> DEFINE iter == CHOOSE it : Iterated(it, Len(keys))
<1>3. Len(keys) \in Nat /\ DOMAIN keys = 1 .. Len(keys)
  OBVIOUS
<1>4. Iterated(iter, Len(keys))
  <2> HIDE DEF Iterated
  <2>1. \A n \in Nat : n \in N
    BY <1>1, <1>2, SetInduction
  <2>2. \E it : Iterated(it, Len(keys))
    BY <2>1, <1>3
  <2> QED
    BY <2>2
<1>5. FoldLeft(Displayed, base, keys) = iter[1 .. Len(keys)]
  BY <1>3, Zenon DEF FoldLeft, MapThenFoldSet
<1> DEFINE f == [n \in 0 .. Len(keys) |-> iter[1 .. n]]
<1> HIDE DEF iter
<1>6. f[0] = base
  BY <1>3, <1>4
<1>7. ASSUME NEW n \in 1 .. Len(keys)
      PROVE  f[n] = Displayed(f[n - 1], keys[n])
  <2>1. /\ 1 .. n \in SUBSET (1 .. Len(keys)) /\ n \in 1 .. n /\ n \in Nat
        /\ n \in 0 .. Len(keys) /\ n - 1 \in 0 .. Len(keys)
    BY <1>3
  <2>4. (1 .. n) \ {n} = 1 .. (n - 1)
    BY <2>1
  <2>2. Max(1 .. n) = n
    BY <2>1, MaxIs
  <2>3. iter[1 .. n] = Step(iter, 1 .. n)
    BY <1>4, <2>1
  <2> QED
    BY <2>1, <2>2, <2>3, <2>4
<1>8. FoldLeft(Displayed, base, keys) = f[Len(keys)]
  BY <1>3, <1>5
<1> HIDE DEF f
<1> QED
  BY <1>6, <1>7, <1>8

-----------------------------------------------------------------------------
(* The tabs *)

(* What holds of the tabs between any two handlers: the properties, and    *)
(* that the router is where displayMidTop says if that has a route.  The   *)
(* last keeps CloseTab from closing the page it hands over to: a page that *)
(* is displayed already signals nothing.                                   *)
Consistent(s) ==
  /\ s \in Tabbing
  /\ s.current \in IF s.tabs = <<>> THEN {0} ELSE DOMAIN s.tabs
  /\ s.shown # NullPage => s.current \in DOMAIN s.tabs /\ s.tabs[s.current] = s.shown
  /\ IsInjective(s.tabs)
  /\ s.displayed \in Routes => s.shown = s.displayed

TabsInv == Consistent(Tabs)

LEMMA TabbingFacts ==
  ASSUME NEW s, s \in Tabbing
  PROVE  /\ s = [tabs |-> s.tabs, current |-> s.current,
                 displayed |-> s.displayed, shown |-> s.shown]
         /\ s.tabs \in Seq(Page) /\ s.current \in Nat
         /\ s.displayed \in Routes \cup Unrouted /\ s.shown \in Routes
         /\ Len(s.tabs) \in Nat /\ DOMAIN s.tabs = 1 .. Len(s.tabs)
         /\ \A i \in 1 .. Len(s.tabs) : s.tabs[i] \in Page
BY DEF Tabbing

(* The tab of a page becomes the current one, or is new at the end.        *)
LEMMA TabSelectedFacts ==
  ASSUME NEW s, Consistent(s), NEW k \in Routes \cup Unrouted
  PROVE  LET t == TabSelected(s, k) IN
         /\ t \in Tabbing /\ t.displayed = s.displayed /\ t.shown = s.shown
         /\ IsInjective(t.tabs)
         /\ k \in Page => t.current \in DOMAIN t.tabs /\ t.tabs[t.current] = k
         /\ k \notin Page => t = s
         /\ (\E i \in DOMAIN s.tabs : s.tabs[i] = k) => t.tabs = s.tabs
<1> DEFINE t == TabSelected(s, k)
<1>1. s \in Tabbing /\ IsInjective(s.tabs)
  BY DEF Consistent
<1>2. CASE \E i \in DOMAIN s.tabs : s.tabs[i] = k
  <2>1. PICK i \in DOMAIN s.tabs : s.tabs[i] = k
    BY <1>2
  <2> DEFINE First(j) == s.tabs[j] = k /\ \A l \in 1 .. j - 1 : s.tabs[l] # k
             c == CHOOSE j \in DOMAIN s.tabs : First(j)
  <2>2. First(i)
    BY <2>1, <1>1, TabbingFacts DEF IsInjective
  <2>3. c \in DOMAIN s.tabs /\ s.tabs[c] = k
    BY <2>1, <2>2
  <2>4. t = [s EXCEPT !.current = c]
    <3>1. ~(k \in Page /\ ~Contains(s.tabs, k))
      BY <2>1, <1>1, TabbingFacts DEF Contains
    <3> QED
      BY <1>2, <3>1 DEF TabSelected
  <2>5. k \in Page
    BY <2>1, <1>1, TabbingFacts
  <2> HIDE DEF c, t
  <2>6. /\ t.tabs = s.tabs /\ t.current = c /\ t.displayed = s.displayed
        /\ t.shown = s.shown /\ t \in Tabbing
    BY <2>3, <2>4, <1>1, TabbingFacts DEF Tabbing
  <2> QED
    BY <2>3, <2>5, <2>6, <1>1 DEF t
<1>3. CASE (\A i \in DOMAIN s.tabs : s.tabs[i] # k) /\ k \in Page
  <2> DEFINE n == Len(s.tabs) + 1
             longer == Append(s.tabs, k)
  <2>1. t = [s EXCEPT !.tabs = longer, !.current = n]
    BY <1>3, <1>1, TabbingFacts DEF TabSelected, Contains
  <2>2. /\ longer \in Seq(Page) /\ Len(longer) = n /\ DOMAIN longer = 1 .. n
        /\ longer[n] = k /\ \A i \in 1 .. Len(s.tabs) : longer[i] = s.tabs[i]
        /\ n \in Nat /\ n \in 1 .. n
    BY <1>1, <1>3, TabbingFacts
  <2>3. IsInjective(longer)
    <3>1. ASSUME NEW a \in 1 .. n, NEW b \in 1 .. n, longer[a] = longer[b]
          PROVE  a = b
      <4>1. a \in 1 .. Len(s.tabs) \/ a = n
        BY <1>1, TabbingFacts
      <4>2. b \in 1 .. Len(s.tabs) \/ b = n
        BY <1>1, TabbingFacts
      <4> HIDE DEF n, longer
      <4> QED
        BY <3>1, <4>1, <4>2, <2>2, <1>1, <1>3, TabbingFacts DEF IsInjective
    <3> QED
      BY <3>1, <2>2 DEF IsInjective
  <2> HIDE DEF n, longer, t
  <2>4. /\ t.tabs = longer /\ t.current = n /\ t.displayed = s.displayed
        /\ t.shown = s.shown /\ t \in Tabbing
    BY <2>1, <2>2, <1>1, TabbingFacts DEF Tabbing
  <2> QED
    BY <1>3, <2>2, <2>3, <2>4 DEF t
<1>4. CASE (\A i \in DOMAIN s.tabs : s.tabs[i] # k) /\ k \notin Page
  BY <1>1, <1>4 DEF TabSelected
<1> QED
  BY <1>2, <1>3, <1>4

LEMMA DisplayedKeeps ==
  ASSUME NEW s, Consistent(s), NEW k \in Routes \cup Unrouted
  PROVE  Consistent(Displayed(s, k))
<1> DEFINE t == TabSelected(s, k)
           d == Displayed(s, k)
<1>1. CASE k = s.displayed
  BY <1>1 DEF Displayed
<1>2. CASE k # s.displayed
  <2>1. /\ t \in Tabbing /\ t.displayed = s.displayed /\ t.shown = s.shown
        /\ IsInjective(t.tabs)
        /\ k \in Page => t.current \in DOMAIN t.tabs /\ t.tabs[t.current] = k
        /\ k \notin Page => t = s
    BY TabSelectedFacts
  <2>2. d = [t EXCEPT !.displayed = k, !.shown = IF k \in Routes THEN k ELSE t.shown]
    BY <1>2 DEF Displayed
  <2> HIDE DEF t, d
  <2>3. /\ d.tabs = t.tabs /\ d.current = t.current /\ d.displayed = k
        /\ d.shown = IF k \in Routes THEN k ELSE s.shown
        /\ d \in Tabbing
    BY <2>1, <2>2, TabbingFacts DEF Tabbing
  <2>4. ASSUME k \in Page
        PROVE  Consistent(d)
    <3>1. d.tabs # <<>>
      BY <2>1, <2>3, <2>4, TabbingFacts
    <3> QED
      BY <2>1, <2>3, <2>4, <3>1, PageAssumption, TabbingFacts DEF Consistent, Routes
  <2>5. ASSUME k \notin Page
        PROVE  Consistent(d)
    <3>1. d.tabs = s.tabs /\ d.current = s.current
      BY <2>1, <2>3, <2>5
    <3> QED
      BY <2>3, <2>5, <3>1, PageAssumption DEF Consistent, Routes
  <2> QED
    BY <2>4, <2>5 DEF d
<1> QED
  BY <1>1, <1>2

(* A button shows one page after another. *)
LEMMA OpenKeeps ==
  ASSUME NEW s, Consistent(s), NEW keys \in Seq(Routes \cup Unrouted)
  PROVE  Consistent(FoldLeft(Displayed, s, keys))
<1>1. PICK f : /\ f[0] = s
               /\ \A n \in 1 .. Len(keys) : f[n] = Displayed(f[n - 1], keys[n])
               /\ FoldLeft(Displayed, s, keys) = f[Len(keys)]
  BY FoldSteps
<1> DEFINE N == {n \in Nat : n <= Len(keys) => Consistent(f[n])}
<1>2. 0 \in N
  BY <1>1
<1>3. ASSUME NEW n \in Nat, n \in N
      PROVE  n + 1 \in N
  <2>1. SUFFICES ASSUME n + 1 <= Len(keys) PROVE Consistent(f[n + 1])
    OBVIOUS
  <2>2. n + 1 \in 1 .. Len(keys) /\ (n + 1) - 1 = n /\ n <= Len(keys)
    BY <2>1
  <2>3. f[n + 1] = Displayed(f[n], keys[n + 1])
    BY <1>1, <2>2
  <2>4. Consistent(f[n]) /\ keys[n + 1] \in Routes \cup Unrouted
    BY <1>3, <2>2
  <2> QED
    BY <2>3, <2>4, DisplayedKeeps
<1>4. \A n \in Nat : n \in N
  <2> HIDE DEF N
  <2> QED
    BY <1>2, <1>3, SetInduction
<1>5. Len(keys) \in N
  BY <1>4
<1> QED
  BY <1>1, <1>5

(* The current tab hands over, unless the null page was shown already.     *)
LEMMA HandedOverFacts ==
  ASSUME NEW s, Consistent(s), NEW i \in DOMAIN s.tabs
  PROVE  LET h == HandedOver(s, i) IN
         /\ Consistent(h) /\ h.tabs = s.tabs
         /\ h.current # i \/ h.shown = NullPage
<1> DEFINE h == HandedOver(s, i)
<1>1. /\ s \in Tabbing /\ IsInjective(s.tabs) /\ i \in 1 .. Len(s.tabs)
      /\ s.current \in 1 .. Len(s.tabs)
  BY TabbingFacts DEF Consistent
<1>2. CASE s.current # i
  BY <1>2 DEF HandedOver
<1>3. CASE s.current = i /\ i = 1
  <2>1. h = Displayed(s, NullPage) /\ NullPage \in Routes \cup Unrouted
    BY <1>3 DEF HandedOver, Routes
  <2>2. Consistent(h)
    BY <2>1, DisplayedKeeps
  <2>3. h.tabs = s.tabs /\ h.shown = NullPage
    <3>1. CASE s.displayed = NullPage
      BY <2>1, <3>1 DEF Displayed, Consistent, Routes
    <3>2. CASE s.displayed # NullPage
      <4>1. TabSelected(s, NullPage) = s
        BY <2>1, TabSelectedFacts, PageAssumption
      <4>2. h = [s EXCEPT !.displayed = NullPage, !.shown = NullPage]
        BY <2>1, <3>2, <4>1 DEF Displayed, Routes
      <4> QED
        BY <4>2, <1>1, TabbingFacts
    <3> QED
      BY <3>1, <3>2
  <2> QED
    BY <2>2, <2>3
<1>4. CASE s.current = i /\ i > 1
  <2> DEFINE k == s.tabs[i - 1]
             t == TabSelected(s, k)
  <2>1. i - 1 \in DOMAIN s.tabs /\ i - 1 # i /\ k \in Page
    BY <1>1, <1>4, TabbingFacts
  <2>2. h = Displayed(s, k) /\ k \in Routes \cup Unrouted
    BY <1>1, <1>4, <2>1 DEF HandedOver, Routes
  <2>3. k # s.displayed
    <3>1. SUFFICES ASSUME k = s.displayed PROVE FALSE
      OBVIOUS
    <3>2. s.shown = k /\ s.shown # NullPage
      BY <2>1, <3>1, PageAssumption DEF Consistent, Routes
    <3>3. s.tabs[i] = k
      BY <1>4, <3>2 DEF Consistent
    <3> QED
      BY <1>1, <2>1, <3>3, TabbingFacts DEF IsInjective
  <2>4. t.tabs = s.tabs /\ t.current \in DOMAIN s.tabs /\ s.tabs[t.current] = k
    BY <2>1, <2>2, TabSelectedFacts
  <2>5. t.current = i - 1 /\ t \in Tabbing
    BY <1>1, <2>1, <2>2, <2>4, TabSelectedFacts DEF IsInjective
  <2>6. h = [t EXCEPT !.displayed = k, !.shown = k]
    BY <2>1, <2>2, <2>3 DEF Displayed, Routes
  <2> HIDE DEF t, h
  <2>7. h.tabs = s.tabs /\ h.current = i - 1
    BY <2>4, <2>5, <2>6, TabbingFacts
  <2>8. Consistent(h)
    BY <2>2, DisplayedKeeps
  <2> QED
    BY <2>1, <2>7, <2>8 DEF h
<1> QED
  BY <1>1, <1>2, <1>3, <1>4

LEMMA RemovedKeeps ==
  ASSUME NEW s, Consistent(s), NEW i \in DOMAIN s.tabs,
         s.current # i \/ s.shown = NullPage
  PROVE  Consistent(Removed(s, i))
<1> DEFINE r == Removed(s, i)
           left == Len(s.tabs) - 1
           shorter == RemoveAt(s.tabs, i)
           c == CASE s.current > i -> s.current - 1
                  [] s.current = i /\ i > left -> left
                  [] OTHER -> s.current
<1>1. /\ s \in Tabbing /\ IsInjective(s.tabs) /\ i \in 1 .. Len(s.tabs)
      /\ s.current \in 1 .. Len(s.tabs) /\ s.tabs \in Seq(Page)
      /\ Len(s.tabs) \in Nat
  BY TabbingFacts DEF Consistent
<1>2. /\ shorter \in Seq(Page) /\ Len(shorter) = left /\ DOMAIN shorter = 1 .. left
      /\ \A n \in 1 .. left : shorter[n] = IF n < i THEN s.tabs[n] ELSE s.tabs[n + 1]
  BY <1>1, RemoveAtFacts
<1>3. r = [s EXCEPT !.tabs = shorter, !.current = c]
  BY <1>1, TabbingFacts DEF Removed
<1>4. c \in Nat /\ c \in 0 .. left /\ (left > 0 => c > 0)
  <2>1. CASE s.current > i
    BY <1>1, <2>1
  <2>2. CASE s.current = i /\ i > left
    BY <1>1, <2>2
  <2>3. CASE ~(s.current > i) /\ ~(s.current = i /\ i > left)
    BY <1>1, <2>3
  <2> QED
    BY <2>1, <2>2, <2>3
<1>5. s.current # i => c \in 1 .. left /\ shorter[c] = s.tabs[s.current]
  <2>1. CASE s.current > i
    <3>1. c = s.current - 1 /\ c \in 1 .. left /\ ~(c < i) /\ c + 1 = s.current
      BY <1>1, <2>1
    <3> HIDE DEF c
    <3> QED
      BY <1>2, <3>1
  <2>2. CASE s.current < i
    <3>1. c = s.current /\ c \in 1 .. left /\ c < i
      BY <1>1, <2>2
    <3> HIDE DEF c
    <3> QED
      BY <1>2, <3>1
  <2> QED
    BY <1>1, <2>1, <2>2
<1>6. IsInjective(shorter)
  <2>1. ASSUME NEW a \in 1 .. left, NEW b \in 1 .. left, shorter[a] = shorter[b]
        PROVE  a = b
    <3> DEFINE p(n) == IF n < i THEN n ELSE n + 1
    <3>1. p(a) \in 1 .. Len(s.tabs) /\ p(b) \in 1 .. Len(s.tabs)
      BY <1>1
    <3>2. s.tabs[p(a)] = s.tabs[p(b)]
      BY <1>2, <2>1
    <3>3. p(a) = p(b)
      BY <1>1, <3>1, <3>2, TabbingFacts DEF IsInjective
    <3> QED
      BY <1>1, <3>3
  <2> QED
    BY <1>2, <2>1 DEF IsInjective
<1> HIDE DEF c, shorter, r
<1>7. /\ r.tabs = shorter /\ r.current = c /\ r.displayed = s.displayed
      /\ r.shown = s.shown /\ r \in Tabbing
  <2>1. c \in Nat /\ shorter \in Seq(Page)
    BY <1>2, <1>4
  <2> QED
    BY <1>1, <1>3, <2>1, TabbingFacts DEF Tabbing
<1>8. r.current \in IF r.tabs = <<>> THEN {0} ELSE DOMAIN r.tabs
  <2>1. CASE left = 0
    BY <1>1, <1>2, <1>4, <1>7, <2>1
  <2>2. CASE left # 0
    BY <1>1, <1>2, <1>4, <1>7, <2>2
  <2> QED
    BY <2>1, <2>2
<1>9. Consistent(r)
  BY <1>2, <1>5, <1>6, <1>7, <1>8 DEF Consistent
<1> QED
  BY <1>9 DEF r

(* A drag permutes the tabs and takes the current index along.             *)
LEMMA DragKeeps ==
  ASSUME TabsInv, NEW i \in DOMAIN tabs, NEW j \in DOMAIN tabs, DragTab(i, j)
  PROVE  TabsInv'
<1> DEFINE n == Len(tabs)
           without == RemoveAt(tabs, i)
           p(m) == LET l == IF m < j THEN m ELSE m - 1
                   IN  IF m = j THEN i ELSE IF l < i THEN l ELSE l + 1
<1>1. /\ tabs \in Seq(Page) /\ n \in Nat /\ DOMAIN tabs = 1 .. n /\ i # j
      /\ i \in 1 .. n /\ j \in 1 .. n /\ current \in 1 .. n /\ IsInjective(tabs)
      /\ Tabs \in Tabbing
  BY TabbingFacts DEF TabsInv, Consistent, Tabs, DragTab
<1>2. /\ without \in Seq(Page) /\ Len(without) = n - 1
      /\ \A m \in 1 .. n - 1 : without[m] = IF m < i THEN tabs[m] ELSE tabs[m + 1]
  BY <1>1, RemoveAtFacts
<1>3. /\ tabs' \in Seq(Page) /\ Len(tabs') = n
      /\ \A m \in 1 .. j - 1 : tabs'[m] = without[m]
      /\ tabs'[j] = tabs[i]
      /\ \A m \in j .. n - 1 : tabs'[m + 1] = without[m]
  <2> HIDE DEF without
  <2>1. j \in 1 .. Len(without) + 1 /\ tabs[i] \in Page /\ Len(without) + 1 = n
    BY <1>1, <1>2
  <2>2. tabs' = InsertAt(without, j, tabs[i])
    BY DEF DragTab, without
  <2> DEFINE e == tabs[i]
             with == InsertAt(without, j, e)
  <2>3. without \in Seq(Page) /\ j \in 1 .. Len(without) + 1 /\ e \in Page
    BY <1>2, <2>1
  <2> HIDE DEF e
  <2>4. with \in Seq(Page) /\ Len(with) = n
    BY <2>1, <2>3, InsertAtFacts
  <2>5. (\A m \in 1 .. j - 1 : with[m] = without[m]) /\ with[j] = e
    BY <2>3, InsertAtFacts
  <2>6. \A m \in j .. Len(without) : with[m + 1] = without[m]
    BY <2>3, InsertAtFacts
  <2>7. Len(without) = n - 1
    BY <1>2
  <2> QED
    BY <2>2, <2>4, <2>5, <2>6, <2>7 DEF e
<1>4. \A m \in 1 .. n : p(m) \in 1 .. n /\ tabs'[m] = tabs[p(m)]
  <2> SUFFICES ASSUME NEW m \in 1 .. n
               PROVE  p(m) \in 1 .. n /\ tabs'[m] = tabs[p(m)]
    OBVIOUS
  <2> HIDE DEF without
  <2>1. CASE m < j
    BY <1>1, <1>2, <1>3, <2>1
  <2>2. CASE m = j
    BY <1>1, <1>2, <1>3, <2>2
  <2>3. CASE m > j
    <3>1. m - 1 \in 1 .. n - 1 /\ m - 1 \in j .. n - 1 /\ (m - 1) + 1 = m
      BY <1>1, <2>3
    <3>2. tabs'[m] = without[m - 1]
      BY <1>3, <3>1
    <3>3. without[m - 1] = IF m - 1 < i THEN tabs[m - 1] ELSE tabs[(m - 1) + 1]
      BY <1>2, <3>1
    <3> QED
      BY <1>1, <3>1, <3>2, <3>3
  <2> QED
    BY <1>1, <2>1, <2>2, <2>3
<1>5. IsInjective(tabs')
  <2>1. ASSUME NEW a \in 1 .. n, NEW b \in 1 .. n, tabs'[a] = tabs'[b]
        PROVE  a = b
    <3>1. p(a) = p(b)
      <4> HIDE DEF p
      <4> QED
        BY <1>1, <1>4, <2>1 DEF IsInjective
    <3> QED
      BY <1>1, <3>1
  <2>2. DOMAIN tabs' = 1 .. n
    BY <1>3
  <2> QED
    BY <2>1, <2>2 DEF IsInjective
<1>6. current' \in 1 .. n /\ p(current') = current
  <2>1. CASE current = i
    BY <1>1, <2>1 DEF DragTab
  <2>2. CASE i < current /\ current <= j
    <3>1. current' = current - 1
      BY <1>1, <2>2 DEF DragTab
    <3> QED
      BY <1>1, <2>2, <3>1
  <2>3. CASE j <= current /\ current < i
    <3>1. current' = current + 1
      BY <1>1, <2>3 DEF DragTab
    <3> QED
      BY <1>1, <2>3, <3>1
  <2>4. CASE /\ current # i /\ ~(i < current /\ current <= j)
             /\ ~(j <= current /\ current < i)
    <3>1. current' = current
      BY <1>1, <2>4 DEF DragTab
    <3> QED
      BY <1>1, <2>4, <3>1
  <2> QED
    BY <2>1, <2>2, <2>3, <2>4
<1>7. tabs'[current'] = tabs[current]
  BY <1>4, <1>6
<1>8. displayed' = displayed /\ shown' = shown
  BY DEF DragTab
<1>9. tabs' # <<>> /\ DOMAIN tabs' = 1 .. n
  BY <1>1, <1>3
<1> QED
  BY <1>1, <1>3, <1>5, <1>6, <1>7, <1>8, <1>9
  DEF TabsInv, Consistent, Tabs, Tabbing

LEMMA TabsInitially == TabsInit => TabsInv
<1> SUFFICES ASSUME TabsInit PROVE TabsInv
  OBVIOUS
<1>1. Tabs = [tabs |-> <<Blank>>, current |-> 1, displayed |-> Blank, shown |-> Blank]
  BY DEF TabsInit, Tabs
<1>2. /\ <<Blank>> \in Seq(Page) /\ Len(<<Blank>>) = 1 /\ <<Blank>>[1] = Blank
      /\ DOMAIN <<Blank>> = {1} /\ <<Blank>> # <<>>
  BY PageAssumption
<1>3. Tabs \in Tabbing
  BY <1>1, <1>2, PageAssumption DEF Tabbing, Routes
<1>4. IsInjective(<<Blank>>)
  BY <1>2 DEF IsInjective
<1> QED
  BY <1>1, <1>2, <1>3, <1>4 DEF TabsInv, Consistent

LEMMA BecomeKeeps ==
  ASSUME NEW s, Consistent(s), TabsBecome(s)
  PROVE  TabsInv'
<1>1. Tabs' = s
  BY TabbingFacts DEF TabsBecome, Tabs, Consistent
<1> QED
  BY <1>1 DEF TabsInv

LEMMA UseTabKeeps ==
  ASSUME TabsInv, NEW i \in DOMAIN tabs, UseTab(i)
  PROVE  TabsInv'
<1>1. /\ Consistent(Tabs) /\ Tabs.tabs = tabs /\ i \in DOMAIN Tabs.tabs
      /\ tabs[i] \in Routes \cup Unrouted
  BY TabbingFacts DEF TabsInv, Consistent, Tabs, Routes
<1>2. CASE ClickTab(i)
  BY <1>1, <1>2, DisplayedKeeps, BecomeKeeps DEF ClickTab
<1>3. CASE CloseTab(i)
  <2> DEFINE h == HandedOver(Tabs, i)
  <2>1. /\ Consistent(h) /\ i \in DOMAIN h.tabs
        /\ h.current # i \/ h.shown = NullPage
    BY <1>1, HandedOverFacts
  <2>2. TabsBecome(Removed(h, i))
    BY <1>3 DEF CloseTab
  <2> HIDE DEF h
  <2> QED
    BY <2>1, <2>2, RemovedKeeps, BecomeKeeps
<1>4. ASSUME NEW j \in DOMAIN tabs, DragTab(i, j)
      PROVE  TabsInv'
  BY <1>4, DragKeeps
<1> QED
  BY <1>2, <1>3, <1>4 DEF UseTab

LEMMA OpenStep ==
  ASSUME TabsInv, NEW keys \in Seq(Page \cup Unrouted), Open(keys)
  PROVE  TabsInv'
<1>1. keys \in Seq(Routes \cup Unrouted)
  BY DEF Routes
<1>2. Consistent(FoldLeft(Displayed, Tabs, keys))
  BY <1>1, OpenKeeps DEF TabsInv
<1>3. TabsBecome(FoldLeft(Displayed, Tabs, keys))
  BY DEF Open
<1> QED
  BY <1>2, <1>3, BecomeKeeps

LEMMA TabsUnchanged ==
  ASSUME TabsInv, UNCHANGED tabVars
  PROVE  TabsInv'
BY DEF TabsInv, Tabs, tabVars

LEMMA TabsStep ==
  ASSUME TabsInv, [Next]_vars
  PROVE  TabsInv'
<1>1. CASE OpenPage
  <2>1. PICK keys \in Opens : Open(keys)
    BY <1>1 DEF OpenPage
  <2>2. keys \in Seq(Page \cup Unrouted)
    BY PageAssumption
  <2> QED
    BY <2>1, <2>2, OpenStep
<1>2. CASE OpenTable
  <2>1. <<Table>> \in Seq(Page \cup Unrouted)
    BY TableAssumption
  <2>2. Open(<<Table>>)
    BY <1>2 DEF OpenTable
  <2> QED
    BY <2>1, <2>2, OpenStep
<1>3. CASE UseTabs
  BY <1>3, UseTabKeeps DEF UseTabs
<1>4. CASE UseRow \/ ChooseTable \/ UsePanels \/ UNCHANGED vars
  <2>1. UNCHANGED tabVars
    BY <1>4 DEF UseRow, ChooseTable, UsePanels, vars
  <2> QED
    BY <2>1, TabsUnchanged
<1> QED
  BY <1>1, <1>2, <1>3, <1>4 DEF Next

LEMMA TabsInvariant == Spec => []TabsInv
<1>1. Init => TabsInv
  BY TabsInitially DEF Init
<1>2. TabsInv /\ [Next]_vars => TabsInv'
  BY TabsStep
<1> QED
  BY <1>1, <1>2, PTL DEF Spec

(* The tab that is drawn as the current one is the tab of the page on      *)
(* show, through every order of buttons, clicks, drags and closings.       *)
THEOREM CurrentTabIsRight == Spec => []CurrentTabIsShown
<1>1. TabsInv => CurrentTabIsShown
  BY DEF TabsInv, Consistent, Tabs, CurrentTabIsShown
<1> QED
  BY <1>1, TabsInvariant, PTL

(* No page ever has two tabs.                                              *)
THEOREM PagesHaveOneTab == Spec => []OneTabPerPage
<1>1. TabsInv => OneTabPerPage
  BY DEF TabsInv, Consistent, Tabs, OneTabPerPage
<1> QED
  BY <1>1, TabsInvariant, PTL

-----------------------------------------------------------------------------
(* The panels *)

Aligned(layout, g) == layout.groups[g] = AnyPanel(layout, g)

LEMMA UpdatedFacts ==
  ASSUME NEW layout \in Layout
  PROVE  /\ Updated(layout) \in Layout
         /\ Updated(layout).panels = layout.panels
         /\ \A g \in Group : Aligned(Updated(layout), g)
BY DEF Layout, Updated, Aligned, AnyPanel

LEMMA SetPanelFacts ==
  ASSUME NEW layout \in Layout, NEW g \in Group, NEW h \in Half, NEW value \in BOOLEAN
  PROVE  LET set == SetPanel(layout, g, h, value) IN
         /\ set \in Layout
         /\ set.panels[g][h] = value
         /\ \A l \in Half \ {h} : set.panels[g][l] = layout.panels[g][l]
         /\ layout.panels[g][h] = value => set = layout
         /\ layout.panels[g][h] # value /\ ViewRibbon => \A k \in Group : Aligned(set, k)
         /\ ~ViewRibbon => set.groups = layout.groups
         /\ \A k \in Group \ {g} : Aligned(layout, k) => Aligned(set, k)
<1> DEFINE plain == [layout EXCEPT !.panels[g][h] = value]
           set == SetPanel(layout, g, h, value)
<1>1. /\ layout = [groups |-> layout.groups, panels |-> layout.panels]
      /\ layout.groups \in [Group -> BOOLEAN]
      /\ layout.panels \in [Group -> [Half -> BOOLEAN]]
  BY DEF Layout
<1>2. /\ plain \in Layout /\ plain.groups = layout.groups
      /\ plain.panels = [layout.panels EXCEPT ![g][h] = value]
  BY <1>1 DEF Layout
<1>3. /\ plain.panels[g][h] = value
      /\ \A l \in Half \ {h} : plain.panels[g][l] = layout.panels[g][l]
      /\ \A k \in Group \ {g} : plain.panels[k] = layout.panels[k]
  BY <1>1, <1>2
<1>4. \A k \in Group \ {g} : Aligned(layout, k) => Aligned(plain, k)
  BY <1>2, <1>3 DEF Aligned, AnyPanel
<1>5. layout.panels[g][h] = value => plain = layout
  BY <1>1
<1>6. set = IF ViewRibbon /\ layout.panels[g][h] # value THEN Updated(plain) ELSE plain
  BY DEF SetPanel
<1> HIDE DEF plain, set
<1> SUFFICES /\ set \in Layout /\ set.panels = plain.panels
             /\ layout.panels[g][h] = value => set = layout
             /\ layout.panels[g][h] # value /\ ViewRibbon => \A k \in Group : Aligned(set, k)
             /\ ~ViewRibbon => set.groups = layout.groups
             /\ \A k \in Group \ {g} : Aligned(layout, k) => Aligned(set, k)
  BY <1>3 DEF set
<1>7. CASE ViewRibbon /\ layout.panels[g][h] # value
  <2>1. set = Updated(plain)
    BY <1>6, <1>7
  <2>2. set \in Layout /\ set.panels = plain.panels /\ \A k \in Group : Aligned(set, k)
    BY <1>2, <2>1, UpdatedFacts
  <2> QED
    BY <1>7, <2>2
<1>8. CASE ~(ViewRibbon /\ layout.panels[g][h] # value)
  <2>1. set = plain
    BY <1>6, <1>8
  <2> QED
    BY <1>2, <1>4, <1>5, <1>8, <2>1
<1> QED
  BY <1>7, <1>8

LEMMA BecomeFacts ==
  ASSUME NEW layout \in Layout, Become(layout)
  PROVE  /\ Seen' \in Layout
         /\ \A g \in Group : Aligned(layout, g) => Follows(g)'
<1>1. Seen' = layout
  BY DEF Become, Seen, Layout
<1>2. /\ \A g \in Group : AnyPanel(Seen, g)' = AnyPanel(layout, g)
      /\ \A g \in Group : groups'[g] = layout.groups[g]
  BY <1>1 DEF AnyPanel, Become, Seen
<1> QED
  BY <1>1, <1>2 DEF Aligned, Follows

(* The flags that a step leaves alone. *)
LEMMA SameLayout ==
  ASSUME PanelsTypeOK, Become(Seen)
  PROVE  Seen' \in Layout /\ \A g \in Group : Follows(g) => Follows(g)'
<1>1. \A g \in Group : Follows(g) = Aligned(Seen, g)
  BY DEF Follows, Aligned, Seen
<1> QED
  BY <1>1, BecomeFacts DEF PanelsTypeOK

LEMMA UpdatedLayout ==
  ASSUME NEW layout \in Layout, Become(Updated(layout))
  PROVE  Seen' \in Layout /\ \A g \in Group : Follows(g)'
BY UpdatedFacts, BecomeFacts

(* Why a group and its panels may part in a step. *)
Excused(g) ==
  \/ g \in Side /\ ToggleSide(g)
  \/ g \in Side /\ UnfoldSide(g) /\ \A h \in Half : ~saved[g][h]
  \/ g = "mid" /\ ~ViewRibbon /\ (ToggleBottomBar \/ FoldMiddle)

Kept == /\ PanelsTypeOK'
        /\ \A g \in Group : (Follows(g) => Follows(g)') \/ Excused(g)

LEMMA SeenFacts ==
  ASSUME PanelsTypeOK
  PROVE  /\ Seen \in Layout /\ Seen.panels = panels /\ Seen.groups = groups
         /\ groups \in [Group -> BOOLEAN] /\ panels \in [Group -> [Half -> BOOLEAN]]
         /\ \A g \in Group : Follows(g) = Aligned(Seen, g)
         /\ "mid" \in Group /\ Side \subseteq Group /\ "mid" \notin Side
         /\ "top" \in Half /\ "bottom" \in Half /\ Half = {"top", "bottom"}
BY SideAssumption DEF PanelsTypeOK, Seen, Layout, Follows, Aligned, Group, Half

(* Panels that are switched by a menu, a ribbon or the click on a row.     *)
LEMMA SwitchStep ==
  ASSUME PanelsTypeOK, NEW g \in Group, NEW h \in Half, NEW value \in BOOLEAN,
         Become(Updated(SetPanel(Seen, g, h, value))), UNCHANGED <<saved, headerVars>>
  PROVE  Kept
<1>1. SetPanel(Seen, g, h, value) \in Layout
  BY SeenFacts, SetPanelFacts
<1>2. Seen' \in Layout /\ \A k \in Group : Follows(k)'
  BY <1>1, UpdatedLayout
<1> QED
  BY <1>2 DEF Kept, PanelsTypeOK, headerVars

LEMMA ToggleSideStep ==
  ASSUME PanelsTypeOK, NEW g \in Side, ToggleSide(g)
  PROVE  Kept
<1>1. /\ groups' \in [Group -> BOOLEAN] /\ panels' = panels
      /\ \A k \in Group \ {g} : groups'[k] = groups[k]
  BY SeenFacts DEF ToggleSide
<1>2. Seen' \in Layout
  BY <1>1, SeenFacts DEF Seen, Layout
<1>3. \A k \in Group \ {g} : Follows(k) => Follows(k)'
  BY <1>1 DEF Follows, AnyPanel, Seen
<1>4. Excused(g)
  BY DEF Excused
<1> QED
  BY <1>2, <1>3, <1>4 DEF Kept, PanelsTypeOK, ToggleSide, headerVars

LEMMA Negated == \A v \in BOOLEAN : (~v) \in BOOLEAN /\ v # (~v)
OBVIOUS

LEMMA BottomBarStep ==
  ASSUME PanelsTypeOK, ToggleBottomBar
  PROVE  Kept
<1> DEFINE layout == SetPanel(Seen, "mid", "bottom", ~panels["mid"]["bottom"])
<1>0. panels["mid"]["bottom"] \in BOOLEAN
  BY SeenFacts
<1>1. (~panels["mid"]["bottom"]) \in BOOLEAN
  BY <1>0, Negated, Zenon
<1>2. panels["mid"]["bottom"] # ~panels["mid"]["bottom"]
  BY <1>0, Negated, Zenon
<1>3. layout \in Layout
  BY <1>1, SeenFacts, SetPanelFacts
<1>4. ViewRibbon => \A k \in Group : Aligned(layout, k)
  BY <1>1, <1>2, SeenFacts, SetPanelFacts
<1>5. \A k \in Group \ {"mid"} : Aligned(Seen, k) => Aligned(layout, k)
  BY <1>1, SeenFacts, SetPanelFacts
<1>6. Become(layout)
  BY DEF ToggleBottomBar
<1> HIDE DEF layout
<1>7. Seen' \in Layout /\ \A k \in Group : Aligned(layout, k) => Follows(k)'
  BY <1>3, <1>6, BecomeFacts
<1>8. ~ViewRibbon => Excused("mid")
  BY DEF Excused
<1> QED
  BY <1>4, <1>5, <1>7, <1>8, SeenFacts DEF Kept, PanelsTypeOK, ToggleBottomBar, headerVars

LEMMA FoldMiddleStep ==
  ASSUME PanelsTypeOK, FoldMiddle
  PROVE  Kept
<1> DEFINE switched == SetPanel(Seen, "mid", "bottom", ~panels["mid"]["bottom"])
           both == SetPanel(switched, "mid", "top", TRUE)
           layout == IF switched.groups["mid"] THEN both ELSE switched
<1>0. panels["mid"]["bottom"] \in BOOLEAN
  BY SeenFacts
<1>1. (~panels["mid"]["bottom"]) \in BOOLEAN /\ TRUE \in BOOLEAN
  BY <1>0, Negated, Zenon
<1>2. panels["mid"]["bottom"] # ~panels["mid"]["bottom"]
  BY <1>0, Negated, Zenon
<1>3. /\ switched \in Layout
      /\ ViewRibbon => \A k \in Group : Aligned(switched, k)
      /\ \A k \in Group \ {"mid"} : Aligned(Seen, k) => Aligned(switched, k)
  BY <1>1, <1>2, SeenFacts, SetPanelFacts
<1> HIDE DEF switched
<1>5. /\ both \in Layout
      /\ ViewRibbon => \A k \in Group : Aligned(both, k)
      /\ \A k \in Group \ {"mid"} : Aligned(switched, k) => Aligned(both, k)
  <2>1. /\ both \in Layout
        /\ switched.panels["mid"]["top"] = TRUE => both = switched
        /\ \A k \in Group \ {"mid"} : Aligned(switched, k) => Aligned(both, k)
    BY <1>1, <1>3, SeenFacts, SetPanelFacts
  <2>2. /\ switched.panels["mid"]["top"] # TRUE /\ ViewRibbon
             => \A k \in Group : Aligned(both, k)
    BY <1>1, <1>3, SeenFacts, SetPanelFacts
  <2> HIDE DEF both
  <2> QED
    BY <1>3, <2>1, <2>2
<1>6. Become(layout)
  BY DEF FoldMiddle, switched
<1> HIDE DEF both
<1>7. layout \in Layout /\ (ViewRibbon => \A k \in Group : Aligned(layout, k))
  BY <1>3, <1>5
<1>8. \A k \in Group \ {"mid"} : Aligned(Seen, k) => Aligned(layout, k)
  BY <1>3, <1>5
<1> HIDE DEF layout
<1>9. Seen' \in Layout /\ \A k \in Group : Aligned(layout, k) => Follows(k)'
  BY <1>6, <1>7, BecomeFacts
<1>10. ~ViewRibbon => Excused("mid")
  BY DEF Excused
<1> QED
  BY <1>7, <1>8, <1>9, <1>10, SeenFacts DEF Kept, PanelsTypeOK, FoldMiddle, headerVars

(* Both panels of a group are set, after the group itself was.             *)
LEMMA SetPanelsFacts ==
  ASSUME NEW layout \in Layout, NEW g \in Group, NEW half \in [Half -> BOOLEAN]
  PROVE  LET set == SetPanels(layout, g, half) IN
         /\ set \in Layout
         /\ \A h \in Half : set.panels[g][h] = half[h]
         /\ \A k \in Group \ {g} : Aligned(layout, k) => Aligned(set, k)
         /\ (\E h \in Half : layout.panels[g][h] # half[h]) /\ ViewRibbon => Aligned(set, g)
         /\ ~ViewRibbon => set.groups = layout.groups
         /\ (\A h \in Half : layout.panels[g][h] = half[h]) => set = layout
<1> DEFINE one == SetPanel(layout, g, "top", half["top"])
           set == SetPanels(layout, g, half)
<1>1. half["top"] \in BOOLEAN /\ half["bottom"] \in BOOLEAN /\ Half = {"top", "bottom"}
  BY DEF Half
<1>2. /\ one \in Layout
      /\ one.panels[g]["top"] = half["top"]
      /\ one.panels[g]["bottom"] = layout.panels[g]["bottom"]
      /\ layout.panels[g]["top"] = half["top"] => one = layout
      /\ layout.panels[g]["top"] # half["top"] /\ ViewRibbon => \A k \in Group : Aligned(one, k)
      /\ ~ViewRibbon => one.groups = layout.groups
      /\ \A k \in Group \ {g} : Aligned(layout, k) => Aligned(one, k)
  BY <1>1, SetPanelFacts
<1>3. set = SetPanel(one, g, "bottom", half["bottom"])
  BY DEF SetPanels
<1> HIDE DEF one, set
<1>4. /\ set \in Layout
      /\ set.panels[g]["bottom"] = half["bottom"]
      /\ set.panels[g]["top"] = one.panels[g]["top"]
      /\ one.panels[g]["bottom"] = half["bottom"] => set = one
      /\ one.panels[g]["bottom"] # half["bottom"] /\ ViewRibbon => \A k \in Group : Aligned(set, k)
      /\ ~ViewRibbon => set.groups = one.groups
      /\ \A k \in Group \ {g} : Aligned(one, k) => Aligned(set, k)
  <2>1. one \in Layout /\ "bottom" \in Half /\ "top" \in Half \ {"bottom"}
    BY <1>1, <1>2
  <2>2. /\ set \in Layout
        /\ set.panels[g]["bottom"] = half["bottom"]
        /\ \A l \in Half \ {"bottom"} : set.panels[g][l] = one.panels[g][l]
        /\ one.panels[g]["bottom"] = half["bottom"] => set = one
    BY <1>1, <2>1, <1>3, SetPanelFacts
  <2>3. /\ one.panels[g]["bottom"] # half["bottom"] /\ ViewRibbon => \A k \in Group : Aligned(set, k)
        /\ ~ViewRibbon => set.groups = one.groups
        /\ \A k \in Group \ {g} : Aligned(one, k) => Aligned(set, k)
    BY <1>1, <2>1, <1>3, SetPanelFacts
  <2> QED
    BY <2>1, <2>2, <2>3
<1> QED
  BY <1>1, <1>2, <1>4 DEF set

LEMMA FoldSideStep ==
  ASSUME PanelsTypeOK, NEW g \in Side, FoldSide(g)
  PROVE  Kept
<1> DEFINE off == [h \in Half |-> FALSE]
           gone == [Seen EXCEPT !.groups[g] = FALSE]
           layout == SetPanels(gone, g, off)
<1>1. /\ g \in Group /\ off \in [Half -> BOOLEAN] /\ gone \in Layout
      /\ ~gone.groups[g] /\ gone.panels = panels
      /\ \A k \in Group \ {g} : Aligned(Seen, k) => Aligned(gone, k)
  BY SeenFacts DEF Layout, Aligned, AnyPanel
<1>2. Become(layout) /\ saved' = [saved EXCEPT ![g] = panels[g]] /\ UNCHANGED headerVars
  BY DEF FoldSide
<1> HIDE DEF gone
<1>3. /\ layout \in Layout
      /\ \A h \in Half : ~layout.panels[g][h]
      /\ \A k \in Group \ {g} : Aligned(gone, k) => Aligned(layout, k)
      /\ (\E h \in Half : gone.panels[g][h] # FALSE) /\ ViewRibbon => Aligned(layout, g)
      /\ ~ViewRibbon => layout.groups = gone.groups
      /\ (\A h \in Half : gone.panels[g][h] = FALSE) => layout = gone
  <2>1. \A h \in Half : off[h] = FALSE
    OBVIOUS
  <2> HIDE DEF off
  <2>2. /\ layout \in Layout
        /\ \A h \in Half : layout.panels[g][h] = off[h]
        /\ \A k \in Group \ {g} : Aligned(gone, k) => Aligned(layout, k)
    BY <1>1, SetPanelsFacts
  <2>3. /\ (\E h \in Half : gone.panels[g][h] # off[h]) /\ ViewRibbon => Aligned(layout, g)
        /\ ~ViewRibbon => layout.groups = gone.groups
        /\ (\A h \in Half : gone.panels[g][h] = off[h]) => layout = gone
    BY <1>1, SetPanelsFacts
  <2> HIDE DEF layout
  <2> QED
    BY <2>1, <2>2, <2>3
<1> HIDE DEF layout
<1>4. Aligned(layout, g)
  BY <1>1, <1>3, SeenFacts DEF Aligned, AnyPanel, Layout
<1>5. Seen' \in Layout /\ \A k \in Group : Aligned(layout, k) => Follows(k)'
  BY <1>2, <1>3, BecomeFacts
<1>6. saved' \in [Side -> [Half -> BOOLEAN]]
  BY <1>1, <1>2, SeenFacts DEF PanelsTypeOK
<1> QED
  BY <1>1, <1>2, <1>3, <1>4, <1>5, <1>6, SeenFacts DEF Kept, PanelsTypeOK, headerVars

LEMMA UnfoldSideStep ==
  ASSUME PanelsTypeOK, NEW g \in Side, UnfoldSide(g)
  PROVE  Kept
<1> DEFINE there == [Seen EXCEPT !.groups[g] = TRUE]
           set == SetPanels(there, g, saved[g])
           layout == IF AnyPanel(there, g) THEN there ELSE set
<1>1. /\ g \in Group /\ saved[g] \in [Half -> BOOLEAN] /\ there \in Layout
      /\ there.groups[g] /\ there.panels = panels
      /\ \A k \in Group \ {g} : Aligned(Seen, k) => Aligned(there, k)
  BY SeenFacts DEF Layout, Aligned, AnyPanel, PanelsTypeOK
<1>2. Become(layout) /\ UNCHANGED <<saved, headerVars>>
  BY DEF UnfoldSide
<1> HIDE DEF there
<1>3. /\ set \in Layout
      /\ \A h \in Half : set.panels[g][h] = saved[g][h]
      /\ \A k \in Group \ {g} : Aligned(there, k) => Aligned(set, k)
      /\ (\E h \in Half : there.panels[g][h] # saved[g][h]) /\ ViewRibbon => Aligned(set, g)
      /\ ~ViewRibbon => set.groups = there.groups
      /\ (\A h \in Half : there.panels[g][h] = saved[g][h]) => set = there
  BY <1>1, SetPanelsFacts
<1> HIDE DEF set
<1>4. Aligned(layout, g) \/ \A h \in Half : ~saved[g][h]
  <2>1. CASE AnyPanel(there, g)
    BY <1>1, <2>1, SeenFacts DEF Aligned, AnyPanel, Layout
  <2>2. CASE ~AnyPanel(there, g) /\ \E h \in Half : saved[g][h]
    <3>1. PICK h \in Half : saved[g][h]
      BY <2>2
    <3>2. there.panels[g][h] # saved[g][h]
      BY <1>1, <2>2, <3>1, SeenFacts DEF AnyPanel
    <3>3. AnyPanel(set, g) = TRUE
      BY <1>3, <3>1 DEF AnyPanel
    <3>4. CASE ViewRibbon
      BY <1>3, <2>2, <3>2, <3>4
    <3>5. CASE ~ViewRibbon
      BY <1>1, <1>3, <2>2, <3>3, <3>5, SeenFacts DEF Aligned, Layout
    <3> QED
      BY <3>4, <3>5
  <2> QED
    BY <2>1, <2>2
<1>5. layout \in Layout /\ \A k \in Group \ {g} : Aligned(Seen, k) => Aligned(layout, k)
  BY <1>1, <1>3
<1> HIDE DEF layout
<1>6. Seen' \in Layout /\ \A k \in Group : Aligned(layout, k) => Follows(k)'
  BY <1>2, <1>5, BecomeFacts
<1>7. (\A h \in Half : ~saved[g][h]) => Excused(g)
  BY DEF Excused
<1> QED
  BY <1>1, <1>2, <1>4, <1>5, <1>6, <1>7, SeenFacts DEF Kept, PanelsTypeOK, headerVars

(* The ribbons, which may load the view ribbon, and the header.            *)
LEMMA LoadRibbonStep ==
  ASSUME PanelsTypeOK, LoadRibbon \/ Become(Seen)
  PROVE  Seen' \in Layout /\ \A g \in Group : Follows(g) => Follows(g)'
<1>1. CASE Become(Updated(Seen))
  BY <1>1, SeenFacts, UpdatedLayout
<1>2. CASE Become(Seen)
  BY <1>2, SameLayout
<1> QED
  BY <1>1, <1>2 DEF LoadRibbon

LEMMA HeaderStep ==
  ASSUME PanelsTypeOK,
         (\E r \in {"view", "other"} : SelectRibbon(r)) \/ VisitFileScreen \/ ToggleHeaderExtra
  PROVE  Kept
<1>1. LoadRibbon \/ Become(Seen)
  BY DEF SelectRibbon, VisitFileScreen, ToggleHeaderExtra, LoadRibbonIfNew
<1>2. /\ header' \in BOOLEAN /\ ribbon' \in {"view", "other"} /\ UNCHANGED saved
      /\ headerExtra' = headerExtra \/ headerExtra' = ~headerExtra
  BY DEF SelectRibbon, VisitFileScreen, ToggleHeaderExtra, headerVars, PanelsTypeOK
<1>3. headerExtra' \in BOOLEAN
  BY <1>2, Negated DEF PanelsTypeOK
<1> QED
  BY <1>1, <1>2, <1>3, LoadRibbonStep DEF Kept, PanelsTypeOK

LEMMA ToggleHeaderStep ==
  ASSUME PanelsTypeOK, ToggleHeader
  PROVE  Kept
<1>1. header' \in BOOLEAN /\ headerExtra' \in BOOLEAN
  BY Negated DEF PanelsTypeOK, ToggleHeader
<1>2. UNCHANGED <<groups, panels, saved, ribbon>>
  BY DEF ToggleHeader, layoutVars
<1> QED
  BY <1>1, <1>2 DEF Kept, PanelsTypeOK, Follows, AnyPanel, Seen

LEMMA PanelsUnchanged ==
  ASSUME PanelsTypeOK, UNCHANGED panelVars
  PROVE  Kept
BY DEF Kept, PanelsTypeOK, panelVars, layoutVars, headerVars, Follows, AnyPanel, Seen

LEMMA PanelsStep ==
  ASSUME PanelsTypeOK, PanelsNext
  PROVE  Kept
<1>1. ASSUME NEW g \in Group, NEW h \in Half, TogglePanel(g, h)
      PROVE  Kept
  <2> DEFINE value == ~panels[g][h]
  <2>1. value \in BOOLEAN
    <3>1. panels[g][h] \in BOOLEAN
      BY SeenFacts
    <3> QED
      BY <3>1, Negated, Zenon
  <2>2. /\ Become(Updated(SetPanel(Seen, g, h, value)))
        /\ UNCHANGED <<saved, headerVars>>
    BY <1>1 DEF TogglePanel
  <2> HIDE DEF value
  <2> QED
    BY <2>1, <2>2, SwitchStep
<1>2. ASSUME NEW g \in Side, ToggleSide(g) \/ FoldSide(g) \/ UnfoldSide(g)
      PROVE  Kept
  BY <1>2, ToggleSideStep, FoldSideStep, UnfoldSideStep
<1> QED
  BY <1>1, <1>2, BottomBarStep, FoldMiddleStep, HeaderStep, ToggleHeaderStep DEF PanelsNext

LEMMA ScreenPanelsStep ==
  ASSUME PanelsTypeOK, [Next]_vars
  PROVE  Kept
<1>1. CASE UseRow
  <2>1. PropertySide \in Group /\ "top" \in Half /\ TRUE \in BOOLEAN
    BY SideAssumption DEF Group, Half
  <2>2. /\ Become(Updated(SetPanel(Seen, PropertySide, "top", TRUE)))
        /\ UNCHANGED <<saved, headerVars>>
    BY <1>1 DEF UseRow, ClickRow
  <2> QED
    BY <2>1, <2>2, SwitchStep
<1>2. CASE UsePanels
  BY <1>2, PanelsStep DEF UsePanels
<1>3. CASE OpenPage \/ OpenTable \/ UseTabs \/ ChooseTable \/ UNCHANGED vars
  <2>1. UNCHANGED panelVars
    BY <1>3 DEF OpenPage, OpenTable, UseTabs, ChooseTable, vars
  <2> QED
    BY <2>1, PanelsUnchanged
<1> QED
  BY <1>1, <1>2, <1>3 DEF Next

LEMMA PanelsInitially == PanelsInit => PanelsTypeOK
<1> SUFFICES ASSUME PanelsInit PROVE PanelsTypeOK
  OBVIOUS
<1>1. groups \in [Group -> BOOLEAN] /\ panels \in [Group -> [Half -> BOOLEAN]]
  BY DEF PanelsInit
<1> QED
  BY <1>1 DEF PanelsInit, PanelsTypeOK, Seen, Layout

LEMMA PanelsInvariant == Spec => []PanelsTypeOK
<1>1. Init => PanelsTypeOK
  BY PanelsInitially DEF Init
<1>2. PanelsTypeOK /\ [Next]_vars => PanelsTypeOK'
  BY ScreenPanelsStep DEF Kept
<1> QED
  BY <1>1, <1>2, PTL DEF Spec

(* No order of menus, ribbons, folds and clicks parts a group of panels    *)
(* from its panels, but the shortcuts of the footer.                       *)
THEOREM OnlyShortcuts == Spec => OnlyShortcutsPart
<1> DEFINE Part == \A g \in Group :
       \/ Follows(g) => Follows(g)'
       \/ g \in Side /\ ToggleSide(g)
       \/ g \in Side /\ UnfoldSide(g) /\ \A h \in Half : ~saved[g][h]
       \/ g = "mid" /\ ~ViewRibbon /\ (ToggleBottomBar \/ FoldMiddle)
<1>1. PanelsTypeOK /\ [Next]_vars => [Part]_panelVars
  BY ScreenPanelsStep DEF Kept, Excused
<1> QED
  BY <1>1, PanelsInvariant, PTL DEF Spec, OnlyShortcutsPart

-----------------------------------------------------------------------------
(* The lists of the resource view, and the whole screen *)

LEMMA ListsStep ==
  ASSUME ListsTypeOK, [Next]_vars
  PROVE  /\ ListsTypeOK'
         /\ NamedIsShown => NamedIsShown' \/ \E t \in List : TapList(t)
<1>1. FirstList \in List /\ NoList \notin List
  BY ListAssumption
<1>2. CASE ShowLists \/ UNCHANGED listVars
  BY <1>1, <1>2 DEF ShowLists, listVars, ListsTypeOK, NamedIsShown
<1>3. ASSUME NEW t \in List, NameList(t)
      PROVE  ListsTypeOK' /\ (NamedIsShown => NamedIsShown')
  BY <1>1, <1>3 DEF NameList, ListsTypeOK, NamedIsShown
<1>4. ASSUME NEW t \in List, TapList(t)
      PROVE  ListsTypeOK'
  BY <1>4 DEF TapList, ListsTypeOK
<1>5. CASE OpenPage \/ UseTabs
  BY <1>2, <1>5 DEF OpenPage, UseTabs, FollowTables
<1>6. CASE OpenTable
  BY <1>3, <1>6 DEF OpenTable
<1>7. CASE ChooseTable
  BY <1>4, <1>7 DEF ChooseTable
<1>8. CASE UseRow \/ UsePanels \/ UNCHANGED vars
  BY <1>2, <1>8 DEF UseRow, UsePanels, vars
<1> QED
  BY <1>5, <1>6, <1>7, <1>8 DEF Next

LEMMA ListsInvariant == Spec => []ListsTypeOK
<1>1. Init => ListsTypeOK
  BY ListAssumption DEF Init, ListsInit, ListsTypeOK
<1>2. ListsTypeOK /\ [Next]_vars => ListsTypeOK'
  BY ListsStep
<1> QED
  BY <1>1, <1>2, PTL DEF Spec

(* Until an item at the side of the page is tapped, the list on show is    *)
(* the one the ribbon named last.                                          *)
THEOREM OnlyTaps == Spec => OnlyTapsPart
<1> DEFINE Part == NamedIsShown => NamedIsShown' \/ \E t \in List : TapList(t)
<1>1. ListsTypeOK /\ [Next]_vars => [Part]_listVars
  BY ListsStep
<1> QED
  BY <1>1, ListsInvariant, PTL DEF Spec, OnlyTapsPart

(* The tabs, the flags of the panels and the lists keep their types.       *)
THEOREM TypeCorrect == Spec => []TypeOK
<1>1. TabsInv => TabsTypeOK
  BY DEF TabsInv, Consistent, Tabs, Tabbing, TabsTypeOK
<1>2. TabsInv /\ PanelsTypeOK /\ ListsTypeOK => TypeOK
  BY <1>1 DEF TypeOK
<1> QED
  BY <1>2, TabsInvariant, PanelsInvariant, ListsInvariant, PTL

=============================================================================
