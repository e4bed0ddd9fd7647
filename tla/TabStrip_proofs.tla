--------------------------- MODULE TabStrip_proofs ---------------------------
(***************************************************************************)
(* For any number of windows, tabs, VMs, hosts and dialogs: a running       *)
(* session is in one place of one open window, no window is left without a *)
(* selected tab, and the popup it shows is that tab's; the saved list is    *)
(* the primary window's strip, a launch brings it back whole, and a popup   *)
(* hidden for a dialog comes back only where no dialog is left.             *)
(***************************************************************************)
EXTENDS TabStrip, SequenceTheorems, FiniteSetTheorems, WellFoundedInduction, TLAPS

----------------------------------------------------------------------------
(* Strips.                                                                  *)

\* A strip without one of its tabs.
LEMMA RemoveAtIs ==
  ASSUME NEW S, NEW s \in Seq(S), IsInjective(s), NEW i \in DOMAIN s
  PROVE  /\ RemoveAt(s, i) \in Seq(S) /\ IsInjective(RemoveAt(s, i))
         /\ ToSet(RemoveAt(s, i)) = ToSet(s) \ {s[i]}
         /\ Len(RemoveAt(s, i)) = Len(s) - 1
<1> DEFINE a == SubSeq(s, 1, i-1)
           b == SubSeq(s, i+1, Len(s))
           r == RemoveAt(s, i)
<1>1. DOMAIN s = 1 .. Len(s) /\ Len(s) \in Nat /\ \A k \in 1 .. Len(s) : s[k] \in S
  BY LenProperties, ElementOfSeq
<1>2. /\ a \in Seq(S) /\ Len(a) = i - 1 /\ \A k \in 1 .. i - 1 : a[k] = s[k]
      /\ b \in Seq(S) /\ Len(b) = Len(s) - i /\ \A k \in 1 .. Len(s) - i : b[k] = s[k + i]
  <2>1. i \in Int /\ i - 1 \in Int /\ i + 1 \in Int /\ Len(s) \in Int
    BY <1>1
  <2>2. a \in Seq(S) /\ Len(a) = i - 1 /\ \A k \in 1 .. i - 1 : a[k] = s[k]
    BY <1>1, <2>1, SubSeqProperties
  <2>3. b \in Seq(S) /\ Len(b) = Len(s) - i /\ \A k \in 1 .. Len(s) - i : b[k] = s[k + i]
    BY <1>1, <2>1, SubSeqProperties
  <2> QED
    BY <2>2, <2>3
<1>3. /\ r \in Seq(S) /\ Len(r) = Len(s) - 1
      /\ \A k \in 1 .. Len(s) - 1 : r[k] = IF k < i THEN s[k] ELSE s[k+1]
  <2> HIDE DEF a, b
  <2>1. /\ a \o b \in Seq(S) /\ Len(a \o b) = Len(a) + Len(b)
        /\ \A k \in 1 .. Len(a) + Len(b) : (a \o b)[k] = IF k <= Len(a) THEN a[k] ELSE b[k - Len(a)]
    <3>1. a \in Seq(S) /\ b \in Seq(S)
      BY <1>2
    <3> QED
      BY <3>1, ConcatProperties
  <2>2. r = a \o b
    BY DEF RemoveAt, a, b
  <2> HIDE DEF r
  <2>3. r \in Seq(S) /\ Len(r) = Len(s) - 1
    <3>1. Len(a) + Len(b) = Len(s) - 1
      BY <1>1, <1>2
    <3> QED
      BY <2>1, <2>2, <3>1
  <2>4. ASSUME NEW k \in 1 .. Len(s) - 1
        PROVE  r[k] = IF k < i THEN s[k] ELSE s[k+1]
    <3>1. CASE k < i
      BY <1>1, <1>2, <2>1, <2>2, <3>1
    <3>2. CASE k >= i
      <4>1. r[k] = b[k - (i - 1)] /\ k - (i - 1) \in 1 .. Len(s) - i
        BY SMTT(60), <1>1, <1>2, <2>1, <2>2, <3>2
      <4>2. b[k - (i - 1)] = s[(k - (i - 1)) + i]
        BY <1>2, <4>1
      <4>3. (k - (i - 1)) + i = k + 1
        BY <1>1
      <4> QED
        BY <3>2, <4>1, <4>2, <4>3
    <3> QED
      BY <1>1, <3>1, <3>2
  <2> QED
    BY <2>3, <2>4
<1> HIDE DEF r
<1>4. DOMAIN r = 1 .. Len(s) - 1
  BY <1>3, LenProperties
<1>5. IsInjective(r)
  BY SMTT(60), <1>1, <1>3, <1>4 DEF IsInjective
<1>6. ToSet(r) = ToSet(s) \ {s[i]}
  <2>1. ASSUME NEW k \in DOMAIN s, k # i PROVE \E m \in DOMAIN r : r[m] = s[k]
    <3>1. CASE k < i
      BY <1>1, <1>3, <1>4, <3>1, <2>1
    <3>2. CASE k > i
      <4>1. k - 1 \in DOMAIN r /\ r[k-1] = s[k]
        BY <1>1, <1>3, <1>4, <3>2, <2>1
      <4> QED
        BY <4>1
    <3> QED
      BY <1>1, <2>1, <3>1, <3>2
  <2>2. \A m \in DOMAIN r : \E k \in DOMAIN s : k # i /\ r[m] = s[k]
    <3> SUFFICES ASSUME NEW m \in DOMAIN r PROVE \E k \in DOMAIN s : k # i /\ r[m] = s[k]
      OBVIOUS
    <3>1. CASE m < i
      BY <1>1, <1>3, <1>4, <3>1
    <3>2. CASE m >= i
      <4>1. m + 1 \in DOMAIN s /\ m + 1 # i /\ r[m] = s[m+1]
        BY <1>1, <1>3, <1>4, <3>2
      <4> QED
        BY <4>1
    <3> QED
      BY <1>1, <1>4, <3>1, <3>2
  <2> QED
    BY <2>1, <2>2 DEF ToSet, IsInjective
<1> QED
  BY <1>3, <1>5, <1>6 DEF r

\* A strip with a tab more.
LEMMA InsertAtIs ==
  ASSUME NEW S, NEW s \in Seq(S), IsInjective(s), NEW t \in S \ ToSet(s), NEW i \in 1 .. Len(s) + 1
  PROVE  /\ InsertAt(s, i, t) \in Seq(S) /\ IsInjective(InsertAt(s, i, t))
         /\ ToSet(InsertAt(s, i, t)) = ToSet(s) \cup {t}
<1> DEFINE a == SubSeq(s, 1, i-1)
           b == SubSeq(s, i, Len(s))
           r == InsertAt(s, i, t)
<1>1. DOMAIN s = 1 .. Len(s) /\ Len(s) \in Nat /\ \A k \in 1 .. Len(s) : s[k] \in S
  BY LenProperties, ElementOfSeq
<1>2. /\ a \in Seq(S) /\ Len(a) = i - 1 /\ \A k \in 1 .. i - 1 : a[k] = s[k]
      /\ b \in Seq(S) /\ Len(b) = Len(s) - i + 1
      /\ \A k \in 1 .. Len(s) - i + 1 : b[k] = s[k + i - 1]
  BY <1>1, SubSeqProperties
<1>3. <<t>> \in Seq(S) /\ Len(<<t>>) = 1 /\ <<t>>[1] = t
  OBVIOUS
<1>4. /\ r \in Seq(S) /\ Len(r) = Len(s) + 1
      /\ \A k \in 1 .. Len(s) + 1 : r[k] = IF k < i THEN s[k] ELSE IF k = i THEN t ELSE s[k-1]
  <2> HIDE DEF a, b
  <2> DEFINE c == a \o <<t>>
  <2>1. /\ c \in Seq(S) /\ Len(c) = i
        /\ \A k \in 1 .. i : c[k] = IF k <= i - 1 THEN a[k] ELSE <<t>>[k - (i - 1)]
    BY <1>1, <1>2, <1>3, ConcatProperties
  <2>2. r = c \o b
    BY DEF InsertAt, a, b
  <2> HIDE DEF c
  <2>3. /\ c \o b \in Seq(S) /\ Len(c \o b) = Len(c) + Len(b)
        /\ \A k \in 1 .. Len(c) + Len(b) : (c \o b)[k] = IF k <= Len(c) THEN c[k] ELSE b[k - Len(c)]
    <3>1. b \in Seq(S) /\ c \in Seq(S)
      BY <1>2, <2>1
    <3> QED
      BY <3>1, ConcatProperties
  <2>4. c[i] = t /\ \A k \in 1 .. i - 1 : c[k] = s[k]
    BY <1>1, <1>2, <1>3, <2>1
  <2> HIDE DEF r
  <2>5. r \in Seq(S) /\ Len(r) = Len(s) + 1
    BY <1>1, <1>2, <2>1, <2>2, <2>3
  <2>6. ASSUME NEW k \in 1 .. Len(s) + 1
        PROVE  r[k] = IF k < i THEN s[k] ELSE IF k = i THEN t ELSE s[k-1]
    <3>1. CASE k <= i
      BY <1>1, <1>2, <2>1, <2>2, <2>3, <2>4, <3>1
    <3>2. CASE k > i
      <4>1. r[k] = b[k - i] /\ k - i \in 1 .. Len(s) - i + 1
        BY <1>1, <1>2, <2>1, <2>2, <2>3, <3>2
      <4>2. b[k - i] = s[(k - i) + i - 1]
        BY <1>2, <4>1
      <4>3. (k - i) + i - 1 = k - 1
        BY <1>1
      <4> QED
        BY <1>1, <3>2, <4>1, <4>2, <4>3
    <3> QED
      BY <1>1, <3>1, <3>2
  <2> QED
    BY <2>5, <2>6
<1> HIDE DEF r
<1>5. DOMAIN r = 1 .. Len(s) + 1
  BY <1>4, LenProperties
<1>6. \A k \in 1 .. Len(s) : s[k] # t
  BY <1>1 DEF ToSet
<1>7. IsInjective(r)
  <2> DEFINE src(k) == IF k < i THEN k ELSE k - 1
  <2>1. \A k \in DOMAIN r : k = i \/ (src(k) \in 1 .. Len(s) /\ r[k] = s[src(k)] /\ r[k] # t)
    BY <1>1, <1>4, <1>5, <1>6
  <2>2. r[i] = t
    BY <1>1, <1>4, <1>5
  <2>3. \A j, k \in 1 .. Len(s) : s[j] = s[k] => j = k
    BY <1>1 DEF IsInjective
  <2> SUFFICES ASSUME NEW j \in DOMAIN r, NEW k \in DOMAIN r, r[j] = r[k] PROVE j = k
    BY DEF IsInjective
  <2>4. CASE j = i \/ k = i
    BY <2>1, <2>2, <2>4
  <2>5. CASE j # i /\ k # i
    <3>1. src(j) = src(k)
      BY <2>1, <2>3, <2>5
    <3> QED
      BY <1>1, <1>5, <2>5, <3>1
  <2> QED
    BY <2>4, <2>5
<1>8. ToSet(r) = ToSet(s) \cup {t}
  <2>1. ASSUME NEW k \in DOMAIN s PROVE \E m \in DOMAIN r : r[m] = s[k]
    <3>1. CASE k < i
      BY <1>1, <1>4, <1>5, <3>1
    <3>2. CASE k >= i
      <4>1. k + 1 \in DOMAIN r /\ r[k+1] = s[k]
        BY <1>1, <1>4, <1>5, <3>2
      <4> QED
        BY <4>1
    <3> QED
      BY <1>1, <3>1, <3>2
  <2>2. i \in DOMAIN r /\ r[i] = t
    BY <1>1, <1>4, <1>5
  <2>3. ASSUME NEW m \in DOMAIN r PROVE r[m] = t \/ \E k \in DOMAIN s : r[m] = s[k]
    <3>1. CASE m < i
      BY <1>1, <1>4, <1>5, <3>1
    <3>2. CASE m > i
      <4>1. m - 1 \in DOMAIN s /\ r[m] = s[m-1]
        BY <1>1, <1>4, <1>5, <3>2
      <4> QED
        BY <4>1
    <3> QED
      BY <1>1, <1>4, <1>5, <3>1, <3>2
  <2> QED
    BY <2>1, <2>2, <2>3 DEF ToSet
<1> QED
  BY <1>4, <1>7, <1>8 DEF r

LEMMA AppendIs ==
  ASSUME NEW S, NEW s \in Seq(S), IsInjective(s), NEW t \in S \ ToSet(s)
  PROVE  /\ Append(s, t) \in Seq(S) /\ IsInjective(Append(s, t)) /\ Append(s, t) # <<>>
         /\ ToSet(Append(s, t)) = ToSet(s) \cup {t}
<1>1. /\ DOMAIN s = 1 .. Len(s) /\ Len(s) \in Nat
      /\ Append(s, t) \in Seq(S) /\ Len(Append(s, t)) = Len(s) + 1
      /\ DOMAIN Append(s, t) = 1 .. Len(s) + 1
      /\ \A k \in 1 .. Len(s) : Append(s, t)[k] = s[k]
      /\ Append(s, t)[Len(s) + 1] = t
  BY LenProperties, AppendProperties
<1>2. \A k \in 1 .. Len(s) : s[k] # t
  BY <1>1 DEF ToSet
<1> QED
  BY <1>1, <1>2 DEF IsInjective, ToSet

----------------------------------------------------------------------------
(* What a loop over a strip, or over the saved list, computes.  The loops    *)
(* are folds; they are shown to do one turn after the other.                 *)

\* What holds of 0, and of n + 1 if it holds of n, holds of every number.
LEMMA NatSets ==
  ASSUME NEW T \in SUBSET Nat, 0 \in T, \A n \in T : n + 1 \in T
  PROVE  T = Nat
<1> SUFFICES ASSUME Nat \ T # {} PROVE FALSE
  OBVIOUS
<1>1. PICK x \in Nat \ T : \A y \in Nat \ T : <<y, x>> \notin OpToRel(<, Nat)
  BY WFMin, NatLessThanWellFounded
<1>2. x - 1 \in Nat
  OBVIOUS
<1>3. <<x - 1, x>> \in OpToRel(<, Nat)
  BY <1>2 DEF OpToRel
<1>4. x - 1 \in T
  BY <1>1, <1>2, <1>3
<1>5. (x - 1) + 1 \in T
  BY <1>4
<1> QED
  BY <1>5

\* The least and the greatest of a set of positions.
LEMMA MinIs ==
  ASSUME NEW S \in SUBSET Nat, S # {}
  PROVE  Min(S) \in S /\ \A y \in S : Min(S) <= y
<1>1. PICK x \in S : \A y \in S : <<y, x>> \notin OpToRel(<, Nat)
  BY WFMin, NatLessThanWellFounded
<1>2. ASSUME NEW y \in S PROVE x <= y
  <2>1. x \in Nat /\ y \in Nat
    OBVIOUS
  <2>2. y < x => <<y, x>> \in OpToRel(<, Nat)
    BY <2>1 DEF OpToRel
  <2>3. ~ (y < x)
    BY <1>1, <2>2, Zenon
  <2> QED
    BY <2>1, <2>3
<1> QED
  BY <1>2 DEF Min

LEMMA MaxIs ==
  ASSUME NEW n \in Nat, NEW S \in SUBSET (1 .. n), S # {}
  PROVE  Max(S) \in S /\ \A y \in S : Max(S) >= y
<1> DEFINE T == {n - y : y \in S}
<1>1. T \in SUBSET Nat /\ T # {}
  <2>1. \A y \in S : y \in 1 .. n
    OBVIOUS
  <2>2. \A y \in S : n - y \in Nat
    BY <2>1
  <2> QED
    BY <2>2
<1>2. PICK x \in T : \A y \in T : <<y, x>> \notin OpToRel(<, Nat)
  BY <1>1, WFMin, NatLessThanWellFounded
<1>3. PICK m \in S : x = n - m
  BY <1>2
<1>4. ASSUME NEW y \in S PROVE m >= y
  <2>1. n - y \in T /\ n - y \in Nat /\ x \in Nat
    BY <1>1, <1>2
  <2>2. n - y < x => <<n - y, x>> \in OpToRel(<, Nat)
    BY <2>1 DEF OpToRel
  <2>3. ~ (n - y < x)
    BY <1>2, <2>1, <2>2, Zenon
  <2> QED
    BY <1>3, <2>1, <2>3
<1> QED
  BY <1>4 DEF Max

\* One turn of a loop: of that over a strip which closes the tabs of deleted
\* VMs, that of a launch over the saved list, that of a save over a strip.
Turn(job, u, x) ==
  CASE job.do = "close" -> IF x \in job.tabs THEN CloseTabItem(u, job.win, x) ELSE u
    [] job.do = "open"  -> IF x \in Hosts \ hosts THEN u ELSE Restored(u, Primary, x)
    [] job.do = "keep"  -> IF job.tag[x] # None THEN Append(u, x) ELSE u

\* The function a fold is defined by.
FoldedBy(f, D, job, base, seq) ==
  f = [s \in SUBSET D |->
         IF s = {} THEN base ELSE Turn(job, f[s \ {Max(s)}], seq[Max(s)])]

LEMMA WithoutMax ==
  ASSUME NEW k \in Nat, NEW s \in SUBSET (1 .. k + 1), s # {}
  PROVE  s \ {Max(s)} \in SUBSET (1 .. k)
<1>1. k + 1 \in Nat
  OBVIOUS
<1> DEFINE m == Max(s)
<1>2. m \in s /\ \A y \in s : m >= y
  BY <1>1, MaxIs
<1> HIDE DEF m
<1>3. \A y \in s : y \in 1 .. k + 1
  OBVIOUS
<1>4. \A y \in s \ {m} : y \in 1 .. k
  BY <1>2, <1>3
<1> QED
  BY <1>4 DEF m

LEMMA FoldExists ==
  ASSUME NEW n \in Nat, NEW job, NEW base, NEW seq
  PROVE  \E f : FoldedBy(f, 1 .. n, job, base, seq)
<1> DEFINE T == {k \in Nat : \E f : FoldedBy(f, 1 .. k, job, base, seq)}
<1>1. 0 \in T
  <2> DEFINE f == [s \in SUBSET (1 .. 0) |-> base]
  <2>1. \A s \in SUBSET (1 .. 0) : s = {}
    OBVIOUS
  <2>2. FoldedBy(f, 1 .. 0, job, base, seq)
    BY <2>1 DEF FoldedBy
  <2> QED
    BY <2>2
<1>2. ASSUME NEW k \in T PROVE k + 1 \in T
  <2>1. PICK f : FoldedBy(f, 1 .. k, job, base, seq)
    OBVIOUS
  <2> DEFINE g == [s \in SUBSET (1 .. k + 1) |->
                     IF s = {} THEN base ELSE Turn(job, f[s \ {Max(s)}], seq[Max(s)])]
  <2>2. ASSUME NEW r \in SUBSET (1 .. k) PROVE g[r] = f[r]
    <3>1. r \in SUBSET (1 .. k + 1)
      OBVIOUS
    <3> QED
      BY <2>1, <3>1 DEF FoldedBy
  <2>3. ASSUME NEW s \in SUBSET (1 .. k + 1), s # {}
        PROVE  g[s \ {Max(s)}] = f[s \ {Max(s)}]
    <3>1. s \ {Max(s)} \in SUBSET (1 .. k)
      BY <2>3, WithoutMax
    <3> HIDE DEF g
    <3> QED
      BY <2>2, <3>1
  <2>4. g = [s \in SUBSET (1 .. k + 1) |->
               IF s = {} THEN base ELSE Turn(job, g[s \ {Max(s)}], seq[Max(s)])]
    <3> DEFINE h == [s \in SUBSET (1 .. k + 1) |->
                       IF s = {} THEN base ELSE Turn(job, g[s \ {Max(s)}], seq[Max(s)])]
    <3>1. \A s \in SUBSET (1 .. k + 1) : g[s] = h[s]
      BY <2>3
    <3> HIDE DEF Turn
    <3> QED
      BY <3>1
  <2> HIDE DEF g
  <2>5. FoldedBy(g, 1 .. k + 1, job, base, seq)
    BY <2>4 DEF FoldedBy
  <2> QED
    BY <2>5
<1> HIDE DEF T
<1>3. T \in SUBSET Nat
  BY DEF T
<1>4. T = Nat
  BY <1>1, <1>2, <1>3, NatSets
<1> QED
  BY <1>4 DEF T

\* The states of a loop.
Turns(g, job, base, seq) ==
  /\ g[0] = base
  /\ \A k \in 1 .. Len(seq) : g[k] = Turn(job, g[k-1], seq[k])

LEMMA FoldTurns ==
  ASSUME NEW S, NEW seq \in Seq(S), NEW job, NEW base, NEW f, FoldedBy(f, 1 .. Len(seq), job, base, seq)
  PROVE  \E g : Turns(g, job, base, seq) /\ g[Len(seq)] = f[1 .. Len(seq)]
<1> DEFINE n == Len(seq)
           g == [k \in 0 .. n |-> f[1 .. k]]
<1>1. n \in Nat
  BY LenProperties
<1>2. g[0] = base
  <2>1. 0 \in 0 .. n /\ 1 .. 0 = {} /\ {} \in SUBSET (1 .. n)
    BY <1>1
  <2> QED
    BY <2>1 DEF FoldedBy
<1>3. ASSUME NEW k \in 1 .. n PROVE g[k] = Turn(job, g[k-1], seq[k])
  <2>1. 1 .. k \in SUBSET (1 .. n) /\ 1 .. k # {}
    <3>1. k \in Nat /\ 1 <= k /\ k <= n
      BY <1>1
    <3>2. 1 \in 1 .. k /\ \A y \in 1 .. k : y \in 1 .. n
      BY <1>1, <3>1
    <3> QED
      BY <3>2
  <2>2. Max(1 .. k) = k
    <3>1. Max(1 .. k) \in 1 .. k /\ \A y \in 1 .. k : Max(1 .. k) >= y
      BY <1>1, <2>1, MaxIs
    <3> QED
      BY <3>1
  <2>3. (1 .. k) \ {k} = 1 .. k - 1
    BY <1>1
  <2>4. f[1 .. k] = Turn(job, f[1 .. k - 1], seq[k])
    BY <2>1, <2>2, <2>3 DEF FoldedBy
  <2>5. g[k] = f[1 .. k] /\ g[k-1] = f[1 .. k - 1]
    BY <1>1
  <2> QED
    BY <2>4, <2>5
<1>4. g[n] = f[1 .. n]
  BY <1>1
<1> HIDE DEF g
<1>5. Turns(g, job, base, seq)
  BY <1>2, <1>3 DEF Turns
<1> QED
  BY <1>4, <1>5

----------------------------------------------------------------------------
(* The windows in order, all but those a handler is in the middle of.       *)

\* A tab is in one place: a strip, or the hands of a window that is to adopt it.
Apart(u) ==
  /\ \A w \in Windows : IsInjective(u.strip[w])
  /\ \A v, w \in Windows : v # w => InStrip(u, v) \cap InStrip(u, w) = {}
  /\ \A v, w \in Windows : u.adopt[v] # None =>
       u.adopt[v] \notin InStrip(u, w) /\ (u.adopt[w] = u.adopt[v] => w = v)

\* A window that is closed has nothing.
Shut(u) ==
  \A w \in Windows \ u.open :
    u.strip[w] = <<>> /\ u.adopt[w] = None /\ w \notin u.raised

\* A strip that is not empty has a selected tab, but for windows not in S.
Chosen(u, S) ==
  \A w \in Windows :
    \/ u.selected[w] \in InStrip(u, w)
    \/ u.selected[w] = None /\ (u.strip[w] = <<>> \/ w \notin S)

\* The popup wanted is that of the selected tab, once SelectionChanged has
\* been delivered, but for windows not in S.
Shown(u, S) ==
  \A w \in (u.open \cap S) \ u.raised :
    \A t \in SessionTabs(u, w) : t \in u.wanted <=> u.selected[w] = t

\* Running sessions, but for those in X, are in an open window.
Owned(u, X) ==
  \A t \in u.child \ X : \E w \in u.open : t \in InStrip(u, w) \/ u.adopt[w] = t

\* As many tabs are saved as there can be.
Fits(u) == Len(u.saved.tabs) <= Cardinality(Tabs)

Good(u, S, X) ==
  /\ u \in UiState /\ Fits(u)
  /\ Apart(u) /\ Shut(u) /\ Chosen(u, S) /\ Shown(u, S) /\ Owned(u, X)

\* An open window has tabs, or is about to adopt its first.
Filled(u) == \A w \in u.open : (u.adopt[w] = None) <=> (u.strip[w] # <<>>)

\* The strips and the pages are the same.
AsIs(u, v) ==
  /\ v.open = u.open /\ v.adopt = u.adopt /\ v.strip = u.strip
  /\ v.tag = u.tag /\ v.child = u.child /\ v.wanted = u.wanted

LEMMA Strips ==
  ASSUME NEW u \in UiState, NEW w \in Windows
  PROVE  /\ u.strip[w] \in Seq(Tabs)
         /\ InStrip(u, w) \subseteq Tabs
         /\ InStrip(u, w) = {} <=> u.strip[w] = <<>>
         /\ None \notin InStrip(u, w)
<1>1. u.strip[w] \in Seq(Tabs)
  BY DEF UiState
<1>2. DOMAIN u.strip[w] = 1 .. Len(u.strip[w]) /\ Len(u.strip[w]) \in Nat
  BY <1>1, LenProperties
<1>3. \A i \in DOMAIN u.strip[w] : u.strip[w][i] \in Tabs
  BY <1>1, <1>2, ElementOfSeq
<1>4. u.strip[w] # <<>> => 1 \in DOMAIN u.strip[w]
  BY <1>1, <1>2, EmptySeq
<1>5. u.strip[w] = <<>> => DOMAIN u.strip[w] = {}
  BY <1>2, EmptySeq
<1> QED
  BY <1>1, <1>3, <1>4, <1>5, NoneAssumption DEF InStrip, ToSet

\* Same strips and selections, and no delivery less owed.
LEMMA GoodSame ==
  ASSUME NEW u, NEW v \in UiState, NEW S, NEW X, Good(u, S, X), AsIs(u, v),
         v.selected = u.selected, v.raised = u.raised, Fits(v)
  PROVE  Good(v, S, X)
BY DEF Good, AsIs, Apart, Shut, Chosen, Shown, Owned, InStrip, SessionTabs

\* What selecting a tab changes.
Selects(u, w, t, v) ==
  /\ v \in UiState /\ AsIs(u, v) /\ v.selected[w] = t
  /\ \A z \in Windows \ {w} : v.selected[z] = u.selected[z]
  /\ v.raised = IF u.selected[w] = t THEN u.raised ELSE u.raised \cup {w}
  /\ v.saved = u.saved /\ v.reordered = u.reordered /\ v.suppressed = u.suppressed

LEMMA SelectIs ==
  ASSUME NEW u \in UiState, NEW w \in Windows, NEW t \in Tabs \cup {None}
  PROVE  Selects(u, w, t, Select(u, w, t))
BY DEF Select, UiState, AsIs, Selects

LEMMA SelectGood ==
  ASSUME NEW S, NEW X, NEW u, Good(u, S, X), NEW w \in u.open, NEW t \in InStrip(u, w),
         w \in S \/ u.selected[w] # t \/ w \in u.raised
  PROVE  Good(Select(u, w, t), S \cup {w}, X)
<1> DEFINE v == Select(u, w, t)
<1>0. u \in UiState /\ w \in Windows /\ t \in Tabs
  BY Strips DEF Good, UiState
<1>1. /\ v \in UiState /\ AsIs(u, v)
      /\ v.selected[w] = t /\ \A z \in Windows \ {w} : v.selected[z] = u.selected[z]
      /\ v.raised = IF u.selected[w] = t THEN u.raised ELSE u.raised \cup {w}
      /\ v.saved = u.saved
  <2>1. Selects(u, w, t, v)
    BY <1>0, SelectIs
  <2> QED
    BY <2>1 DEF Selects
<1> HIDE DEF v
<1>2. Apart(v) /\ Owned(v, X)
  BY <1>1 DEF Good, AsIs, Apart, Owned, InStrip
<1>3. Shut(v)
  BY <1>1 DEF Good, AsIs, Shut
<1>6. Chosen(v, S \cup {w})
  BY <1>1 DEF Good, AsIs, Chosen, InStrip
<1>7. Shown(v, S \cup {w})
  <2> SUFFICES ASSUME NEW z \in (v.open \cap (S \cup {w})) \ v.raised, NEW x \in SessionTabs(v, z)
               PROVE  x \in v.wanted <=> v.selected[z] = x
    BY DEF Shown
  <2>1. z \in Windows /\ SessionTabs(v, z) = SessionTabs(u, z) /\ v.wanted = u.wanted
    BY <1>0, <1>1 DEF AsIs, SessionTabs, InStrip, UiState
  <2>2. z \in (u.open \cap S) \ u.raised /\ v.selected[z] = u.selected[z]
    BY <1>1, <2>1 DEF AsIs
  <2> QED
    BY <2>1, <2>2 DEF Good, Shown
<1>8. Fits(v)
  BY <1>1 DEF Good, Fits
<1> QED
  BY <1>1, <1>2, <1>3, <1>6, <1>7, <1>8 DEF Good, v

\* What every turn of a loop keeps, the loop keeps.
LEMMA FoldKeeps ==
  ASSUME NEW S, NEW seq \in Seq(S), NEW job, NEW base, NEW f, NEW I,
         FoldedBy(f, 1 .. Len(seq), job, base, seq),
         base \in I[0],
         \A k \in 1 .. Len(seq) : \A u \in I[k-1] : Turn(job, u, seq[k]) \in I[k]
  PROVE  f[1 .. Len(seq)] \in I[Len(seq)]
<1>0. Len(seq) \in Nat
  BY LenProperties
<1>1. PICK g : Turns(g, job, base, seq) /\ g[Len(seq)] = f[1 .. Len(seq)]
  BY FoldTurns
<1> DEFINE T == {k \in Nat : k <= Len(seq) => g[k] \in I[k]}
<1>2. 0 \in T
  BY <1>1 DEF Turns
<1>3. ASSUME NEW k \in T PROVE k + 1 \in T
  <2> SUFFICES ASSUME k + 1 <= Len(seq) PROVE g[k+1] \in I[k+1]
    OBVIOUS
  <2>1. k + 1 \in 1 .. Len(seq) /\ (k + 1) - 1 = k /\ g[k] \in I[k]
    BY <1>0
  <2>2. g[k+1] = Turn(job, g[k], seq[k+1])
    BY <1>1, <2>1 DEF Turns
  <2> QED
    BY <2>1, <2>2
<1> HIDE DEF T
<1>4. T = Nat
  <2>1. T \in SUBSET Nat
    BY DEF T
  <2> QED
    BY <1>2, <1>3, <2>1, NatSets
<1> QED
  BY <1>0, <1>1, <1>4 DEF T

\* The tabs of a strip that have a page.
KeptOf(u, seq) ==
  LET keep(kept, t) == IF u.tag[t] # None THEN Append(kept, t) ELSE kept
  IN FoldLeft(keep, <<>>, seq)

Keeping(u) == [do |-> "keep", tag |-> u.tag]

LEMMA KeptFolds ==
  ASSUME NEW u, NEW seq \in Seq(Tabs)
  PROVE  \E f : FoldedBy(f, 1 .. Len(seq), Keeping(u), <<>>, seq) /\ f[1 .. Len(seq)] = KeptOf(u, seq)
<1> DEFINE keep(kept, t) == IF u.tag[t] # None THEN Append(kept, t) ELSE kept
           n == Len(seq)
           job == Keeping(u)
           F == CHOOSE f : f = [s \in SUBSET DOMAIN seq |->
                   IF s = {} THEN <<>> ELSE keep(f[s \ {Max(s)}], seq[Max(s)])]
<1>1. KeptOf(u, seq) = F[DOMAIN seq]
  BY DEF FoldLeft, MapThenFoldSet, KeptOf
<1>2. DOMAIN seq = 1 .. n /\ n \in Nat
  BY LenProperties
<1>3. \A x, t : Turn(job, x, t) = keep(x, t)
  BY DEF Turn, Keeping
<1> HIDE DEF keep, job
<1>4. \A f : FoldedBy(f, 1 .. n, job, <<>>, seq) <=>
             f = [s \in SUBSET DOMAIN seq |->
                   IF s = {} THEN <<>> ELSE keep(f[s \ {Max(s)}], seq[Max(s)])]
  <2> SUFFICES ASSUME NEW f
               PROVE  FoldedBy(f, 1 .. n, job, <<>>, seq) <=>
                      f = [s \in SUBSET DOMAIN seq |->
                            IF s = {} THEN <<>> ELSE keep(f[s \ {Max(s)}], seq[Max(s)])]
    OBVIOUS
  <2> HIDE DEF F, n
  <2>1. [s \in SUBSET (1 .. n) |->
          IF s = {} THEN <<>> ELSE Turn(job, f[s \ {Max(s)}], seq[Max(s)])]
        = [s \in SUBSET DOMAIN seq |->
            IF s = {} THEN <<>> ELSE keep(f[s \ {Max(s)}], seq[Max(s)])]
    BY <1>2, <1>3
  <2> QED
    BY <2>1 DEF FoldedBy
<1>5. FoldedBy(F, 1 .. n, job, <<>>, seq)
  BY <1>2, <1>4, FoldExists
<1> HIDE DEF F
<1> QED
  BY <1>1, <1>2, <1>5 DEF job

LEMMA KeptTurns ==
  ASSUME NEW u, NEW seq \in Seq(Tabs)
  PROVE  \E g : Turns(g, Keeping(u), <<>>, seq) /\ g[Len(seq)] = KeptOf(u, seq)
<1>1. PICK f : FoldedBy(f, 1 .. Len(seq), Keeping(u), <<>>, seq) /\ f[1 .. Len(seq)] = KeptOf(u, seq)
  BY KeptFolds
<1> QED
  BY <1>1, FoldTurns

\* Each of them once.
LEMMA KeptIs ==
  ASSUME NEW u, NEW seq \in Seq(Tabs), IsInjective(seq)
  PROVE  /\ KeptOf(u, seq) \in Seq(Tabs)
         /\ ToSet(KeptOf(u, seq)) = {t \in ToSet(seq) : u.tag[t] # None}
         /\ Len(KeptOf(u, seq)) = Cardinality({t \in ToSet(seq) : u.tag[t] # None})
<1> DEFINE n == Len(seq)
           job == Keeping(u)
           paged(k) == {t \in {seq[j] : j \in 1 .. k} : u.tag[t] # None}
           I == [k \in 0 .. n |-> {s \in Seq(Tabs) : /\ IsInjective(s) /\ ToSet(s) = paged(k)
                                                    /\ Len(s) = Cardinality(ToSet(s))}]
<1>1. DOMAIN seq = 1 .. n /\ n \in Nat /\ \A k \in 1 .. n : seq[k] \in Tabs
  BY LenProperties, ElementOfSeq
<1>2. \A i, j \in 1 .. n : seq[i] = seq[j] => i = j
  BY <1>1 DEF IsInjective
<1>3. \A s, t : Turn(job, s, t) = IF u.tag[t] # None THEN Append(s, t) ELSE s
  BY DEF Turn, Keeping
<1> HIDE DEF job
<1>4. <<>> \in I[0]
  <2>1. paged(0) = {} /\ 0 \in 0 .. n
    BY <1>1
  <2>2. ToSet(<<>>) = {} /\ IsInjective(<<>>) /\ <<>> \in Seq(Tabs) /\ Len(<<>>) = 0
    BY DEF IsInjective, ToSet
  <2> HIDE DEF paged
  <2> QED
    BY <2>1, <2>2, FS_EmptySet
<1>5. ASSUME NEW k \in 1 .. n, NEW s \in I[k-1]
      PROVE  Turn(job, s, seq[k]) \in I[k]
  <2> DEFINE t == seq[k]
  <2>1. k - 1 \in 0 .. n /\ k \in 0 .. n /\ t \in Tabs
    BY <1>1
  <2>2. s \in Seq(Tabs) /\ IsInjective(s) /\ ToSet(s) = paged(k - 1) /\ Len(s) = Cardinality(ToSet(s))
    BY <2>1
  <2>3. paged(k) = paged(k - 1) \cup (IF u.tag[t] # None THEN {t} ELSE {})
    <3>1. 1 .. k = (1 .. k - 1) \cup {k}
      BY <1>1
    <3>2. {seq[j] : j \in 1 .. k} = {seq[j] : j \in 1 .. k - 1} \cup {t}
      BY <3>1
    <3> QED
      BY <3>2
  <2>4. t \notin paged(k - 1)
    <3>1. \A j \in 1 .. k - 1 : j \in 1 .. n /\ j # k
      BY <1>1
    <3> HIDE DEF n
    <3> QED
      BY <1>2, <3>1
  <2> HIDE DEF paged, t
  <2>5. CASE u.tag[t] = None
    BY <1>3, <2>1, <2>2, <2>3, <2>5 DEF t
  <2>6. CASE u.tag[t] # None
    <3> DEFINE r == Append(s, t)
    <3>1. r \in Seq(Tabs) /\ IsInjective(r) /\ ToSet(r) = ToSet(s) \cup {t}
      BY <2>1, <2>2, <2>4, AppendIs
    <3>2. Len(r) = Len(s) + 1
      BY <2>1, <2>2, AppendProperties
    <3>3. ToSet(s) \in SUBSET Tabs
      <4>1. \A j \in DOMAIN s : s[j] \in Tabs
        BY <2>2, LenProperties, ElementOfSeq
      <4> QED
        BY <4>1 DEF ToSet
    <3>4. IsFiniteSet(ToSet(s))
      BY <3>3, TabsAssumption, FS_Subset
    <3>5. Cardinality(ToSet(s) \cup {t}) = Cardinality(ToSet(s)) + 1
      BY <2>2, <2>4, <3>4, FS_AddElement
    <3> HIDE DEF r
    <3>6. Turn(job, s, t) = r
      BY <1>3, <2>6 DEF r
    <3>7. ToSet(r) = paged(k) /\ Len(r) = Cardinality(ToSet(r))
      BY <2>2, <2>3, <2>6, <3>1, <3>2, <3>5
    <3> QED
      BY <2>1, <3>1, <3>6, <3>7 DEF t
  <2> QED
    BY <2>5, <2>6
<1>6. PICK f : FoldedBy(f, 1 .. n, job, <<>>, seq) /\ f[1 .. n] = KeptOf(u, seq)
  BY KeptFolds DEF job
<1> HIDE DEF I
<1>7. KeptOf(u, seq) \in I[n]
  <2>1. \A k \in 1 .. n : \A s \in I[k-1] : Turn(job, s, seq[k]) \in I[k]
    BY <1>5
  <2> HIDE DEF paged
  <2>2. f[1 .. n] \in I[n]
    BY <1>4, <1>6, <2>1, FoldKeeps
  <2> QED
    BY <1>6, <2>2
<1>8. n \in 0 .. n /\ paged(n) = {t \in ToSet(seq) : u.tag[t] # None}
  BY <1>1 DEF ToSet
<1> HIDE DEF paged
<1> QED
  BY <1>7, <1>8 DEF I

\* It depends on the pages of its own tabs only.
LEMMA KeptSame ==
  ASSUME NEW u, NEW v, NEW seq \in Seq(Tabs), \A t \in ToSet(seq) : u.tag[t] = v.tag[t]
  PROVE  KeptOf(u, seq) = KeptOf(v, seq)
<1> DEFINE n == Len(seq)
<1>1. DOMAIN seq = 1 .. n /\ n \in Nat
  BY LenProperties
<1>2. PICK g : Turns(g, Keeping(u), <<>>, seq) /\ g[n] = KeptOf(u, seq)
  BY KeptTurns
<1>3. PICK h : Turns(h, Keeping(v), <<>>, seq) /\ h[n] = KeptOf(v, seq)
  BY KeptTurns
<1>4. \A x : \A k \in 1 .. n : Turn(Keeping(u), x, seq[k]) = Turn(Keeping(v), x, seq[k])
  BY <1>1 DEF Turn, Keeping, ToSet
<1> DEFINE T == {k \in Nat : k <= n => g[k] = h[k]}
<1>5. 0 \in T
  BY <1>2, <1>3 DEF Turns
<1>6. ASSUME NEW k \in T PROVE k + 1 \in T
  <2> SUFFICES ASSUME k + 1 <= n PROVE g[k+1] = h[k+1]
    OBVIOUS
  <2>1. k + 1 \in 1 .. n /\ (k + 1) - 1 = k /\ g[k] = h[k]
    BY <1>1
  <2>2. g[k+1] = Turn(Keeping(u), g[k], seq[k+1]) /\ h[k+1] = Turn(Keeping(v), h[k], seq[k+1])
    BY <1>2, <1>3, <2>1 DEF Turns
  <2> QED
    BY <1>4, <2>1, <2>2
<1> HIDE DEF T
<1>7. T \in SUBSET Nat
  BY DEF T
<1>8. T = Nat
  BY <1>5, <1>6, <1>7, NatSets
<1> QED
  BY <1>1, <1>2, <1>3, <1>8 DEF T

\* The list saved of the tabs kept.
ListOf(kept, pages, x) ==
  [tabs |-> pages,
   sel  |-> IF Contains(kept, x) THEN CHOOSE i \in DOMAIN kept : kept[i] = x ELSE 0]

LEMMA SnapshotKept ==
  ASSUME NEW u, NEW w
  PROVE  Snapshot(u, w) = ListOf(KeptOf(u, u.strip[w]),
                                 [i \in DOMAIN KeptOf(u, u.strip[w]) |-> u.tag[KeptOf(u, u.strip[w])[i]]],
                                 u.selected[w])
BY DEF Snapshot, KeptOf, ListOf

\* A strip saves alike as long as it, its selection and its pages are the same.
LEMMA SnapshotSame ==
  ASSUME NEW u, NEW v, NEW w \in Windows, u.strip[w] \in Seq(Tabs), IsInjective(u.strip[w]),
         v.strip[w] = u.strip[w], v.selected[w] = u.selected[w],
         \A t \in InStrip(u, w) : v.tag[t] = u.tag[t]
  PROVE  Snapshot(v, w) = Snapshot(u, w)
<1> DEFINE seq == u.strip[w]
           kept == KeptOf(u, seq)
<1>0. seq \in Seq(Tabs) /\ IsInjective(seq) /\ v.strip[w] = seq /\ ToSet(seq) = InStrip(u, w)
  BY DEF InStrip
<1> HIDE DEF seq
<1>1. KeptOf(v, seq) = kept
  <2>1. \A t \in ToSet(seq) : v.tag[t] = u.tag[t]
    BY <1>0
  <2> QED
    BY <1>0, <2>1, KeptSame
<1>2. ToSet(kept) \subseteq InStrip(u, w)
  <2>1. ToSet(kept) = {t \in ToSet(seq) : u.tag[t] # None}
    BY <1>0, KeptIs, Zenon
  <2> QED
    BY <1>0, <2>1
<1> HIDE DEF kept
<1>3. \A i \in DOMAIN kept : v.tag[kept[i]] = u.tag[kept[i]]
  BY <1>2 DEF ToSet
<1>4. /\ Snapshot(v, w) = ListOf(kept, [i \in DOMAIN kept |-> v.tag[kept[i]]], v.selected[w])
      /\ Snapshot(u, w) = ListOf(kept, [i \in DOMAIN kept |-> u.tag[kept[i]]], u.selected[w])
  BY <1>0, <1>1, SnapshotKept DEF kept, seq
<1>5. [i \in DOMAIN kept |-> v.tag[kept[i]]] = [i \in DOMAIN kept |-> u.tag[kept[i]]]
  BY <1>3
<1> QED
  BY <1>4, <1>5

\* What a strip saves is the pages of its tabs, one for every tab.
LEMMA SavedPages ==
  ASSUME NEW u, NEW w \in Windows, u.strip[w] \in Seq(Tabs), IsInjective(u.strip[w])
  PROVE  /\ ToSet(Snapshot(u, w).tabs) = {u.tag[t] : t \in {x \in InStrip(u, w) : u.tag[x] # None}}
         /\ Len(Snapshot(u, w).tabs) = Cardinality({x \in InStrip(u, w) : u.tag[x] # None})
<1> DEFINE seq == u.strip[w]
           kept == KeptOf(u, seq)
           tabs == [i \in DOMAIN kept |-> u.tag[kept[i]]]
<1>0. seq \in Seq(Tabs) /\ IsInjective(seq) /\ ToSet(seq) = InStrip(u, w)
  BY DEF InStrip
<1>2. Snapshot(u, w).tabs = tabs
  BY SnapshotKept DEF ListOf
<1> HIDE DEF seq
<1>1. /\ kept \in Seq(Tabs)
      /\ ToSet(kept) = {x \in InStrip(u, w) : u.tag[x] # None}
      /\ Len(kept) = Cardinality({x \in InStrip(u, w) : u.tag[x] # None})
  <2>1. ToSet(seq) = InStrip(u, w) /\ kept \in Seq(Tabs)
    BY <1>0, KeptIs, Zenon
  <2>2. /\ ToSet(kept) = {x \in ToSet(seq) : u.tag[x] # None}
        /\ Len(kept) = Cardinality({x \in ToSet(seq) : u.tag[x] # None})
    BY <1>0, KeptIs, Zenon
  <2> QED
    BY <2>1, <2>2, Zenon
<1> HIDE DEF kept
<1>3. DOMAIN kept = 1 .. Len(kept) /\ Len(kept) \in Nat
  BY <1>1, LenProperties
<1>4. Len(tabs) = Len(kept)
  BY <1>3
<1>5. ToSet(tabs) = {u.tag[t] : t \in ToSet(kept)}
  BY DEF ToSet
<1> QED
  BY <1>1, <1>2, <1>4, <1>5

\* What is saved of a strip: pages, no more than there can be tabs.
LEMMA SnapshotIs ==
  ASSUME NEW u \in UiState, NEW w \in Windows, IsInjective(u.strip[w])
  PROVE  /\ Snapshot(u, w) \in [tabs : Seq(Pages), sel : Nat]
         /\ Len(Snapshot(u, w).tabs) <= Cardinality(Tabs)
<1> DEFINE seq == u.strip[w]
           kept == KeptOf(u, seq)
           tabs == [i \in DOMAIN kept |-> u.tag[kept[i]]]
           sel == IF Contains(kept, u.selected[w])
                  THEN CHOOSE i \in DOMAIN kept : kept[i] = u.selected[w]
                  ELSE 0
<1>1. Snapshot(u, w) = [tabs |-> tabs, sel |-> sel]
  BY SnapshotKept DEF ListOf
<1>2. seq \in Seq(Tabs) /\ IsInjective(seq) /\ ToSet(seq) \subseteq Tabs
  BY Strips DEF InStrip
<1> HIDE DEF seq
<1>3. /\ kept \in Seq(Tabs)
      /\ ToSet(kept) = {t \in ToSet(seq) : u.tag[t] # None}
      /\ Len(kept) = Cardinality({t \in ToSet(seq) : u.tag[t] # None})
  BY <1>2, KeptIs, Zenon
<1>4. Len(kept) <= Cardinality(Tabs)
  <2> DEFINE P == {t \in ToSet(seq) : u.tag[t] # None}
  <2>1. P \in SUBSET Tabs
    BY <1>2
  <2> HIDE DEF P
  <2>2. Cardinality(P) <= Cardinality(Tabs)
    BY <2>1, TabsAssumption, FS_Subset
  <2> QED
    BY <1>3, <2>2 DEF P
<1> HIDE DEF kept
<1>5. DOMAIN kept = 1 .. Len(kept) /\ Len(kept) \in Nat
  BY <1>3, LenProperties
<1>6. tabs \in Seq(Pages) /\ Len(tabs) = Len(kept)
  <2>1. \A i \in 1 .. Len(kept) : u.tag[kept[i]] \in Pages
    <3>1. u.tag \in [Tabs -> Pages \cup {None}]
      BY DEF UiState
    <3>2. \A i \in 1 .. Len(kept) : kept[i] \in ToSet(kept)
      BY <1>5 DEF ToSet
    <3> QED
      BY <1>2, <1>3, <3>1, <3>2
  <2>2. tabs \in [1 .. Len(kept) -> Pages]
    BY <1>5, <2>1
  <2> HIDE DEF tabs
  <2> QED
    BY <1>5, <2>2, SeqDef, LenProperties
<1>7. sel \in Nat
  BY <1>5 DEF Contains
<1> HIDE DEF tabs, sel
<1> QED
  BY <1>1, <1>4, <1>6, <1>7

\* The list has just been saved from the primary window's strip.
Listing(v) == v.saved = Snapshot(v, Primary) /\ ~ v.reordered

\* Or there is nothing to save, or it is still to be saved.
Written(v) == Primary \notin v.open \/ Primary \in v.raised \/ Listing(v)

\* Nothing the list is made of has changed, nor the list.
Untouched(u, v) ==
  /\ v.strip[Primary] = u.strip[Primary] /\ v.selected[Primary] = u.selected[Primary]
  /\ v.saved = u.saved /\ v.reordered = u.reordered
  /\ Primary \in v.open <=> Primary \in u.open
  /\ Primary \in v.raised <=> Primary \in u.raised
  /\ \A t \in InStrip(u, Primary) : v.tag[t] = u.tag[t]

Faithful(u, v) == Untouched(u, v) \/ Written(v)

\* What an operation at one window does to the list.
Listed(u, w, v) == IF w = Primary THEN Written(v) ELSE Untouched(u, v)

\* Sessions end, and no other is uncovered.
Drops(u, v) ==
  v.child \subseteq u.child /\ \A t \in u.suppressed \ v.suppressed : t \notin v.child

\* A popup comes back only in a window without a dialog.
Hides(u, v) ==
  \A t \in (u.suppressed \ v.suppressed) \cap v.child :
    \A w \in v.open : t \in InStrip(v, w) => v.depth[w] = 0

\* What a handler does to the saved list and to the popups.
Passes(u, v) == Faithful(u, v) /\ Hides(u, v)

LEMMA DropsHides ==
  ASSUME NEW u, NEW o, NEW v, o.suppressed = u.suppressed, Drops(o, v)
  PROVE  Hides(u, v)
BY DEF Drops, Hides

LEMMA PassesSelf ==
  ASSUME NEW u
  PROVE  Untouched(u, u) /\ Drops(u, u) /\ Passes(u, u)
BY DEF Untouched, Drops, Passes, Faithful, Hides

LEMMA ListedPasses ==
  ASSUME NEW u, NEW w, NEW v, Listed(u, w, v), Drops(u, v)
  PROVE  Passes(u, v)
BY DropsHides DEF Listed, Faithful, Passes

LEMMA UntouchedOn ==
  ASSUME NEW u, NEW v, NEW x, Untouched(u, v), Untouched(v, x)
  PROVE  Untouched(u, x)
BY DEF Untouched, InStrip

LEMMA DropsOn ==
  ASSUME NEW u, NEW v, NEW x, Drops(u, v), Drops(v, x)
  PROVE  Drops(u, x)
BY DEF Drops

LEMMA SavedAlike ==
  ASSUME NEW v, NEW x, NEW S, NEW X, Good(v, S, X), Untouched(v, x)
  PROVE  Snapshot(x, Primary) = Snapshot(v, Primary)
<1>1. Primary \in Windows /\ v.strip[Primary] \in Seq(Tabs) /\ IsInjective(v.strip[Primary])
  BY WindowsAssumption, Strips DEF Good, Apart
<1>2. /\ x.strip[Primary] = v.strip[Primary] /\ x.selected[Primary] = v.selected[Primary]
      /\ \A t \in InStrip(v, Primary) : x.tag[t] = v.tag[t]
  BY DEF Untouched
<1> QED
  BY <1>1, <1>2, SnapshotSame

LEMMA WrittenStays ==
  ASSUME NEW v, NEW x, NEW S, NEW X, Good(v, S, X), Written(v), Untouched(v, x)
  PROVE  Written(x)
BY SavedAlike DEF Written, Listing, Untouched

LEMMA FaithfulOn ==
  ASSUME NEW u, NEW v, NEW x, NEW S, NEW X, Good(v, S, X), Faithful(u, v), Faithful(v, x)
  PROVE  Faithful(u, x)
BY UntouchedOn, WrittenStays DEF Faithful

\* What is saved is right: SavedIsStrip of a state of the windows.
Saved(u) ==
  Primary \in u.open \ u.raised =>
    LET now == Snapshot(u, Primary)
    IN IF u.reordered
       THEN /\ Len(u.saved.tabs) = Len(now.tabs)
            /\ ToSet(u.saved.tabs) = ToSet(now.tabs)
       ELSE u.saved = now

LEMMA SavedOn ==
  ASSUME NEW u, NEW v, NEW S, NEW X, Good(u, S, X), Saved(u), Faithful(u, v)
  PROVE  Saved(v)
<1>1. CASE Written(v)
  BY <1>1 DEF Written, Listing, Saved
<1>2. CASE Untouched(u, v)
  BY <1>2, SavedAlike DEF Untouched, Saved
<1> QED
  BY <1>1, <1>2 DEF Faithful

\* A selection is not saved before SelectionChanged.
LEMMA SelectListed ==
  ASSUME NEW u, NEW w \in Windows, NEW t, NEW v, Selects(u, w, t, v)
  PROVE  Faithful(u, v) /\ Drops(u, v) /\ (w # Primary => Untouched(u, v))
<1>1. v.child = u.child /\ v.suppressed = u.suppressed
  BY DEF Selects, AsIs
<1>2. CASE w = Primary /\ u.selected[w] # t
  BY <1>1, <1>2 DEF Selects, Faithful, Written, Drops
<1>3. CASE w # Primary \/ u.selected[w] = t
  <2>1. v.selected[Primary] = u.selected[Primary] /\ (Primary \in v.raised <=> Primary \in u.raised)
    BY <1>3, WindowsAssumption DEF Selects
  <2>2. Untouched(u, v)
    BY <2>1 DEF Selects, AsIs, Untouched
  <2> QED
    BY <1>1, <2>2 DEF Faithful, Drops
<1> QED
  BY <1>2, <1>3

\* The saved list is written and nothing else changes.
Saves(u, S, X, v) ==
  /\ Good(v, S, X) /\ AsIs(u, v) /\ v.selected = u.selected /\ v.raised = u.raised
  /\ v.suppressed = u.suppressed

LEMMA PersistIs ==
  ASSUME NEW u, NEW S, NEW X, Good(u, S, X), NEW w \in Windows
  PROVE  /\ Saves(u, S, X, PersistOpenTabs(u, w))
         /\ IF w = Primary THEN Written(PersistOpenTabs(u, w)) /\ Listing(PersistOpenTabs(u, w))
                           ELSE PersistOpenTabs(u, w) = u
<1> DEFINE s == Snapshot(u, w)
           v == [u EXCEPT !.saved = s, !.reordered = FALSE]
<1>1. u \in UiState /\ IsInjective(u.strip[w])
  BY DEF Good, Apart
<1>2. s \in [tabs : Seq(Pages), sel : Nat] /\ Len(s.tabs) <= Cardinality(Tabs)
  BY <1>1, SnapshotIs
<1> HIDE DEF s
<1>3. /\ v \in UiState /\ AsIs(u, v) /\ v.selected = u.selected /\ v.raised = u.raised
      /\ v.saved = s /\ v.suppressed = u.suppressed /\ v.reordered = FALSE
  BY <1>1, <1>2 DEF UiState, AsIs
<1>4. Fits(v)
  BY <1>2, <1>3 DEF Fits
<1> HIDE DEF v
<1>5. Good(v, S, X)
  BY <1>3, <1>4, GoodSame
<1>6. Saves(u, S, X, u)
  BY DEF Saves, AsIs
<1>7. Saves(u, S, X, v)
  BY <1>3, <1>5 DEF Saves
<1>8. w = Primary => Written(v) /\ Listing(v)
  <2>1. Good(u, S, X) /\ \A t \in InStrip(u, w) : v.tag[t] = u.tag[t]
    BY <1>3 DEF AsIs
  <2>2. u.strip[w] \in Seq(Tabs) /\ IsInjective(u.strip[w]) /\ v.strip[w] = u.strip[w] /\ v.selected[w] = u.selected[w]
    BY <1>1, <1>3, Strips DEF AsIs
  <2>3. Snapshot(v, w) = s
    BY <2>1, <2>2, SnapshotSame DEF s
  <2> QED
    BY <1>3, <2>3 DEF Written, Listing
<1>9. PersistOpenTabs(u, w) = IF w = Primary THEN v ELSE u
  BY DEF PersistOpenTabs, v, s
<1> QED
  BY <1>6, <1>7, <1>8, <1>9

----------------------------------------------------------------------------
(* A tab more.                                                              *)

Fine(u) == Good(u, Windows, {})

\* No page becomes a session's.
NoNew(u, v) == \A x \in Tabs : v.tag[x] \in Sessions => v.tag[x] = u.tag[x]

\* A tab that was in no strip is put into one, out of the hands it was in.
LEMMA TabAdded ==
  ASSUME NEW u, NEW S, NEW X, Good(u, S, X), NEW w \in u.open, NEW t \in Tabs,
         NEW m \in UiState, Fits(m), m.open = u.open,
         \A z \in Windows : t \notin InStrip(u, z),
         \A z \in Windows \ {w} : m.strip[z] = u.strip[z],
         IsInjective(m.strip[w]), InStrip(m, w) = InStrip(u, w) \cup {t},
         \A z \in Windows : IF u.adopt[z] = t THEN m.adopt[z] = None ELSE m.adopt[z] = u.adopt[z],
         m.selected = u.selected, m.raised = u.raised, m.wanted = u.wanted,
         \A x \in Tabs \ {t} : m.tag[x] = u.tag[x],
         m.child \subseteq u.child \cup {t}
  PROVE  Good(m, S \ {w}, X \ {t})
<1>0. u \in UiState /\ w \in Windows /\ u.open \subseteq Windows
  BY DEF Good, UiState
<1>1. \A z \in Windows \ {w} : InStrip(m, z) = InStrip(u, z)
  BY DEF InStrip
<1>2. \A z \in Windows : /\ InStrip(u, z) \subseteq Tabs /\ None \notin InStrip(u, z)
                         /\ m.strip[z] = <<>> <=> InStrip(m, z) = {}
                         /\ u.strip[z] = <<>> <=> InStrip(u, z) = {}
  BY <1>0, Strips
<1>3. t # None
  BY NoneAssumption
<1>4. Apart(m)
  <2>1. \A z \in Windows : IsInjective(m.strip[z])
    BY DEF Good, Apart
  <2>2. \A y, z \in Windows : y # z => InStrip(m, y) \cap InStrip(m, z) = {}
    BY <1>0, <1>1 DEF Good, Apart
  <2>3. \A y, z \in Windows : m.adopt[y] # None =>
          m.adopt[y] \notin InStrip(m, z) /\ (m.adopt[z] = m.adopt[y] => z = y)
    <3> SUFFICES ASSUME NEW y \in Windows, NEW z \in Windows, m.adopt[y] # None
                 PROVE  m.adopt[y] \notin InStrip(m, z) /\ (m.adopt[z] = m.adopt[y] => z = y)
      OBVIOUS
    <3>1. u.adopt[y] # t /\ m.adopt[y] = u.adopt[y]
      OBVIOUS
    <3>2. u.adopt[y] \notin InStrip(u, z) /\ (u.adopt[z] = u.adopt[y] => z = y)
      BY <3>1 DEF Good, Apart
    <3> QED
      BY <1>1, <3>1, <3>2
  <2> QED
    BY <2>1, <2>2, <2>3 DEF Apart
<1>5. Shut(m)
  BY <1>0 DEF Good, Shut
<1>6. Chosen(m, S \ {w})
  BY <1>1, <1>2 DEF Good, Chosen
<1>7. Shown(m, S \ {w})
  <2> SUFFICES ASSUME NEW z \in (m.open \cap (S \ {w})) \ m.raised, NEW x \in SessionTabs(m, z)
               PROVE  x \in m.wanted <=> m.selected[z] = x
    BY DEF Shown
  <2>1. z \in Windows \ {w} /\ z \in (u.open \cap S) \ u.raised
    BY <1>0
  <2>2. x \in SessionTabs(u, z)
    BY <1>1, <1>2, <2>1 DEF SessionTabs
  <2> QED
    BY <2>1, <2>2 DEF Good, Shown
<1>8. Owned(m, X \ {t})
  <2> SUFFICES ASSUME NEW x \in m.child \ (X \ {t})
               PROVE  \E z \in m.open : x \in InStrip(m, z) \/ m.adopt[z] = x
    BY DEF Owned
  <2>1. CASE x = t
    BY <2>1
  <2>2. CASE x # t
    <3>1. PICK z \in u.open : x \in InStrip(u, z) \/ u.adopt[z] = x
      BY <2>2 DEF Good, Owned
    <3>2. z \in Windows
      BY <1>0
    <3> QED
      BY <1>1, <2>2, <3>1, <3>2
  <2> QED
    BY <2>1, <2>2
<1> QED
  BY <1>4, <1>5, <1>6, <1>7, <1>8 DEF Good

\* A free tab is nowhere.
LEMMA FreeIs ==
  ASSUME NEW u, NEW t \in Free(u)
  PROVE  /\ t \in Tabs /\ t \notin Carried
         /\ \A z \in Windows : t \notin InStrip(u, z) /\ u.adopt[z] # t
BY DEF Free

\* What opening a tab changes.
Added(u, w, t, g, v) ==
  /\ Fine(v) /\ v.open = u.open /\ v.adopt = u.adopt
  /\ \A z \in Windows \ {w} : v.strip[z] = u.strip[z]
  /\ InStrip(v, w) = InStrip(u, w) \cup {t}
  /\ v.selected[w] = t /\ v.tag[t] = g
  /\ \A x \in Tabs \ {t} : v.tag[x] = u.tag[x]
  /\ v.suppressed = u.suppressed /\ (g \notin Sessions => v.child = u.child)
  /\ w # Primary => Untouched(u, v)

LEMMA AddTabIs ==
  ASSUME NEW u, Fine(u), NEW w \in u.open, NEW g \in Pages, Free(u) # {}
  PROVE  \E t \in Free(u) : Added(u, w, t, g, AddTab(u, w, g))
<1> DEFINE t == CHOOSE x \in Free(u) : TRUE
           child == IF g \in Sessions THEN u.child \cup {t} ELSE u.child
           strip == Append(u.strip[w], t)
           m == [u EXCEPT !.strip[w] = strip, !.tag[t] = g, !.child = child]
           v == Select(m, w, t)
<1>0. AddTab(u, w, g) = v
  BY DEF AddTab
<1>1. t \in Free(u)
  OBVIOUS
<1> HIDE DEF t
<1>2. u \in UiState /\ w \in Windows /\ IsInjective(u.strip[w]) /\ Fits(u)
  BY DEF Fine, Good, UiState, Apart
<1>3. t \in Tabs /\ \A z \in Windows : t \notin InStrip(u, z) /\ u.adopt[z] # t
  BY <1>1, FreeIs
<1>4. strip \in Seq(Tabs) /\ IsInjective(strip) /\ ToSet(strip) = InStrip(u, w) \cup {t}
  BY <1>2, <1>3, Strips, AppendIs DEF InStrip
<1>5. child \subseteq Tabs /\ child \subseteq u.child \cup {t} /\ (g \notin Sessions => child = u.child)
  BY <1>2, <1>3 DEF UiState
<1> HIDE DEF child, strip
<1>6. /\ m \in UiState /\ m.open = u.open /\ m.adopt = u.adopt /\ m.selected = u.selected
      /\ m.raised = u.raised /\ m.wanted = u.wanted /\ m.child = child /\ m.saved = u.saved
      /\ m.reordered = u.reordered /\ m.suppressed = u.suppressed
      /\ m.strip = [u.strip EXCEPT ![w] = strip] /\ m.tag = [u.tag EXCEPT ![t] = g]
  BY <1>2, <1>3, <1>4, <1>5 DEF UiState
<1> HIDE DEF m
<1>7. /\ u.strip \in [Windows -> Seq(Tabs)] /\ u.tag \in [Tabs -> Pages \cup {None}]
      /\ u.selected \in [Windows -> Tabs \cup {None}]
  BY <1>2 DEF UiState
<1>8. /\ m.strip[w] = strip /\ m.tag[t] = g
      /\ \A z \in Windows \ {w} : m.strip[z] = u.strip[z]
      /\ \A x \in Tabs \ {t} : m.tag[x] = u.tag[x]
  BY <1>2, <1>3, <1>6, <1>7
<1>9. InStrip(m, w) = InStrip(u, w) \cup {t}
  BY <1>4, <1>8 DEF InStrip
<1>10. Good(m, Windows \ {w}, {} \ {t})
  <2>1. Fits(m)
    BY <1>2, <1>6 DEF Fits
  <2>2. Good(u, Windows, {})
    BY DEF Fine
  <2>3. IsInjective(m.strip[w])
    BY <1>4, <1>8
  <2>4. \A z \in Windows : IF u.adopt[z] = t THEN m.adopt[z] = None ELSE m.adopt[z] = u.adopt[z]
    BY <1>3, <1>6
  <2>5. w \in u.open /\ t \in Tabs /\ m \in UiState /\ m.child \subseteq u.child \cup {t}
    BY <1>3, <1>5, <1>6
  <2> QED
    BY <1>3, <1>6, <1>8, <1>9, <2>1, <2>2, <2>3, <2>4, <2>5, TabAdded
<1>11. m.selected[w] # t
  <2>1. u.selected[w] \in InStrip(u, w) \cup {None}
    BY <1>2 DEF Fine, Good, Chosen
  <2> QED
    BY <1>2, <1>3, <1>6, <2>1, NoneAssumption
<1>12. Good(v, (Windows \ {w}) \cup {w}, {} \ {t})
  <2>1. w \in m.open /\ t \in InStrip(m, w)
    BY <1>6, <1>9
  <2> QED
    BY <1>10, <1>11, <2>1, SelectGood
<1>13. Fine(v)
  <2>1. (Windows \ {w}) \cup {w} = Windows /\ {} \ {t} = {}
    BY <1>2
  <2> QED
    BY <1>12, <2>1 DEF Fine
<1>14. Selects(m, w, t, v)
  <2>1. t \in Tabs \cup {None}
    BY <1>3
  <2> QED
    BY <1>2, <1>6, <2>1, SelectIs
<1> HIDE DEF v
<1>14a. AsIs(m, v) /\ v.selected[w] = t /\ v.suppressed = m.suppressed
  BY <1>14 DEF Selects
<1>14b. w # Primary => Untouched(u, v)
  <2> SUFFICES ASSUME w # Primary PROVE Untouched(u, v)
    OBVIOUS
  <2>1. InStrip(u, Primary) \subseteq Tabs \ {t} /\ m.strip[Primary] = u.strip[Primary]
    BY <1>2, <1>3, <1>8, Strips, WindowsAssumption
  <2>2. Untouched(u, m)
    BY <1>6, <1>8, <2>1 DEF Untouched
  <2>3. Untouched(m, v)
    BY <1>2, <1>14, SelectListed
  <2> QED
    BY <2>2, <2>3, UntouchedOn
<1>15. Added(u, w, t, g, v)
  <2>1. /\ v.open = u.open /\ v.adopt = u.adopt /\ v.tag[t] = g
        /\ \A z \in Windows \ {w} : v.strip[z] = u.strip[z]
        /\ InStrip(v, w) = InStrip(u, w) \cup {t}
        /\ \A x \in Tabs \ {t} : v.tag[x] = u.tag[x]
    BY <1>6, <1>8, <1>9, <1>14a DEF AsIs, InStrip
  <2>2. v.suppressed = u.suppressed /\ (g \notin Sessions => v.child = u.child)
    BY <1>5, <1>6, <1>14a DEF AsIs
  <2> QED
    BY <1>13, <1>14a, <1>14b, <2>1, <2>2 DEF Added
<1> QED
  BY <1>0, <1>1, <1>15

\* The tab found for a page has the page.
LEMMA FindTabIs ==
  ASSUME NEW u \in UiState, NEW w \in Windows, NEW g, OpenTabsOf(u, w, g) # {}
  PROVE  FindTab(u, w, g) \in InStrip(u, w) /\ u.tag[FindTab(u, w, g)] = g
<1>1. DOMAIN u.strip[w] = 1 .. Len(u.strip[w]) /\ Len(u.strip[w]) \in Nat
  BY Strips, LenProperties
<1>2. OpenTabsOf(u, w, g) \in SUBSET Nat
  BY <1>1 DEF OpenTabsOf
<1>3. Min(OpenTabsOf(u, w, g)) \in OpenTabsOf(u, w, g)
  BY <1>2, MinIs
<1> QED
  BY <1>3 DEF FindTab, OpenTabsOf, InStrip, ToSet

\* What opening, or focusing, a page changes.
Opened(u, w, g, v) ==
  \/ /\ AsIs(u, v) /\ Fine(v) /\ v.selected[w] \in InStrip(u, w) /\ u.tag[v.selected[w]] = g
     /\ g # "welcome" /\ Faithful(u, v) /\ v.suppressed = u.suppressed
     /\ w # Primary => Untouched(u, v)
  \/ \E t \in Free(u) : Added(u, w, t, g, v)

LEMMA RestoredIs ==
  ASSUME NEW u, Fine(u), NEW w \in u.open, NEW g \in Pages, Free(u) # {}
  PROVE  Opened(u, w, g, Restored(u, w, g))
<1>0. u \in UiState /\ w \in Windows
  BY DEF Fine, Good, UiState
<1>1. CASE AlreadyOpen(u, w, g)
  <2> DEFINE t == FindTab(u, w, g)
             v == Select(u, w, t)
  <2>1. t \in InStrip(u, w) /\ u.tag[t] = g
    BY <1>0, <1>1, FindTabIs DEF AlreadyOpen
  <2>2. t \in Tabs \cup {None}
    BY <1>0, <2>1, Strips
  <2> HIDE DEF t
  <2>3. /\ AsIs(u, v) /\ v.selected[w] = t /\ v.suppressed = u.suppressed /\ Faithful(u, v)
        /\ w # Primary => Untouched(u, v)
    <3>1. Selects(u, w, t, v)
      BY <1>0, <2>2, SelectIs
    <3> QED
      BY <1>0, <3>1, SelectListed DEF Selects
  <2>4. Good(v, Windows \cup {w}, {})
    BY <1>0, <2>1, SelectGood DEF Fine
  <2>5. Windows \cup {w} = Windows
    BY <1>0
  <2> HIDE DEF v
  <2>6. Opened(u, w, g, v)
    BY <1>1, <2>1, <2>3, <2>4, <2>5 DEF Opened, Fine, AlreadyOpen
  <2> QED
    BY <1>1, <2>6 DEF Restored, v, t
<1>2. CASE ~ AlreadyOpen(u, w, g)
  BY <1>2, AddTabIs DEF Restored, Opened
<1> QED
  BY <1>1, <1>2

LEMMA OpenPageIs ==
  ASSUME NEW u, Fine(u), NEW w \in u.open, NEW g \in Pages, Free(u) # {}
  PROVE  /\ Opened(u, w, g, OpenPage(u, w, g))
         /\ Passes(u, OpenPage(u, w, g))
         /\ g = "welcome" => Listed(u, w, OpenPage(u, w, g))
         /\ g = "welcome" /\ w = Primary => Listing(OpenPage(u, w, g))
<1>0. u \in UiState /\ w \in Windows
  BY DEF Fine, Good, UiState
<1>1. CASE AlreadyOpen(u, w, g)
  <2> DEFINE v == OpenPage(u, w, g)
  <2>1. Opened(u, w, g, v)
    BY <1>1, RestoredIs DEF Restored, OpenPage
  <2>2. v = Select(u, w, FindTab(u, w, g)) /\ g # "welcome"
    BY <1>1 DEF OpenPage, AlreadyOpen
  <2>3. FindTab(u, w, g) \in Tabs \cup {None}
    <3>1. FindTab(u, w, g) \in InStrip(u, w)
      BY <1>0, <1>1, FindTabIs DEF AlreadyOpen
    <3> QED
      BY <1>0, <3>1, Strips
  <2> HIDE DEF v
  <2>4. Passes(u, v)
    <3>1. Faithful(u, v) /\ Drops(u, v)
      BY <1>0, <2>2, <2>3, SelectIs, SelectListed
    <3> QED
      BY <3>1, DropsHides DEF Passes
  <2> QED
    BY <2>1, <2>2, <2>4 DEF v
<1>2. CASE ~ AlreadyOpen(u, w, g)
  <2> DEFINE m == AddTab(u, w, g)
             v == PersistOpenTabs(m, w)
  <2>0. OpenPage(u, w, g) = v
    BY <1>2 DEF OpenPage
  <2>1. PICK t \in Free(u) : Added(u, w, t, g, m)
    BY AddTabIs
  <2> HIDE DEF m
  <2>2. Good(m, Windows, {})
    BY <2>1 DEF Added, Fine
  <2>3. /\ Good(v, Windows, {}) /\ AsIs(m, v) /\ v.selected = m.selected /\ v.suppressed = m.suppressed
        /\ IF w = Primary THEN Written(v) /\ Listing(v) ELSE v = m
    BY <1>0, <2>2, PersistIs DEF Saves
  <2> HIDE DEF v
  <2>4. w # Primary => Untouched(u, v)
    BY <2>1, <2>3 DEF Added
  <2>5. Added(u, w, t, g, v)
    BY <2>1, <2>3, <2>4 DEF Added, AsIs, Fine, InStrip
  <2>6. Listed(u, w, v) /\ (w = Primary => Listing(v))
    BY <2>3, <2>4 DEF Listed
  <2>7. Passes(u, v)
    BY <2>5, <2>6 DEF Listed, Faithful, Passes, Hides, Added
  <2> QED
    BY <2>0, <2>5, <2>6, <2>7 DEF Opened
<1> QED
  BY <1>1, <1>2

----------------------------------------------------------------------------
(* A tab less.                                                              *)

\* A tab is taken out of a strip, its neighbour selected if it was.
LEMMA TabRemoved ==
  ASSUME NEW u, NEW S, NEW X, Good(u, S, X), NEW w \in u.open, NEW t \in InStrip(u, w),
         NEW m \in UiState, Fits(m), m.open = u.open, m.adopt = u.adopt,
         \A z \in Windows \ {w} : m.strip[z] = u.strip[z],
         IsInjective(m.strip[w]), InStrip(m, w) = InStrip(u, w) \ {t},
         \A z \in Windows \ {w} : m.selected[z] = u.selected[z],
         \/ m.selected[w] = u.selected[w] /\ u.selected[w] # t /\ m.raised = u.raised
         \/ /\ m.raised = u.raised \cup {w}
            /\ m.selected[w] \in InStrip(m, w) \/ (m.selected[w] = None /\ InStrip(m, w) = {}),
         m.wanted = u.wanted, m.tag = u.tag, m.child = u.child
  PROVE  Good(m, S, X \cup {t})
<1>0. u \in UiState /\ w \in Windows /\ u.open \subseteq Windows
  BY DEF Good, UiState
<1>1. \A z \in Windows \ {w} : InStrip(m, z) = InStrip(u, z)
  BY DEF InStrip
<1>2. \A z \in Windows : /\ None \notin InStrip(u, z)
                         /\ m.strip[z] = <<>> <=> InStrip(m, z) = {}
                         /\ u.strip[z] = <<>> <=> InStrip(u, z) = {}
  BY <1>0, Strips
<1>3. Apart(m)
  <2>1. \A z \in Windows : IsInjective(m.strip[z])
    BY DEF Good, Apart
  <2>2. \A y, z \in Windows : y # z => InStrip(m, y) \cap InStrip(m, z) = {}
    BY <1>0, <1>1 DEF Good, Apart
  <2>3. \A y, z \in Windows : m.adopt[y] # None =>
          m.adopt[y] \notin InStrip(m, z) /\ (m.adopt[z] = m.adopt[y] => z = y)
    BY <1>0, <1>1 DEF Good, Apart
  <2> QED
    BY <2>1, <2>2, <2>3 DEF Apart
<1>4. Shut(m)
  BY <1>0 DEF Good, Shut
<1>5. Chosen(m, S)
  <2>1. \A z \in Windows \ {w} : \/ m.selected[z] \in InStrip(m, z)
                                 \/ m.selected[z] = None /\ (m.strip[z] = <<>> \/ z \notin S)
    BY <1>1 DEF Good, Chosen
  <2>2. \/ m.selected[w] \in InStrip(m, w)
        \/ m.selected[w] = None /\ (m.strip[w] = <<>> \/ w \notin S)
    <3>1. CASE m.selected[w] = u.selected[w] /\ u.selected[w] # t
      BY <1>0, <1>2, <3>1 DEF Good, Chosen
    <3>2. CASE m.selected[w] \in InStrip(m, w) \/ (m.selected[w] = None /\ InStrip(m, w) = {})
      BY <1>0, <1>2, <3>2
    <3> QED
      BY <3>1, <3>2
  <2> QED
    BY <2>1, <2>2 DEF Chosen
<1>6. Shown(m, S)
  <2> SUFFICES ASSUME NEW z \in (m.open \cap S) \ m.raised, NEW x \in SessionTabs(m, z)
               PROVE  x \in m.wanted <=> m.selected[z] = x
    BY DEF Shown
  <2>1. z \in Windows /\ z \in (u.open \cap S) \ u.raised /\ m.selected[z] = u.selected[z]
    BY <1>0
  <2>2. x \in SessionTabs(u, z)
    BY <1>1, <2>1 DEF SessionTabs
  <2> QED
    BY <2>1, <2>2 DEF Good, Shown
<1>7. Owned(m, X \cup {t})
  <2> SUFFICES ASSUME NEW x \in m.child \ (X \cup {t})
               PROVE  \E z \in m.open : x \in InStrip(m, z) \/ m.adopt[z] = x
    BY DEF Owned
  <2>1. PICK z \in u.open : x \in InStrip(u, z) \/ u.adopt[z] = x
    BY DEF Good, Owned
  <2> QED
    BY <1>0, <1>1, <2>1
<1> QED
  BY <1>3, <1>4, <1>5, <1>6, <1>7 DEF Good

\* What taking a tab out of a strip changes.
Removed(u, S, X, w, t, v) ==
  /\ Good(v, S, X \cup {t})
  /\ v.open = u.open /\ v.adopt = u.adopt /\ v.tag = u.tag /\ v.child = u.child
  /\ \A z \in Windows \ {w} : v.strip[z] = u.strip[z]
  /\ InStrip(v, w) = InStrip(u, w) \ {t}
  /\ v.selected[w] = u.selected[w] \/ w \in v.raised
  /\ Drops(u, v) /\ (w # Primary => Untouched(u, v))

LEMMA RemoveItemIs ==
  ASSUME NEW u, NEW S, NEW X, Good(u, S, X), NEW w \in u.open, NEW t \in InStrip(u, w)
  PROVE  Removed(u, S, X, w, t, RemoveItem(u, w, t))
<1> DEFINE i == PlaceOf(u, w, t)
           rest == RemoveAt(u.strip[w], i)
           next == CASE rest = <<>>     -> None
                     [] i <= Len(rest)  -> rest[i]
                     [] OTHER           -> Last(rest)
           m == [u EXCEPT !.strip[w] = rest]
           v == IF u.selected[w] = t THEN Select(m, w, next) ELSE m
<1>0. RemoveItem(u, w, t) = v
  BY DEF RemoveItem
<1>1. /\ u \in UiState /\ w \in Windows /\ IsInjective(u.strip[w]) /\ Fits(u)
      /\ u.strip[w] \in Seq(Tabs)
  BY Strips DEF Good, UiState, Apart
<1>2. i \in DOMAIN u.strip[w] /\ u.strip[w][i] = t /\ i \in Nat \ {0}
  <2>1. \E j \in DOMAIN u.strip[w] : u.strip[w][j] = t
    BY DEF InStrip, ToSet
  <2>2. DOMAIN u.strip[w] = 1 .. Len(u.strip[w]) /\ Len(u.strip[w]) \in Nat
    BY <1>1, LenProperties
  <2> QED
    BY <2>1, <2>2 DEF PlaceOf
<1> HIDE DEF i
<1>3. rest \in Seq(Tabs) /\ IsInjective(rest) /\ ToSet(rest) = InStrip(u, w) \ {t}
  BY <1>1, <1>2, RemoveAtIs DEF InStrip
<1> HIDE DEF rest
<1>4. next \in ToSet(rest) \/ (next = None /\ ToSet(rest) = {})
  <2>1. DOMAIN rest = 1 .. Len(rest) /\ Len(rest) \in Nat /\ (rest # <<>> => 1 <= Len(rest))
    BY <1>3, LenProperties, EmptySeq
  <2>2. CASE rest = <<>>
    <3>1. Len(rest) = 0
      BY <2>2
    <3>2. DOMAIN rest = {}
      BY <2>1, <3>1
    <3>3. ToSet(rest) = {}
      BY <3>2 DEF ToSet
    <3>4. next = None
      BY <2>2, <3>1, <1>2
    <3> HIDE DEF next
    <3> QED
      BY <3>3, <3>4
  <2>3. CASE rest # <<>> /\ i <= Len(rest)
    <3>1. i \in DOMAIN rest
      BY <1>2, <2>1, <2>3
    <3> QED
      BY <2>3, <3>1 DEF ToSet
  <2>4. CASE rest # <<>> /\ ~ (i <= Len(rest))
    <3>1. Len(rest) \in DOMAIN rest
      BY <2>1, <2>4
    <3> QED
      BY <2>4, <3>1 DEF ToSet, Last
  <2> QED
    BY <2>2, <2>3, <2>4
<1> HIDE DEF next
<1>5. /\ m \in UiState /\ m.open = u.open /\ m.adopt = u.adopt /\ m.selected = u.selected
      /\ m.raised = u.raised /\ m.wanted = u.wanted /\ m.child = u.child /\ m.tag = u.tag
      /\ m.saved = u.saved /\ m.strip[w] = rest
      /\ m.reordered = u.reordered /\ m.suppressed = u.suppressed
      /\ \A z \in Windows \ {w} : m.strip[z] = u.strip[z]
  BY <1>1, <1>3 DEF UiState
<1> HIDE DEF m
<1>5a. Drops(u, m) /\ (w # Primary => Untouched(u, m))
  BY <1>5, WindowsAssumption DEF Drops, Untouched
<1>6. InStrip(m, w) = InStrip(u, w) \ {t} /\ IsInjective(m.strip[w])
  BY <1>3, <1>5 DEF InStrip
<1>7. Fits(m)
  BY <1>1, <1>5 DEF Fits
<1>8. CASE u.selected[w] # t
  <2>1. v = m
    BY <1>8
  <2>2. Good(m, S, X \cup {t})
    BY <1>5, <1>6, <1>7, <1>8, TabRemoved
  <2>3. Removed(u, S, X, w, t, m)
    BY <1>5, <1>5a, <1>6, <2>2 DEF Removed
  <2> QED
    BY <1>0, <2>1, <2>3
<1>9. CASE u.selected[w] = t
  <2> DEFINE x == Select(m, w, next)
  <2>1. next \in Tabs \cup {None} /\ next # t
    <3>1. None \notin InStrip(u, w) /\ InStrip(u, w) \subseteq Tabs
      BY <1>1, Strips
    <3> QED
      BY <1>3, <1>4, <3>1
  <2>2. Selects(m, w, next, x)
    BY <1>1, <1>5, <2>1, SelectIs
  <2> HIDE DEF x
  <2>3. /\ x \in UiState /\ x.open = u.open /\ x.adopt = u.adopt
        /\ x.strip = m.strip /\ x.selected[w] = next /\ x.raised = u.raised \cup {w}
        /\ x.wanted = u.wanted /\ x.child = u.child /\ x.tag = u.tag /\ x.saved = u.saved
        /\ \A z \in Windows \ {w} : x.selected[z] = u.selected[z]
    BY <1>5, <1>9, <2>1, <2>2 DEF Selects, AsIs
  <2>4. InStrip(x, w) = InStrip(m, w) /\ Fits(x) /\ ToSet(rest) = InStrip(x, w)
    BY <1>1, <1>5, <2>3 DEF InStrip, Fits
  <2>5. /\ \A z \in Windows \ {w} : x.strip[z] = u.strip[z]
        /\ IsInjective(x.strip[w]) /\ InStrip(x, w) = InStrip(u, w) \ {t}
        /\ x.selected[w] \in InStrip(x, w) \/ (x.selected[w] = None /\ InStrip(x, w) = {})
    BY <1>4, <1>5, <1>6, <2>3, <2>4
  <2>6. Good(x, S, X \cup {t})
    BY <2>3, <2>4, <2>5, TabRemoved
  <2>7. Drops(u, x) /\ (w # Primary => Untouched(u, x))
    <3>1. Drops(m, x) /\ (w # Primary => Untouched(m, x))
      BY <1>1, <2>2, SelectListed
    <3> QED
      BY <1>5a, <3>1, DropsOn, UntouchedOn
  <2>8. Removed(u, S, X, w, t, x)
    BY <2>3, <2>5, <2>6, <2>7 DEF Removed
  <2> QED
    BY <1>0, <1>9, <2>8 DEF x
<1> QED
  BY <1>8, <1>9

\* A page is shut down.
WithoutPage(u, t) ==
  [u EXCEPT !.tag[t] = None, !.child = @ \ {t}, !.wanted = @ \ {t}, !.suppressed = @ \ {t}]

Shuts(u, S, X, t, m) ==
  /\ Good(m, S, X) /\ m.open = u.open /\ m.adopt = u.adopt /\ m.strip = u.strip
  /\ m.selected = u.selected /\ m.raised = u.raised
  /\ m.child = u.child \ {t} /\ m.tag[t] = None /\ \A x \in Tabs \ {t} : m.tag[x] = u.tag[x]
  /\ Drops(u, m) /\ (t \notin InStrip(u, Primary) => Untouched(u, m))

LEMMA ShutIs ==
  ASSUME NEW u, NEW S, NEW X, Good(u, S, X), NEW t \in Tabs
  PROVE  Shuts(u, S, X, t, WithoutPage(u, t))
<1> DEFINE m == WithoutPage(u, t)
<1>0. u \in UiState
  BY DEF Good
<1>1. /\ m \in UiState /\ m.open = u.open /\ m.adopt = u.adopt /\ m.strip = u.strip
      /\ m.selected = u.selected /\ m.raised = u.raised
      /\ m.child = u.child \ {t} /\ m.tag[t] = None /\ \A x \in Tabs \ {t} : m.tag[x] = u.tag[x]
      /\ m.wanted = u.wanted \ {t} /\ m.saved = u.saved
      /\ m.suppressed = u.suppressed \ {t} /\ m.reordered = u.reordered
  BY <1>0 DEF UiState, WithoutPage
<1> HIDE DEF m
<1>2. \A z \in Windows : InStrip(m, z) = InStrip(u, z) /\ InStrip(u, z) \subseteq Tabs
  BY <1>0, <1>1, Strips DEF InStrip
<1>3. Apart(m) /\ Shut(m) /\ Chosen(m, S) /\ Owned(m, X) /\ Fits(m)
  <2>1. Apart(m)
    BY <1>1, <1>2 DEF Good, Apart
  <2>2. Shut(m)
    BY <1>1 DEF Good, Shut
  <2>3. Chosen(m, S)
    BY <1>1, <1>2 DEF Good, Chosen
  <2>4. Owned(m, X)
    <3>1. u.open \subseteq Windows
      BY <1>0 DEF UiState
    <3> QED
      BY <1>1, <1>2, <3>1 DEF Good, Owned
  <2>5. Fits(m)
    BY <1>1 DEF Good, Fits
  <2> QED
    BY <2>1, <2>2, <2>3, <2>4, <2>5
<1>4. Shown(m, S)
  <2> SUFFICES ASSUME NEW z \in (m.open \cap S) \ m.raised, NEW x \in SessionTabs(m, z)
               PROVE  x \in m.wanted <=> m.selected[z] = x
    BY DEF Shown
  <2>1. z \in Windows /\ z \in (u.open \cap S) \ u.raised
    BY <1>0, <1>1 DEF UiState
  <2>2. x # t
    BY <1>1, NoneAssumption DEF SessionTabs, Pages
  <2>3. x \in SessionTabs(u, z)
    BY <1>1, <1>2, <2>1, <2>2 DEF SessionTabs
  <2> QED
    BY <1>1, <2>1, <2>2, <2>3 DEF Good, Shown
<1>5. Drops(u, m) /\ (t \notin InStrip(u, Primary) => Untouched(u, m))
  <2>1. InStrip(u, Primary) \subseteq Tabs
    BY <1>2, WindowsAssumption
  <2> QED
    BY <1>1, <2>1 DEF Drops, Untouched
<1> QED
  BY <1>1, <1>3, <1>4, <1>5 DEF Good, Shuts, m

\* What the first half of closing a tab changes: the page, and the strip.
PageClosed(u, S, X, w, t, v) ==
  /\ Good(v, S, X)
  /\ v.open = u.open /\ v.adopt = u.adopt
  /\ \A z \in Windows \ {w} : v.strip[z] = u.strip[z]
  /\ InStrip(v, w) = InStrip(u, w) \ {t}
  /\ v.selected[w] = u.selected[w] \/ w \in v.raised
  /\ v.tag[t] = None /\ \A x \in Tabs \ {t} : v.tag[x] = u.tag[x]
  /\ Drops(u, v) /\ (w # Primary /\ t \notin InStrip(u, Primary) => Untouched(u, v))

LEMMA PageClosedIs ==
  ASSUME NEW u, NEW S, NEW X, Good(u, S, X), NEW w \in u.open, NEW t \in Tabs, t \notin X,
         NEW c, c = IF t \in InStrip(u, w) THEN RemoveItem(WithoutPage(u, t), w, t)
                    ELSE WithoutPage(u, t)
  PROVE  PageClosed(u, S, X, w, t, c)
<1> DEFINE m == WithoutPage(u, t)
<1> HIDE DEF m
<1>1. /\ Good(m, S, X) /\ m.open = u.open /\ m.adopt = u.adopt /\ m.strip = u.strip
      /\ m.selected = u.selected /\ m.raised = u.raised
      /\ m.child = u.child \ {t} /\ m.tag[t] = None /\ \A x \in Tabs \ {t} : m.tag[x] = u.tag[x]
      /\ Drops(u, m) /\ (t \notin InStrip(u, Primary) => Untouched(u, m))
  <2>1. Shuts(u, S, X, t, m)
    BY ShutIs DEF m
  <2> QED
    BY <2>1 DEF Shuts
<1>2. w \in Windows /\ InStrip(m, w) = InStrip(u, w)
  BY <1>1 DEF Good, UiState, InStrip
<1>3. CASE t \notin InStrip(u, w)
  <2>1. c = m
    BY <1>3 DEF m
  <2>2. PageClosed(u, S, X, w, t, m)
    BY <1>1, <1>2, <1>3 DEF PageClosed
  <2> QED
    BY <2>1, <2>2
<1>4. CASE t \in InStrip(u, w)
  <2>1. c = RemoveItem(m, w, t)
    BY <1>4 DEF m
  <2>2. Removed(m, S, X, w, t, c)
    BY <1>1, <1>2, <1>4, <2>1, RemoveItemIs
  <2>3. t \notin c.child
    BY <1>1, <2>2 DEF Removed
  <2>4. Owned(c, X)
    BY <2>2, <2>3 DEF Removed, Good, Owned
  <2>5. Good(c, S, X)
    BY <2>2, <2>4 DEF Removed, Good
  <2>6. Drops(u, c) /\ (w # Primary /\ t \notin InStrip(u, Primary) => Untouched(u, c))
    <3>1. Drops(m, c) /\ (w # Primary => Untouched(m, c))
      BY <2>2 DEF Removed
    <3> QED
      BY <1>1, <3>1, DropsOn, UntouchedOn
  <2> QED
    BY <1>1, <1>2, <2>2, <2>5, <2>6 DEF PageClosed, Removed
<1> QED
  BY <1>3, <1>4

\* Closing a tab that leaves another one in the strip.
LEMMA CloseKeeps ==
  ASSUME NEW u, NEW S, NEW X, Good(u, S, X), NEW w \in u.open, NEW t \in Tabs, t \notin X,
         InStrip(u, w) \ {t} # {}
  PROVE  /\ PageClosed(u, S, X, w, t, CloseTabItem(u, w, t))
         /\ w = Primary => Written(CloseTabItem(u, w, t))
<1> DEFINE m == WithoutPage(u, t)
           c == IF t \in InStrip(u, w) THEN RemoveItem(m, w, t) ELSE m
           v == PersistOpenTabs(c, w)
<1>1. PageClosed(u, S, X, w, t, c)
  BY PageClosedIs
<1>2. CloseTabItem(u, w, t) = IF c.strip[w] # <<>> THEN v ELSE CloseTabItem(u, w, t)
  BY DEF CloseTabItem, WithoutPage
<1> HIDE DEF c
<1>3. w \in Windows /\ c \in UiState
  BY <1>1 DEF Good, UiState, PageClosed
<1>4. c.strip[w] # <<>>
  BY <1>1, <1>3, Strips DEF PageClosed
<1>5. Saves(c, S, X, v) /\ IF w = Primary THEN Written(v) ELSE v = c
  <2>1. Good(c, S, X)
    BY <1>1 DEF PageClosed
  <2> QED
    BY <1>3, <2>1, PersistIs
<1> HIDE DEF v
<1>6. Drops(u, v) /\ (w # Primary /\ t \notin InStrip(u, Primary) => Untouched(u, v))
  BY <1>1, <1>5 DEF PageClosed, Saves, AsIs, Drops
<1>7. PageClosed(u, S, X, w, t, v)
  BY <1>1, <1>5, <1>6 DEF PageClosed, Saves, AsIs, InStrip
<1> QED
  BY <1>2, <1>4, <1>5, <1>7 DEF v

\* A window closes, with its sessions.
WindowClosed(u, w, v) ==
  /\ Fine(v) /\ v.open = u.open \ {w} /\ v.adopt = u.adopt
  /\ \A z \in Windows \ {w} : v.strip[z] = u.strip[z]
  /\ v.strip[w] = <<>>
  /\ NoNew(u, v) /\ Listed(u, w, v) /\ Drops(u, v)

LEMMA CloseWindowIs ==
  ASSUME NEW u, Fine(u), NEW w \in u.open, u.adopt[w] = None
  PROVE  WindowClosed(u, w, CloseWindow(u, w))
<1> DEFINE gone == InStrip(u, w) \ Carried
           tag == [t \in Tabs |-> IF t \in gone THEN None ELSE u.tag[t]]
           v == CloseWindow(u, w)
<1>0. u \in UiState /\ w \in Windows /\ u.open \subseteq Windows /\ gone \subseteq InStrip(u, w)
  BY DEF Fine, Good, UiState
<1>1. tag \in [Tabs -> Pages \cup {None}] /\ \A t \in Tabs : tag[t] = IF t \in gone THEN None ELSE u.tag[t]
  BY <1>0 DEF UiState
<1>2. v = [u EXCEPT !.open = @ \ {w}, !.strip[w] = <<>>, !.selected[w] = None,
                    !.raised = @ \ {w}, !.depth[w] = 0, !.child = @ \ InStrip(u, w),
                    !.wanted = @ \ gone, !.suppressed = @ \ gone, !.tag = tag]
  BY DEF CloseWindow
<1> HIDE DEF v, gone, tag
<1>3. <<>> \in Seq(Tabs) /\ 0 \in 0 .. MaxDialogs
  BY DialogsAssumption
<1>4. /\ v \in UiState /\ v.open = u.open \ {w} /\ v.adopt = u.adopt
      /\ v.raised = u.raised \ {w} /\ v.child = u.child \ InStrip(u, w)
      /\ v.wanted = u.wanted \ gone /\ v.tag = tag /\ v.saved = u.saved
      /\ v.suppressed = u.suppressed \ gone /\ v.reordered = u.reordered
      /\ v.strip[w] = <<>> /\ v.selected[w] = None
      /\ \A z \in Windows \ {w} : v.strip[z] = u.strip[z] /\ v.selected[z] = u.selected[z]
  BY ZenonT(60), <1>0, <1>1, <1>2, <1>3 DEF UiState
<1>5. InStrip(v, w) = {} /\ \A z \in Windows \ {w} : InStrip(v, z) = InStrip(u, z)
  <2>1. InStrip(v, w) = {}
    BY <1>0, <1>4, Strips
  <2> QED
    BY <1>4, <2>1 DEF InStrip
<1>6. Apart(v)
  <2>1. \A z \in Windows : IsInjective(v.strip[z])
    <3>1. IsInjective(<<>>)
      BY DEF IsInjective
    <3> QED
      BY <1>4, <3>1 DEF Fine, Good, Apart
  <2>2. \A y, z \in Windows : y # z => InStrip(v, y) \cap InStrip(v, z) = {}
    BY <1>5 DEF Fine, Good, Apart
  <2>3. \A y, z \in Windows : v.adopt[y] # None =>
          v.adopt[y] \notin InStrip(v, z) /\ (v.adopt[z] = v.adopt[y] => z = y)
    BY <1>4, <1>5 DEF Fine, Good, Apart
  <2> QED
    BY <2>1, <2>2, <2>3 DEF Apart
<1>7. Shut(v)
  BY <1>4 DEF Fine, Good, Shut
<1>8. Chosen(v, Windows)
  BY <1>4, <1>5 DEF Fine, Good, Chosen
<1>9. Shown(v, Windows)
  <2> SUFFICES ASSUME NEW z \in (v.open \cap Windows) \ v.raised, NEW x \in SessionTabs(v, z)
               PROVE  x \in v.wanted <=> v.selected[z] = x
    BY DEF Shown
  <2>1. z \in Windows \ {w} /\ z \in (u.open \cap Windows) \ u.raised
    BY <1>0, <1>4
  <2>2. x \in InStrip(u, z) /\ x \in Tabs
    BY <1>0, <1>5, <2>1, Strips DEF SessionTabs
  <2>3. x \notin gone
    BY <1>0, <2>1, <2>2 DEF Fine, Good, Apart
  <2>4. x \in SessionTabs(u, z)
    BY <1>1, <1>4, <2>2, <2>3 DEF SessionTabs
  <2> QED
    BY <1>4, <2>1, <2>3, <2>4 DEF Fine, Good, Shown
<1>10. Owned(v, {})
  <2> SUFFICES ASSUME NEW x \in v.child \ {}
               PROVE  \E z \in v.open : x \in InStrip(v, z) \/ v.adopt[z] = x
    BY DEF Owned
  <2>1. x \in u.child /\ x \notin InStrip(u, w) /\ x # None
    <3>1. x \in Tabs
      BY <1>0, <1>4 DEF UiState
    <3> QED
      BY <1>4, <3>1, NoneAssumption
  <2>2. PICK z \in u.open : x \in InStrip(u, z) \/ u.adopt[z] = x
    BY <2>1 DEF Fine, Good, Owned
  <2>3. z # w
    BY <2>1, <2>2
  <2> QED
    BY <1>0, <1>4, <1>5, <2>2, <2>3
<1>11. Fits(v)
  BY <1>4 DEF Fine, Good, Fits
<1>12. Fine(v)
  BY <1>4, <1>6, <1>7, <1>8, <1>9, <1>10, <1>11 DEF Fine, Good
<1>13. NoNew(u, v)
  <2>1. None \notin Sessions
    BY NoneAssumption DEF Pages
  <2> QED
    BY <1>1, <1>4, <2>1 DEF NoNew
<1>14. Drops(u, v)
  BY <1>0, <1>4 DEF Drops
<1>15. Listed(u, w, v)
  <2>1. CASE w = Primary
    BY <1>4, <2>1 DEF Listed, Written
  <2>2. CASE w # Primary
    <3>1. \A t \in InStrip(u, Primary) : t \in Tabs /\ t \notin gone
      BY <1>0, <2>2, Strips, WindowsAssumption DEF Fine, Good, Apart
    <3> QED
      BY <1>1, <1>4, <2>2, <3>1, WindowsAssumption DEF Listed, Untouched
  <2> QED
    BY <2>1, <2>2
<1> QED
  BY <1>4, <1>12, <1>13, <1>14, <1>15 DEF WindowClosed, v

\* What closing a tab changes: it leaves the strip; if it was the only one, a
\* welcome tab is there instead, or the window is gone.
TabClosed(u, w, t, v) ==
  /\ Fine(v) /\ v.adopt = u.adopt /\ NoNew(u, v)
  /\ \A z \in Windows \ {w} : v.strip[z] = u.strip[z]
  /\ \/ /\ v.open = u.open
        /\ InStrip(v, w) = InStrip(u, w) \ {t} /\ InStrip(v, w) # {}
        /\ \A x \in Tabs \ {t} : v.tag[x] = u.tag[x]
     \/ v.open = u.open /\ InStrip(u, w) = {t} /\ v.strip[w] # <<>>
     \/ v.open = u.open \ {w} /\ InStrip(u, w) = {t}
  /\ Listed(u, w, v) /\ Drops(u, v)
  /\ InStrip(v, w) \cap Carried \subseteq InStrip(u, w)

LEMMA CloseTabIs ==
  ASSUME NEW u, Fine(u), NEW w \in u.open, u.adopt[w] = None, NEW t \in InStrip(u, w),
         Free(u) # {} \/ Carried = {}
  PROVE  TabClosed(u, w, t, CloseTabItem(u, w, t))
<1> DEFINE m == WithoutPage(u, t)
           c == IF t \in InStrip(u, w) THEN RemoveItem(m, w, t) ELSE m
           v == CloseTabItem(u, w, t)
<1>0. u \in UiState /\ w \in Windows /\ t \in Tabs /\ Good(u, Windows, {})
  <2>1. u \in UiState /\ w \in Windows
    BY DEF Fine, Good, UiState
  <2> QED
    BY <2>1, Strips DEF Fine
<1>1. None \notin Sessions /\ "welcome" \notin Sessions /\ "welcome" \in Pages
  BY NoneAssumption, PagesAssumption DEF Pages
<1>1a. w # Primary => t \notin InStrip(u, Primary)
  BY <1>0, WindowsAssumption DEF Good, Apart
<1>2. CASE InStrip(u, w) \ {t} # {}
  <2>1. PageClosed(u, Windows, {}, w, t, v) /\ (w = Primary => Written(v))
    BY <1>0, <1>2, CloseKeeps
  <2> HIDE DEF v
  <2>1a. Listed(u, w, v)
    BY <1>1a, <2>1 DEF PageClosed, Listed
  <2>2. NoNew(u, v)
    BY <1>1, <2>1 DEF NoNew, PageClosed
  <2>3. TabClosed(u, w, t, v)
    BY <1>2, <2>1, <2>1a, <2>2 DEF TabClosed, PageClosed, Fine
  <2> QED
    BY <2>3 DEF v
<1>3. CASE InStrip(u, w) \ {t} = {}
  <2>1. PageClosed(u, Windows, {}, w, t, c)
    BY <1>0, PageClosedIs
  <2>2. v = CASE c.strip[w] # <<>> -> PersistOpenTabs(c, w)
              [] c.strip[w] = <<>> /\ u.tag[t] \in Sessions -> OpenPage(c, w, "welcome")
              [] OTHER -> CloseWindow(c, w)
    BY DEF CloseTabItem, WithoutPage
  <2> HIDE DEF c, v
  <2>3. InStrip(c, w) = {} /\ InStrip(u, w) = {t} /\ c \in UiState /\ Fine(c)
        /\ c.open = u.open /\ c.adopt = u.adopt
    BY <1>3, <2>1 DEF PageClosed, Good, Fine
  <2>4. c.strip[w] = <<>>
    BY <1>0, <2>3, Strips
  <2>5. NoNew(u, c)
    BY <1>1, <2>1 DEF NoNew, PageClosed
  <2>5a. Drops(u, c) /\ (w # Primary => Untouched(u, c))
    BY <1>1a, <2>1 DEF PageClosed
  <2>6. CASE u.tag[t] \in Sessions
    <3>1. v = OpenPage(c, w, "welcome")
      BY <2>2, <2>4, <2>6
    <3>2. Free(c) # {}
      <4>1. \A z \in Windows : InStrip(c, z) \subseteq InStrip(u, z)
        BY <2>1 DEF PageClosed, InStrip
      <4>2. CASE Free(u) # {}
        BY <2>3, <4>1, <4>2 DEF Free
      <4>3. CASE Carried = {}
        <5>1. \A z \in Windows : t \notin InStrip(c, z)
          BY <1>0, <2>3, <4>1 DEF Fine, Good, Apart
        <5>2. \A z \in Windows : u.adopt[z] # t
          BY <1>0, NoneAssumption DEF Fine, Good, Apart
        <5> QED
          BY <1>0, <2>3, <4>3, <5>1, <5>2 DEF Free
      <4> QED
        BY <4>2, <4>3
    <3>3. Opened(c, w, "welcome", v) /\ Listed(c, w, v)
      BY <1>1, <2>3, <3>1, <3>2, OpenPageIs
    <3>4. PICK x \in Free(c) : Added(c, w, x, "welcome", v)
      BY <3>3 DEF Opened
    <3>5. NoNew(u, v)
      BY <1>1, <2>5, <3>4 DEF NoNew, Added
    <3>6. v \in UiState /\ x \in InStrip(v, w)
      BY <3>4 DEF Added, Fine, Good
    <3>7. v.strip[w] # <<>>
      BY <1>0, <3>6, Strips
    <3>8. \A z \in Windows \ {w} : v.strip[z] = u.strip[z]
      BY <2>1, <3>4 DEF PageClosed, Added
    <3>8a. Drops(c, v)
      BY <1>1, <3>4 DEF Added, Drops
    <3>8b. Drops(u, v) /\ Listed(u, w, v)
      BY <2>5a, <3>3, <3>8a, DropsOn, UntouchedOn DEF Listed
    <3>8c. InStrip(v, w) \cap Carried \subseteq InStrip(u, w)
      BY <2>3, <3>4, FreeIs DEF Added
    <3>9. TabClosed(u, w, t, v)
      BY <2>3, <3>4, <3>5, <3>7, <3>8, <3>8b, <3>8c DEF TabClosed, Added
    <3> QED
      BY <3>9 DEF v
  <2>7. CASE u.tag[t] \notin Sessions
    <3>1. v = CloseWindow(c, w)
      BY <2>2, <2>4, <2>7
    <3>2. WindowClosed(c, w, v)
      BY <2>3, <3>1, CloseWindowIs
    <3>3. NoNew(u, v)
      BY <2>5, <3>2 DEF NoNew, WindowClosed
    <3>4. \A z \in Windows \ {w} : v.strip[z] = u.strip[z]
      BY <2>1, <3>2 DEF PageClosed, WindowClosed
    <3>4a. Drops(u, v) /\ Listed(u, w, v)
      BY <2>5a, <3>2, DropsOn, UntouchedOn DEF Listed, WindowClosed
    <3>4b. InStrip(v, w) = {}
      BY <1>0, <3>2, Strips DEF WindowClosed, Fine, Good
    <3>5. TabClosed(u, w, t, v)
      BY <2>3, <3>2, <3>3, <3>4, <3>4a, <3>4b DEF TabClosed, WindowClosed
    <3> QED
      BY <3>5 DEF v
  <2> QED
    BY <2>6, <2>7
<1> QED
  BY <1>2, <1>3

----------------------------------------------------------------------------
(* Handlers.                                                                *)

\* A handler is done: everything is in order again.
Done(v) == Fine(v) /\ Filled(v)

LEMMA ReplaceIs ==
  ASSUME NEW u, Fine(u), Filled(u), NEW w \in u.open, u.adopt[w] = None, Free(u) # {},
         NEW t \in Tabs, t \in Carried, u.tag[t] \notin Sessions, NEW g \in Sessions,
         w # Primary => t \notin InStrip(u, Primary)
  PROVE  Done(ReplaceTabWith(u, w, t, g)) /\ Passes(u, ReplaceTabWith(u, w, t, g))
<1> DEFINE o == OpenPage(u, w, g)
           page == o.selected[w]
           c == CloseTabItem(o, w, t)
           v == Select(c, w, page)
<1>0. u \in UiState /\ w \in Windows /\ u.open \subseteq Windows
  BY DEF Fine, Good, UiState
<1>1. Opened(u, w, g, o)
  <2>1. g \in Pages
    BY DEF Pages
  <2> QED
    BY <2>1, OpenPageIs
<1> HIDE DEF o
<1>2. /\ Fine(o) /\ o.open = u.open /\ o.adopt = u.adopt
      /\ \A z \in Windows \ {w} : o.strip[z] = u.strip[z]
      /\ page \in InStrip(o, w) /\ page # t
      /\ o.suppressed = u.suppressed /\ (w # Primary => Untouched(u, o))
  <2>1. CASE /\ AsIs(u, o) /\ Fine(o) /\ o.selected[w] \in InStrip(u, w) /\ u.tag[o.selected[w]] = g
             /\ o.suppressed = u.suppressed /\ (w # Primary => Untouched(u, o))
    BY <2>1 DEF AsIs, InStrip
  <2>2. CASE \E x \in Free(u) : Added(u, w, x, g, o)
    <3>1. PICK x \in Free(u) : Added(u, w, x, g, o)
      BY <2>2
    <3>2. x # t
      BY <3>1, FreeIs
    <3> QED
      BY <3>1, <3>2 DEF Added
  <2> QED
    BY <1>1, <2>1, <2>2 DEF Opened
<1> HIDE DEF page
<1>3. PageClosed(o, Windows, {}, w, t, c) /\ (w = Primary => Written(c))
  <2>1. Good(o, Windows, {}) /\ w \in o.open /\ InStrip(o, w) \ {t} # {} /\ t \notin {}
    BY <1>2 DEF Fine
  <2> QED
    BY <2>1, CloseKeeps
<1> HIDE DEF c
<1>4. c \in UiState /\ page \in InStrip(c, w) /\ page \in Tabs \cup {None} /\ w \in c.open
  <2>1. c \in UiState /\ page \in InStrip(c, w) /\ w \in c.open
    BY <1>2, <1>3 DEF PageClosed, Good
  <2> QED
    BY <1>0, <2>1, Strips
<1>5. Selects(c, w, page, v)
  BY <1>0, <1>4, SelectIs
<1>6. Good(v, Windows \cup {w}, {})
  <2>1. Good(c, Windows, {}) /\ w \in Windows
    BY <1>0, <1>3 DEF PageClosed
  <2> QED
    BY <1>4, <2>1, SelectGood
<1> HIDE DEF v
<1>7. Fine(v)
  <2>1. Windows \cup {w} = Windows
    BY <1>0
  <2> QED
    BY <1>6, <2>1 DEF Fine
<1>8. Filled(v)
  <2>1. /\ v.open = u.open /\ v.adopt = u.adopt /\ v.strip = c.strip
        /\ \A z \in Windows \ {w} : c.strip[z] = u.strip[z]
    BY <1>2, <1>3, <1>5 DEF Selects, AsIs, PageClosed
  <2>2. c.strip[w] # <<>>
    BY <1>0, <1>4, Strips
  <2> QED
    BY <1>0, <2>1, <2>2 DEF Filled
<1>9. Drops(o, v)
  <2>1. Drops(c, v)
    BY <1>0, <1>5, SelectListed
  <2> QED
    BY <1>3, <2>1, DropsOn DEF PageClosed
<1>10. Faithful(u, v)
  <2>1. CASE w = Primary
    <3>1. Faithful(u, c) /\ Good(c, Windows, {})
      BY <1>3, <2>1 DEF Faithful, PageClosed
    <3>2. Faithful(c, v)
      BY <1>0, <1>5, SelectListed
    <3> QED
      BY <3>1, <3>2, FaithfulOn
  <2>2. CASE w # Primary
    <3>1. t \notin InStrip(o, Primary)
      BY <1>2, <2>2, WindowsAssumption DEF InStrip
    <3>2. Untouched(u, o) /\ Untouched(o, c)
      BY <1>2, <1>3, <2>2, <3>1 DEF PageClosed
    <3>3. Untouched(c, v)
      BY <1>0, <1>5, <2>2, SelectListed
    <3> QED
      BY <3>2, <3>3, UntouchedOn DEF Faithful
  <2> QED
    BY <2>1, <2>2
<1>11. Passes(u, v)
  BY <1>2, <1>9, <1>10, DropsHides DEF Passes
<1> QED
  BY <1>7, <1>8, <1>11 DEF Done, ReplaceTabWith, v, c, page, o

\* What adopting a tab changes.
Adopted(u, S, w, v) ==
  /\ Good(v, S \cup {w}, {}) /\ v.open = u.open /\ v.adopt = u.adopt
  /\ \A z \in Windows \ {w} : v.strip[z] = u.strip[z]
  /\ InStrip(v, w) \subseteq InStrip(u, w) /\ v.strip[w] # <<>>
  /\ Listed(u, w, v) /\ Drops(u, v)

LEMMA AdoptIs ==
  ASSUME NEW u, NEW S, Good(u, S, {}), NEW w \in u.open, NEW t \in InStrip(u, w),
         u.selected[w] # t
  PROVE  Adopted(u, S, w, AdoptMovedTab(u, w, t))
<1> DEFINE older == {s \in InStrip(u, w) \ {t} : u.tag[s] = "settings"}
           a == IF u.tag[t] = "settings" /\ older # {}
                THEN CloseTabItem(u, w, CHOOSE s \in older : TRUE) ELSE u
           b == Select(a, w, t)
           v == PersistOpenTabs(b, w)
<1>0. u \in UiState /\ w \in Windows /\ t \in Tabs
  <2>1. u \in UiState /\ w \in Windows
    BY DEF Good, UiState
  <2> QED
    BY <2>1, Strips
<1>1. /\ Good(a, S, {}) /\ a.open = u.open /\ a.adopt = u.adopt
      /\ \A z \in Windows \ {w} : a.strip[z] = u.strip[z]
      /\ InStrip(a, w) \subseteq InStrip(u, w) /\ t \in InStrip(a, w)
      /\ a.selected[w] # t \/ w \in a.raised
      /\ Drops(u, a) /\ (w # Primary => Untouched(u, a))
  <2>1. CASE ~ (u.tag[t] = "settings" /\ older # {})
    <3>1. Drops(u, u) /\ Untouched(u, u)
      BY PassesSelf
    <3> QED
      BY <2>1, <3>1
  <2>2. CASE u.tag[t] = "settings" /\ older # {}
    <3> DEFINE s == CHOOSE s \in older : TRUE
    <3>1. s \in older
      BY <2>2
    <3>2. a = CloseTabItem(u, w, s)
      BY <2>2
    <3> HIDE DEF a, s
    <3>3. s \in InStrip(u, w) /\ s # t /\ s \in Tabs
      BY <1>0, <3>1, Strips
    <3>4. InStrip(u, w) \ {s} # {} /\ s \notin {}
      BY <3>3
    <3>5. PageClosed(u, S, {}, w, s, a)
      BY <3>2, <3>3, <3>4, CloseKeeps
    <3>6. w # Primary => s \notin InStrip(u, Primary)
      BY <1>0, <3>3, WindowsAssumption DEF Good, Apart
    <3> QED
      BY <3>3, <3>5, <3>6 DEF PageClosed
  <2> QED
    BY <2>1, <2>2
<1> HIDE DEF a
<1>2. Good(b, S \cup {w}, {})
  BY <1>1, SelectGood
<1>3. Selects(a, w, t, b)
  <2>1. a \in UiState /\ t \in Tabs \cup {None}
    BY <1>0, <1>1 DEF Good
  <2> QED
    BY <1>0, <2>1, SelectIs
<1> HIDE DEF b
<1>4. Saves(b, S \cup {w}, {}, v) /\ IF w = Primary THEN Written(v) ELSE v = b
  BY <1>0, <1>2, PersistIs
<1> HIDE DEF v
<1>4a. Drops(u, v) /\ Listed(u, w, v)
  <2>1. Drops(a, b) /\ (w # Primary => Untouched(a, b))
    BY <1>0, <1>3, SelectListed
  <2>2. Drops(b, v)
    BY <1>4 DEF Saves, AsIs, Drops
  <2> QED
    BY <1>1, <1>4, <2>1, <2>2, DropsOn, UntouchedOn DEF Listed
<1>5. InStrip(v, w) = InStrip(a, w) /\ v \in UiState
  BY <1>3, <1>4 DEF Selects, Saves, AsIs, InStrip, Good
<1>6. v.strip[w] # <<>>
  BY <1>0, <1>1, <1>5, Strips
<1>7. Adopted(u, S, w, v)
  BY <1>1, <1>3, <1>4, <1>4a, <1>5, <1>6 DEF Adopted, Selects, Saves, AsIs
<1> QED
  BY <1>7 DEF AdoptMovedTab, v, b, a

\* What is done about the window a tab was taken from.
Detached(u, w, v) ==
  /\ Fine(v) /\ v.adopt = u.adopt
  /\ \A z \in Windows \ {w} : v.strip[z] = u.strip[z]
  /\ (v.open = u.open /\ v.strip[w] # <<>>) \/ v.open = u.open \ {w}
  /\ Listed(u, w, v) /\ Drops(u, v)

LEMMA HandleSourceIs ==
  ASSUME NEW u, Fine(u), NEW w \in u.open, u.adopt[w] = None, Free(u) # {}
  PROVE  Detached(u, w, HandleSourceAfterDetach(u, w))
<1> DEFINE v == HandleSourceAfterDetach(u, w)
<1>0. u \in UiState /\ w \in Windows /\ Good(u, Windows, {})
  BY DEF Fine, Good, UiState
<1>1. CASE u.strip[w] # <<>>
  <2>1. v = PersistOpenTabs(u, w)
    BY <1>1 DEF HandleSourceAfterDetach
  <2> HIDE DEF v
  <2>2. Saves(u, Windows, {}, v) /\ IF w = Primary THEN Written(v) ELSE v = u
    BY <1>0, <2>1, PersistIs
  <2>2a. Listed(u, w, v) /\ Drops(u, v)
    BY <2>2 DEF Saves, AsIs, Listed, Untouched, Drops
  <2>3. Detached(u, w, v)
    BY <1>1, <2>2, <2>2a DEF Saves, AsIs, Detached, Fine
  <2> QED
    BY <2>3 DEF v
<1>2. CASE u.strip[w] = <<>> /\ w = Primary
  <2>1. v = OpenPage(u, w, "welcome")
    BY <1>2 DEF HandleSourceAfterDetach
  <2> HIDE DEF v
  <2>2. Opened(u, w, "welcome", v) /\ Listed(u, w, v)
    <3>1. "welcome" \in Pages
      BY DEF Pages
    <3> QED
      BY <2>1, <3>1, OpenPageIs
  <2>3. PICK x \in Free(u) : Added(u, w, x, "welcome", v)
    BY <2>2 DEF Opened
  <2>4. v \in UiState /\ x \in InStrip(v, w)
    BY <2>3 DEF Added, Fine, Good
  <2>5. v.strip[w] # <<>>
    BY <1>0, <2>4, Strips
  <2>5a. Drops(u, v)
    BY <2>3, PagesAssumption DEF Added, Drops
  <2>6. Detached(u, w, v)
    BY <2>2, <2>3, <2>5, <2>5a DEF Detached, Added
  <2> QED
    BY <2>6 DEF v
<1>3. CASE u.strip[w] = <<>> /\ w # Primary
  <2>1. v = CloseWindow(u, w)
    BY <1>3 DEF HandleSourceAfterDetach
  <2> HIDE DEF v
  <2>2. WindowClosed(u, w, v)
    BY <2>1, CloseWindowIs
  <2>3. Detached(u, w, v)
    BY <2>2 DEF Detached, WindowClosed
  <2> QED
    BY <2>3 DEF v
<1> QED
  BY <1>1, <1>2, <1>3

\* Nothing is about to be adopted.
NoAdoption(u) == \A z \in Windows : u.adopt[z] = None

\* A tab is in the strip of at most one window, its source.
LEMMA SourceIs ==
  ASSUME NEW u, NEW S, NEW X, Good(u, S, X), NEW t \in Tabs
  PROVE  /\ SourceOf(u, t) = {} => \A z \in Windows : t \notin InStrip(u, z)
         /\ \A s \in SourceOf(u, t) : /\ s \in u.open /\ s \in Windows /\ t \in InStrip(u, s)
                                      /\ \A z \in Windows \ {s} : t \notin InStrip(u, z)
<1>0. u \in UiState /\ u.open \subseteq Windows
  BY DEF Good, UiState
<1>1. \A z \in Windows \ u.open : InStrip(u, z) = {}
  BY <1>0, Strips DEF Good, Shut
<1> QED
  BY <1>0, <1>1 DEF SourceOf, Good, Apart

LEMMA MoveIs ==
  ASSUME NEW u, Fine(u), Filled(u), NoAdoption(u), NEW w \in u.open, Free(u) # {},
         NEW t \in Tabs, t \in Carried, NEW i \in 1 .. Len(u.strip[w]) + 1
  PROVE  Done(MoveTabToThisWindow(u, w, t, i)) /\ Passes(u, MoveTabToThisWindow(u, w, t, i))
<1> DEFINE from == SourceOf(u, t)
           src == CHOOSE s \in from : TRUE
           freed == IF from = {} THEN u ELSE RemoveItem(u, src, t)
           strip == InsertAt(freed.strip[w], i, t)
           there == [freed EXCEPT !.strip[w] = strip]
           mine == AdoptMovedTab(there, w, t)
           v == IF from = {} THEN mine ELSE HandleSourceAfterDetach(mine, src)
<1>0. u \in UiState /\ w \in Windows /\ u.open \subseteq Windows /\ Good(u, Windows, {})
  BY DEF Fine, Good, UiState
<1>0a. Drops(u, u) /\ Untouched(u, u) /\ Passes(u, u)
  BY PassesSelf
<1>1. CASE t \in InStrip(u, w)
  BY <1>0a, <1>1 DEF MoveTabToThisWindow, Done
<1>2. CASE t \notin InStrip(u, w)
  <2>0. MoveTabToThisWindow(u, w, t, i) = v
    BY <1>2 DEF MoveTabToThisWindow
  <2>1. from # {} => /\ src \in u.open /\ src \in Windows \ {w} /\ t \in InStrip(u, src)
                     /\ \A z \in Windows \ {src} : t \notin InStrip(u, z)
    <3>1. from # {} => src \in from
      OBVIOUS
    <3> HIDE DEF src, from
    <3> QED
      BY <1>0, <1>2, <3>1, SourceIs DEF from
  <2>2. from = {} => \A z \in Windows : t \notin InStrip(u, z)
    BY <1>0, SourceIs
  <2> HIDE DEF from, src
  <2>3. /\ Good(freed, Windows, {t}) /\ freed.open = u.open /\ freed.adopt = u.adopt
        /\ freed.strip[w] = u.strip[w]
        /\ \A z \in Windows : z # src \/ from = {} => freed.strip[z] = u.strip[z]
        /\ \A z \in Windows : InStrip(freed, z) \subseteq InStrip(u, z)
        /\ \A z \in Windows : t \notin InStrip(freed, z)
        /\ Drops(u, freed) /\ (from = {} \/ src # Primary => Untouched(u, freed))
    <3>1. CASE from = {}
      <4>1. freed = u
        BY <3>1
      <4>2. Good(u, Windows, {t})
        BY <1>0 DEF Good, Owned
      <4> QED
        BY <1>0a, <2>2, <3>1, <4>1, <4>2
    <3>2. CASE from # {}
      <4>1. freed = RemoveItem(u, src, t)
        BY <3>2
      <4> HIDE DEF freed
      <4>2. Removed(u, Windows, {}, src, t, freed)
        BY <1>0, <2>1, <3>2, <4>1, RemoveItemIs
      <4>3. {} \cup {t} = {t}
        OBVIOUS
      <4>4. Good(freed, Windows, {t})
        BY <4>2, <4>3 DEF Removed
      <4>5. /\ freed.open = u.open /\ freed.adopt = u.adopt
            /\ \A z \in Windows \ {src} : freed.strip[z] = u.strip[z]
            /\ InStrip(freed, src) = InStrip(u, src) \ {t}
            /\ Drops(u, freed) /\ (src # Primary => Untouched(u, freed))
        BY <4>2 DEF Removed
      <4>6. \A z \in Windows \ {src} : InStrip(freed, z) = InStrip(u, z)
        BY <4>5 DEF InStrip
      <4> QED
        BY <1>0, <2>1, <3>2, <4>4, <4>5, <4>6
    <3> QED
      BY <3>1, <3>2
  <2> HIDE DEF freed
  <2>4. /\ strip \in Seq(Tabs) /\ IsInjective(strip) /\ ToSet(strip) = InStrip(u, w) \cup {t}
    <3>1. u.strip[w] \in Seq(Tabs) /\ IsInjective(u.strip[w]) /\ t \in Tabs \ ToSet(u.strip[w])
      BY <1>0, <1>2, Strips DEF Good, Apart, InStrip
    <3> QED
      BY <2>3, <3>1, InsertAtIs DEF InStrip
  <2> HIDE DEF strip
  <2>5. /\ there \in UiState /\ there.open = u.open /\ there.adopt = u.adopt
        /\ there.selected = freed.selected /\ there.raised = freed.raised
        /\ there.wanted = freed.wanted /\ there.tag = freed.tag /\ there.child = freed.child
        /\ there.saved = freed.saved /\ there.strip[w] = strip
        /\ there.suppressed = freed.suppressed /\ there.reordered = freed.reordered
        /\ \A z \in Windows \ {w} : there.strip[z] = freed.strip[z]
    <3>1. freed \in UiState
      BY <2>3 DEF Good
    <3> QED
      BY <1>0, <2>3, <2>4, <3>1 DEF UiState
  <2> HIDE DEF there
  <2>6. InStrip(there, w) = InStrip(freed, w) \cup {t} /\ IsInjective(there.strip[w]) /\ Fits(there)
    <3>1. InStrip(freed, w) = InStrip(u, w)
      BY <2>3 DEF InStrip
    <3>2. Fits(freed)
      BY <2>3 DEF Good
    <3> QED
      BY <2>4, <2>5, <3>1, <3>2 DEF InStrip, Fits
  <2>7. Good(there, Windows \ {w}, {t} \ {t})
    <3>1. w \in freed.open /\ there.open = freed.open /\ there.child \subseteq freed.child \cup {t}
      BY <2>3, <2>5
    <3>2. \A z \in Windows : IF freed.adopt[z] = t THEN there.adopt[z] = None
                             ELSE there.adopt[z] = freed.adopt[z]
      BY <2>3, <2>5, NoneAssumption DEF NoAdoption
    <3> QED
      BY <2>3, <2>5, <2>6, <3>1, <3>2, TabAdded
  <2>8. Adopted(there, Windows \ {w}, w, mine)
    <3>1. there.selected[w] # t
      <4>1. freed.selected[w] \in InStrip(freed, w) \cup {None}
        BY <1>0, <2>3 DEF Good, Chosen
      <4> QED
        BY <1>0, <2>3, <2>5, <4>1, NoneAssumption
    <3>2. {t} \ {t} = {} /\ w \in there.open /\ t \in InStrip(there, w)
      BY <2>5, <2>6
    <3>3. Good(there, Windows \ {w}, {})
      BY <2>7, <3>2
    <3> QED
      BY <3>1, <3>2, <3>3, AdoptIs
  <2> HIDE DEF mine
  <2>9. /\ Fine(mine) /\ mine.open = u.open /\ mine.adopt = u.adopt /\ mine.strip[w] # <<>>
        /\ \A z \in Windows \ {w} : z # src \/ from = {} => mine.strip[z] = u.strip[z]
        /\ \A z \in Windows : InStrip(mine, z) \subseteq InStrip(u, z) \cup {t}
    <3>1. (Windows \ {w}) \cup {w} = Windows
      BY <1>0
    <3>2. Fine(mine)
      BY <2>8, <3>1 DEF Adopted, Fine
    <3>3. \A z \in Windows \ {w} : mine.strip[z] = freed.strip[z]
      BY <2>5, <2>8 DEF Adopted
    <3>4. \A z \in Windows \ {w} : InStrip(mine, z) = InStrip(freed, z)
      BY <3>3 DEF InStrip
    <3>5. InStrip(mine, w) \subseteq InStrip(freed, w) \cup {t}
      BY <2>6, <2>8 DEF Adopted
    <3>6. mine.open = u.open /\ mine.adopt = u.adopt /\ mine.strip[w] # <<>>
      BY <2>5, <2>8 DEF Adopted
    <3>7. \A z \in Windows : InStrip(mine, z) \subseteq InStrip(u, z) \cup {t}
      BY <2>3, <3>4, <3>5
    <3> QED
      BY <2>3, <3>2, <3>3, <3>6, <3>7
  <2>9a. Drops(u, mine) /\ (w = Primary => Written(mine))
         /\ (w # Primary /\ (from = {} \/ src # Primary) => Untouched(u, mine))
    <3>1. Drops(freed, there)
      BY <2>5 DEF Drops
    <3>2. w # Primary => Untouched(freed, there)
      BY <2>3, <2>5, WindowsAssumption DEF Untouched
    <3>3. Drops(there, mine) /\ Listed(there, w, mine)
      BY <2>8 DEF Adopted
    <3>4. Drops(u, mine)
      BY <2>3, <3>1, <3>3, DropsOn
    <3> QED
      BY <2>3, <3>2, <3>3, <3>4, UntouchedOn DEF Listed
  <2>10. CASE from = {}
    <3>1. v = mine
      BY <2>10
    <3>1a. Passes(u, mine)
      <4>1. Faithful(u, mine)
        BY <2>9a, <2>10 DEF Faithful
      <4> QED
        BY <2>9a, <4>1, DropsHides DEF Passes
    <3>2. Filled(mine)
      BY <1>0, <2>9, <2>10 DEF Filled, NoAdoption
    <3> QED
      BY <2>0, <2>9, <3>1, <3>1a, <3>2 DEF Done
  <2>11. CASE from # {}
    <3>1. v = HandleSourceAfterDetach(mine, src)
      BY <2>11
    <3>2. Free(mine) # {}
      <4>1. \A x \in Free(u) : x # t /\ x \in Free(mine)
        BY <2>9 DEF Free
      <4> QED
        BY <4>1
    <3>3. src \in mine.open /\ mine.adopt[src] = None
      BY <2>1, <2>9, <2>11 DEF NoAdoption
    <3> HIDE DEF v
    <3>4. Detached(mine, src, v)
      BY <2>9, <3>1, <3>2, <3>3, HandleSourceIs
    <3>5. Filled(v)
      <4> SUFFICES ASSUME NEW z \in v.open PROVE (v.adopt[z] = None) <=> (v.strip[z] # <<>>)
        BY DEF Filled
      <4>1. z \in Windows /\ z \in u.open /\ v.adopt[z] = None
        BY <1>0, <2>9, <3>4 DEF Detached, NoAdoption
      <4>2. CASE z = src
        BY <2>1, <2>11, <3>4, <4>1, <4>2 DEF Detached
      <4>3. CASE z # src
        <5>1. v.strip[z] = mine.strip[z]
          BY <3>4, <4>1, <4>3 DEF Detached
        <5> QED
          BY <2>9, <4>1, <4>3, <5>1 DEF Filled, NoAdoption
      <4> QED
        BY <4>2, <4>3
    <3>6. Done(v)
      BY <3>4, <3>5 DEF Detached, Done
    <3>7. Faithful(u, v)
      <4>1. Listed(mine, src, v) /\ Good(mine, Windows, {})
        BY <2>9, <3>4 DEF Detached, Fine
      <4>2. CASE src = Primary
        BY <4>1, <4>2 DEF Listed, Faithful
      <4>3. CASE src # Primary /\ w = Primary
        BY <2>9a, <4>1, <4>3, WrittenStays DEF Listed, Faithful
      <4>4. CASE src # Primary /\ w # Primary
        BY <2>9a, <4>1, <4>4, UntouchedOn DEF Listed, Faithful
      <4> QED
        BY <4>2, <4>3, <4>4
    <3>8. Drops(u, v)
      BY <2>9a, <3>4, DropsOn DEF Detached
    <3>9. Passes(u, v)
      BY <3>7, <3>8, DropsHides DEF Passes
    <3> QED
      BY <2>0, <3>6, <3>9
  <2> QED
    BY <2>10, <2>11
<1> QED
  BY <1>1, <1>2

\* A window is made for a tab that is in no strip.
Born(u, n, t) == [u EXCEPT !.open = @ \cup {n}, !.adopt[n] = t]

Births(u, n, t, b) ==
  /\ Fine(b) /\ b.open = u.open \cup {n} /\ b.strip = u.strip /\ b.adopt[n] = t
  /\ \A z \in Windows \ {n} : b.adopt[z] = None
  /\ Drops(u, b) /\ (n # Primary => Untouched(u, b))

LEMMA BornIs ==
  ASSUME NEW u, NEW t \in Tabs, Good(u, Windows, {t}), NoAdoption(u), NEW n \in Windows \ u.open,
         \A z \in Windows : t \notin InStrip(u, z)
  PROVE  Births(u, n, t, Born(u, n, t))
<1> DEFINE b == Born(u, n, t)
<1>0. u \in UiState /\ u.open \subseteq Windows
  BY DEF Good, UiState
<1>1. /\ b \in UiState /\ b.open = u.open \cup {n} /\ b.strip = u.strip /\ b.selected = u.selected
      /\ b.raised = u.raised /\ b.wanted = u.wanted /\ b.tag = u.tag /\ b.child = u.child
      /\ b.saved = u.saved /\ b.adopt[n] = t /\ \A z \in Windows \ {n} : b.adopt[z] = None
      /\ b.suppressed = u.suppressed /\ b.reordered = u.reordered
  <2>1. /\ b \in UiState /\ b.open = u.open \cup {n} /\ b.strip = u.strip /\ b.selected = u.selected
        /\ b.raised = u.raised /\ b.wanted = u.wanted /\ b.tag = u.tag /\ b.child = u.child
        /\ b.saved = u.saved /\ b.adopt[n] = t
        /\ b.suppressed = u.suppressed /\ b.reordered = u.reordered
    BY <1>0 DEF UiState, Born
  <2>2. \A z \in Windows \ {n} : b.adopt[z] = u.adopt[z]
    BY <1>0 DEF UiState, Born
  <2> QED
    BY <2>1, <2>2 DEF NoAdoption
<1> HIDE DEF b
<1>2. u.strip[n] = <<>> /\ n \notin u.raised
  BY DEF Good, Shut
<1>3. \A z \in Windows : InStrip(b, z) = InStrip(u, z)
  BY <1>1 DEF InStrip
<1>4. InStrip(b, n) = {}
  BY <1>0, <1>2, <1>3, Strips
<1>5. t # None
  BY NoneAssumption
<1>6. Apart(b)
  <2>1. \A z \in Windows : IsInjective(b.strip[z])
    BY <1>1 DEF Good, Apart
  <2>2. \A y, z \in Windows : y # z => InStrip(b, y) \cap InStrip(b, z) = {}
    BY <1>3 DEF Good, Apart
  <2>3. \A y, z \in Windows : b.adopt[y] # None =>
          b.adopt[y] \notin InStrip(b, z) /\ (b.adopt[z] = b.adopt[y] => z = y)
    BY <1>1, <1>3 
  <2> QED
    BY <2>1, <2>2, <2>3 DEF Apart
<1>7. Shut(b)
  BY <1>1 DEF Good, Shut
<1>8. Chosen(b, Windows)
  BY <1>1, <1>3 DEF Good, Chosen
<1>9. Shown(b, Windows)
  <2> SUFFICES ASSUME NEW z \in (b.open \cap Windows) \ b.raised, NEW x \in SessionTabs(b, z)
               PROVE  x \in b.wanted <=> b.selected[z] = x
    BY DEF Shown
  <2>1. z # n
    BY <1>4 DEF SessionTabs
  <2>2. z \in (u.open \cap Windows) \ u.raised /\ x \in SessionTabs(u, z)
    BY <1>1, <1>3, <2>1 DEF SessionTabs
  <2> QED
    BY <1>1, <2>2 DEF Good, Shown
<1>10. Owned(b, {})
  <2> SUFFICES ASSUME NEW x \in b.child \ {}
               PROVE  \E z \in b.open : x \in InStrip(b, z) \/ b.adopt[z] = x
    BY DEF Owned
  <2>1. CASE x = t
    BY <1>1, <2>1
  <2>2. CASE x # t
    <3>1. x \in u.child \ {t} /\ x # None
      <4>1. x \in Tabs
        BY <1>0, <1>1 DEF UiState
      <4> QED
        BY <1>1, <2>2, <4>1, NoneAssumption
    <3>2. PICK z \in u.open : x \in InStrip(u, z) \/ u.adopt[z] = x
      BY <3>1 DEF Good, Owned
    <3> QED
      BY <1>0, <1>1, <1>3, <3>1, <3>2 DEF NoAdoption
  <2> QED
    BY <2>1, <2>2
<1>11. Fits(b)
  BY <1>1 DEF Good, Fits
<1>12. Fine(b)
  BY <1>1, <1>6, <1>7, <1>8, <1>9, <1>10, <1>11 DEF Fine, Good
<1>13. Drops(u, b) /\ (n # Primary => Untouched(u, b))
  BY <1>1 DEF Drops, Untouched
<1> QED
  BY <1>1, <1>12, <1>13 DEF Births, b

LEMMA SpawnIs ==
  ASSUME NEW u, Fine(u), Filled(u), NoAdoption(u), Free(u) # {},
         NEW t \in Tabs, t \in Carried, NEW n \in Windows \ (u.open \cup {Primary})
  PROVE  Done(SpawnWindowForTab(u, t, n)) /\ Passes(u, SpawnWindowForTab(u, t, n))
<1> DEFINE from == SourceOf(u, t)
           src == CHOOSE s \in from : TRUE
           v == SpawnWindowForTab(u, t, n)
<1>0. u \in UiState /\ u.open \subseteq Windows /\ Good(u, Windows, {}) /\ Good(u, Windows, {t})
  BY DEF Fine, Good, UiState, Owned
<1>0a. v = CASE from = {} -> Born(u, n, t)
             [] from # {} /\ Len(u.strip[src]) = 1 -> u
             [] OTHER -> HandleSourceAfterDetach(Born(RemoveItem(u, src, t), n, t), src)
  BY DEF SpawnWindowForTab, Born
<1>1. CASE from = {}
  <2>1. v = Born(u, n, t)
    <3> HIDE DEF v, from, src
    <3> QED
      BY <1>0a, <1>1
  <2> HIDE DEF v
  <2>2. \A z \in Windows : t \notin InStrip(u, z)
    BY <1>0, <1>1, SourceIs
  <2>3. Births(u, n, t, v)
    BY <1>0, <2>1, <2>2, BornIs
  <2>4. u.strip[n] = <<>>
    BY <1>0 DEF Good, Shut
  <2>5. Filled(v)
    BY <1>0, <2>3, <2>4, NoneAssumption DEF Births, Filled, NoAdoption
  <2>6. Done(v)
    BY <2>3, <2>5 DEF Births, Done
  <2>7. Passes(u, v)
    BY <2>3, DropsHides DEF Births, Passes, Faithful
  <2> QED
    BY <2>6, <2>7 DEF v
<1>2. CASE from # {} /\ Len(u.strip[src]) = 1
  <2>1. Passes(u, u)
    BY PassesSelf
  <2> QED
    BY <1>2, <2>1 DEF SpawnWindowForTab, Done
<1>3. CASE from # {} /\ Len(u.strip[src]) # 1
  <2>1. /\ src \in u.open /\ src \in Windows /\ t \in InStrip(u, src)
        /\ \A z \in Windows \ {src} : t \notin InStrip(u, z)
    <3>1. src \in from
      BY <1>3
    <3> HIDE DEF src, from
    <3> QED
      BY <1>0, <3>1, SourceIs DEF from
  <2> DEFINE r == RemoveItem(u, src, t)
             b == Born(r, n, t)
  <2>2. v = HandleSourceAfterDetach(b, src)
    BY <1>3 DEF SpawnWindowForTab, Born
  <2> HIDE DEF src, from, v
  <2>3. Removed(u, Windows, {}, src, t, r)
    BY <1>0, <2>1, RemoveItemIs
  <2> HIDE DEF r
  <2>4. {} \cup {t} = {t}
    OBVIOUS
  <2>5. /\ Good(r, Windows, {t}) /\ r.open = u.open /\ r.adopt = u.adopt
        /\ \A z \in Windows \ {src} : r.strip[z] = u.strip[z]
        /\ InStrip(r, src) = InStrip(u, src) \ {t}
    BY <2>3, <2>4 DEF Removed
  <2>6. \A z \in Windows : t \notin InStrip(r, z) /\ InStrip(r, z) \subseteq InStrip(u, z)
    BY <2>1, <2>5 DEF InStrip
  <2>7. Births(r, n, t, b)
    <3>1. NoAdoption(r) /\ n \in Windows \ r.open
      BY <2>5 DEF NoAdoption
    <3> QED
      BY <2>5, <2>6, <3>1, BornIs
  <2> HIDE DEF b
  <2>8. Free(b) # {}
    <3>1. \A x \in Free(u) : x # t /\ x # None /\ x \in Free(b)
      <4> SUFFICES ASSUME NEW x \in Free(u) PROVE x # t /\ x # None /\ x \in Free(b)
        OBVIOUS
      <4>1. x \in Tabs /\ x # t /\ x # None /\ x \notin Carried
        BY NoneAssumption DEF Free
      <4>2. \A z \in Windows : x \notin InStrip(b, z)
        BY <2>6, <2>7 DEF Births, InStrip, Free
      <4>3. \A z \in Windows : b.adopt[z] # x
        BY <2>7, <4>1 DEF Births
      <4> QED
        BY <4>1, <4>2, <4>3 DEF Free
    <3> QED
      BY <3>1
  <2>9. Detached(b, src, v)
    <3>1. Fine(b) /\ src \in b.open /\ b.adopt[src] = None
      BY <2>1, <2>5, <2>7 DEF Births
    <3> QED
      BY <2>2, <2>8, <3>1, HandleSourceIs
  <2>10. Filled(v)
    <3> SUFFICES ASSUME NEW z \in v.open PROVE (v.adopt[z] = None) <=> (v.strip[z] # <<>>)
      BY DEF Filled
    <3>1. z \in Windows /\ z \in u.open \cup {n} /\ src # n
      BY <1>0, <2>1, <2>5, <2>7, <2>9 DEF Births, Detached
    <3>2. CASE z = src
      BY <2>1, <2>7, <2>9, <3>1, <3>2 DEF Births, Detached
    <3>3. CASE z = n
      <4>1. v.strip[n] = u.strip[n] /\ u.strip[n] = <<>>
        BY <1>0, <2>5, <2>7, <2>9, <3>1 DEF Births, Detached, Good, Shut
      <4>2. v.adopt[n] = t
        BY <2>7, <2>9 DEF Births, Detached
      <4> QED
        BY <3>3, <4>1, <4>2, NoneAssumption
    <3>4. CASE z # src /\ z # n
      <4>1. v.strip[z] = u.strip[z] /\ v.adopt[z] = None
        BY <2>5, <2>7, <2>9, <3>1, <3>4 DEF Births, Detached
      <4> QED
        BY <3>1, <3>4, <4>1 DEF Filled, NoAdoption
    <3> QED
      BY <3>2, <3>3, <3>4
  <2>11. Done(v)
    BY <2>9, <2>10 DEF Detached, Done
  <2>12. Faithful(u, v)
    <3>1. Listed(b, src, v) /\ Untouched(r, b) /\ (src # Primary => Untouched(u, r))
      BY <2>3, <2>7, <2>9 DEF Detached, Births, Removed
    <3> QED
      BY <3>1, UntouchedOn DEF Listed, Faithful
  <2>13. Drops(u, v)
    BY <2>3, <2>7, <2>9, DropsOn DEF Detached, Births, Removed
  <2>14. Passes(u, v)
    BY <2>12, <2>13, DropsHides DEF Passes
  <2> QED
    BY <2>11, <2>14 DEF v
<1> QED
  BY <1>1, <1>2, <1>3

\* Neither the strips nor the pages change.
Steady(u, v) ==
  /\ Fine(v) /\ v.open = u.open /\ v.adopt = u.adopt /\ v.strip = u.strip /\ v.tag = u.tag
  /\ Passes(u, v)

LEMMA SelectionChangedIs ==
  ASSUME NEW u, Fine(u), NEW w \in u.open
  PROVE  Steady(u, OnTabSelectionChanged(u, w))
<1> DEFINE active == {t \in InStrip(u, w) : t = u.selected[w] /\ u.tag[t] \in Sessions}
           wanted == (u.wanted \ InStrip(u, w)) \cup active
           m == [u EXCEPT !.raised = @ \ {w}, !.wanted = wanted]
           v == PersistOpenTabs(m, w)
<1>0. OnTabSelectionChanged(u, w) = v
  BY DEF OnTabSelectionChanged
<1>1. u \in UiState /\ w \in Windows /\ u.open \subseteq Windows
  BY DEF Fine, Good, UiState
<1>2. wanted \subseteq Tabs
  <2>1. InStrip(u, w) \subseteq Tabs /\ u.wanted \subseteq Tabs
    BY <1>1, Strips DEF UiState
  <2> QED
    BY <2>1
<1>3. \A x \in InStrip(u, w) : x \in wanted <=> x = u.selected[w] /\ u.tag[x] \in Sessions
  OBVIOUS
<1>4. \A x : x \notin InStrip(u, w) => (x \in wanted <=> x \in u.wanted)
  OBVIOUS
<1> HIDE DEF wanted
<1>5. /\ m \in UiState /\ m.open = u.open /\ m.adopt = u.adopt /\ m.strip = u.strip /\ m.tag = u.tag
      /\ m.selected = u.selected /\ m.raised = u.raised \ {w} /\ m.wanted = wanted
      /\ m.child = u.child /\ m.saved = u.saved
      /\ m.suppressed = u.suppressed /\ m.reordered = u.reordered
  BY <1>1, <1>2 DEF UiState
<1> HIDE DEF m
<1>6. \A z \in Windows : InStrip(m, z) = InStrip(u, z) /\ SessionTabs(m, z) = SessionTabs(u, z)
  BY <1>5 DEF InStrip, SessionTabs
<1>7. Shown(m, Windows)
  <2> SUFFICES ASSUME NEW z \in (m.open \cap Windows) \ m.raised, NEW x \in SessionTabs(m, z)
               PROVE  x \in m.wanted <=> m.selected[z] = x
    BY DEF Shown
  <2>1. z \in Windows /\ z \in u.open /\ x \in InStrip(u, z) /\ u.tag[x] \in Sessions
        /\ x \in SessionTabs(u, z)
    BY <1>5, <1>6 DEF SessionTabs
  <2>2. CASE z = w
    BY <1>3, <1>5, <2>1, <2>2
  <2>3. CASE z # w
    <3>1. x \notin InStrip(u, w)
      BY <1>1, <2>1, <2>3 DEF Fine, Good, Apart
    <3>2. z \notin u.raised
      BY <1>5, <2>3
    <3> QED
      BY <1>4, <1>5, <2>1, <3>1, <3>2 DEF Fine, Good, Shown
  <2> QED
    BY <2>2, <2>3
<1>8. Good(m, Windows, {})
  <2>1. Apart(m)
    BY <1>5, <1>6 DEF Fine, Good, Apart
  <2>2. Shut(m)
    BY <1>5 DEF Fine, Good, Shut
  <2>3. Chosen(m, Windows)
    BY <1>5, <1>6 DEF Fine, Good, Chosen
  <2>4. Owned(m, {})
    BY <1>1, <1>5, <1>6 DEF Fine, Good, Owned
  <2>5. Fits(m)
    BY <1>5 DEF Fine, Good, Fits
  <2> QED
    BY <1>5, <1>7, <2>1, <2>2, <2>3, <2>4, <2>5 DEF Good
<1>9. Saves(m, Windows, {}, v) /\ IF w = Primary THEN Written(v) ELSE v = m
  BY <1>1, <1>8, PersistIs
<1> HIDE DEF v
<1>10. Passes(u, v)
  <2>1. w # Primary => Untouched(u, m)
    BY <1>5 DEF Untouched
  <2>2. Listed(u, w, v) /\ Drops(u, v)
    BY <1>5, <1>9, <2>1 DEF Listed, Drops, Saves, AsIs
  <2> QED
    BY <2>2, ListedPasses
<1>11. Steady(u, v)
  BY <1>5, <1>9, <1>10 DEF Steady, Saves, AsIs, Fine
<1> QED
  BY <1>0, <1>11

\* Popups are covered and uncovered.
Covers(u, w, d, s) == [u EXCEPT !.depth[w] = d, !.suppressed = s]

LEMMA CoverIs ==
  ASSUME NEW u, Fine(u), NEW w \in Windows, NEW d \in 0 .. MaxDialogs, NEW s \in SUBSET Tabs,
         \A t \in u.suppressed \ s : d = 0 /\ t \in InStrip(u, w)
  PROVE  Steady(u, Covers(u, w, d, s))
<1> DEFINE v == Covers(u, w, d, s)
<1>1. u \in UiState /\ Fits(u) /\ Good(u, Windows, {})
  BY DEF Fine, Good
<1>2. /\ v \in UiState /\ AsIs(u, v) /\ v.selected = u.selected /\ v.raised = u.raised
      /\ v.saved = u.saved /\ v.reordered = u.reordered /\ v.suppressed = s /\ v.depth[w] = d
  BY <1>1 DEF UiState, AsIs, Covers
<1> HIDE DEF v
<1>3. Fits(v)
  BY <1>1, <1>2 DEF Fits
<1>4. Good(v, Windows, {})
  BY <1>1, <1>2, <1>3, GoodSame
<1>5. Hides(u, v)
  <2> SUFFICES ASSUME NEW t \in u.suppressed \ s, NEW z \in v.open, t \in InStrip(v, z)
               PROVE  v.depth[z] = 0
    BY <1>2 DEF Hides
  <2>1. z \in Windows /\ t \in InStrip(u, z) /\ t \in InStrip(u, w) /\ d = 0
    BY <1>1, <1>2 DEF AsIs, InStrip, UiState
  <2> QED
    BY <1>1, <1>2, <2>1 DEF Good, Apart
<1>6. Untouched(u, v)
  BY <1>2 DEF Untouched, AsIs
<1>7. Steady(u, v)
  BY <1>2, <1>4, <1>5, <1>6 DEF Steady, AsIs, Fine, Passes, Faithful
<1> QED
  BY <1>7 DEF v

LEMMA PushIs ==
  ASSUME NEW u, Fine(u), NEW w \in Windows, u.depth[w] < MaxDialogs
  PROVE  Steady(u, PushPopupSuppression(u, w))
<1>1. u \in UiState
  BY DEF Fine, Good
<1>2. u.depth[w] + 1 \in 0 .. MaxDialogs
  BY <1>1, DialogsAssumption DEF UiState
<1>3. SessionTabs(u, w) \subseteq Tabs /\ u.suppressed \subseteq Tabs
  BY <1>1, Strips DEF SessionTabs, UiState
<1> DEFINE s == IF u.depth[w] = 0 THEN u.suppressed \cup SessionTabs(u, w) ELSE u.suppressed
<1>4. s \in SUBSET Tabs /\ u.suppressed \subseteq s
  BY <1>3
<1>5. PushPopupSuppression(u, w) = Covers(u, w, u.depth[w] + 1, s)
  BY DEF PushPopupSuppression, Covers
<1> HIDE DEF s
<1> QED
  BY <1>2, <1>4, <1>5, CoverIs

LEMMA PopIs ==
  ASSUME NEW u, Fine(u), NEW w \in Windows
  PROVE  Steady(u, PopPopupSuppression(u, w))
<1>1. u \in UiState
  BY DEF Fine, Good
<1>2. CASE u.depth[w] = 0
  BY <1>2, PassesSelf DEF PopPopupSuppression, Steady
<1>3. CASE u.depth[w] # 0
  <2>1. u.depth[w] - 1 \in 0 .. MaxDialogs
    BY <1>1, <1>3, DialogsAssumption DEF UiState
  <2> DEFINE s == IF u.depth[w] = 1 THEN u.suppressed \ SessionTabs(u, w) ELSE u.suppressed
  <2>2. s \in SUBSET Tabs /\ \A t \in u.suppressed \ s : u.depth[w] - 1 = 0 /\ t \in InStrip(u, w)
    BY <1>1 DEF UiState, SessionTabs
  <2>3. PopPopupSuppression(u, w) = Covers(u, w, u.depth[w] - 1, s)
    BY <1>3 DEF PopPopupSuppression, Covers
  <2> HIDE DEF s
  <2> QED
    BY <2>1, <2>2, <2>3, CoverIs
<1> QED
  BY <1>2, <1>3

\* A tab is dragged to another place of its strip.
Reordered(u, w, t, i, reselects) ==
  [u EXCEPT !.strip[w] = InsertAt(RemoveAt(u.strip[w], PlaceOf(u, w, t)), i, t),
            !.reordered = @ \/ w = Primary,
            !.raised = IF reselects THEN @ \cup {w} ELSE @]

LEMMA ReorderIs ==
  ASSUME NEW u, Fine(u), Filled(u), NEW w \in u.open, NEW t \in InStrip(u, w),
         NEW i \in DOMAIN u.strip[w], NEW b \in BOOLEAN
  PROVE  /\ Done(Reordered(u, w, t, i, b))
         /\ Reordered(u, w, t, i, b).open = u.open
         /\ Hides(u, Reordered(u, w, t, i, b))
         /\ Saved(u) => Saved(Reordered(u, w, t, i, b))
<1> DEFINE s == u.strip[w]
           p == PlaceOf(u, w, t)
           rest == RemoveAt(s, p)
           strip == InsertAt(rest, i, t)
           m == Reordered(u, w, t, i, b)
<1>0. u \in UiState /\ w \in Windows /\ u.open \subseteq Windows
  BY DEF Fine, Good, UiState
<1>1. s \in Seq(Tabs) /\ IsInjective(s) /\ DOMAIN s = 1 .. Len(s) /\ Len(s) \in Nat /\ t \in Tabs
  BY <1>0, Strips, LenProperties DEF Fine, Good, Apart
<1>2. p \in DOMAIN s /\ s[p] = t
  <2>1. \E j \in DOMAIN s : s[j] = t
    BY DEF InStrip, ToSet
  <2> QED
    BY <2>1 DEF PlaceOf
<1> HIDE DEF p
<1>3. /\ rest \in Seq(Tabs) /\ IsInjective(rest) /\ ToSet(rest) = ToSet(s) \ {t}
      /\ Len(rest) = Len(s) - 1
  BY <1>1, <1>2, RemoveAtIs
<1> HIDE DEF rest
<1>4. /\ strip \in Seq(Tabs) /\ IsInjective(strip) /\ ToSet(strip) = InStrip(u, w)
  <2>1. t \in Tabs \ ToSet(rest) /\ i \in 1 .. Len(rest) + 1
    BY <1>1, <1>3
  <2>2. strip \in Seq(Tabs) /\ IsInjective(strip) /\ ToSet(strip) = ToSet(rest) \cup {t}
    BY <1>3, <2>1, InsertAtIs
  <2> QED
    BY <1>3, <2>2 DEF InStrip
<1>5. m = [u EXCEPT !.strip[w] = strip, !.reordered = @ \/ w = Primary,
                    !.raised = IF b THEN @ \cup {w} ELSE @]
  BY DEF Reordered, rest, p
<1> HIDE DEF strip, m
<1>6. /\ m.open = u.open /\ m.adopt = u.adopt /\ m.tag = u.tag /\ m.depth = u.depth
      /\ m.selected = u.selected /\ m.wanted = u.wanted /\ m.child = u.child /\ m.saved = u.saved
      /\ m.raised = (IF b THEN u.raised \cup {w} ELSE u.raised) /\ m.suppressed = u.suppressed
      /\ m.strip = [u.strip EXCEPT ![w] = strip] /\ m.reordered = (u.reordered \/ w = Primary)
  BY <1>0, <1>5 DEF UiState
<1>7. m \in UiState
  <2>1. (u.reordered \/ w = Primary) \in BOOLEAN
    OBVIOUS
  <2>2. (IF b THEN u.raised \cup {w} ELSE u.raised) \subseteq Windows
    BY <1>0 DEF UiState
  <2>3. [u.strip EXCEPT ![w] = strip] \in [Windows -> Seq(Tabs)]
    BY <1>0, <1>4 DEF UiState
  <2> QED
    BY <1>0, <1>5, <2>1, <2>2, <2>3 DEF UiState
<1>8. /\ m.strip[w] = strip /\ \A z \in Windows \ {w} : m.strip[z] = u.strip[z]
      /\ u.raised \subseteq m.raised /\ m.raised \subseteq u.raised \cup {w}
  BY <1>0, <1>6 DEF UiState
<1>9. \A z \in Windows : InStrip(m, z) = InStrip(u, z)
  BY <1>4, <1>8 DEF InStrip
<1>10. Apart(m)
  <2>1. \A z \in Windows : IsInjective(m.strip[z])
    BY <1>4, <1>8 DEF Fine, Good, Apart
  <2> QED
    BY <1>6, <1>9, <2>1 DEF Fine, Good, Apart
<1>11. Shut(m)
  BY <1>6, <1>8 DEF Fine, Good, Shut
<1>12. Chosen(m, Windows)
  <2>1. \A z \in Windows : m.strip[z] = <<>> <=> u.strip[z] = <<>>
    BY <1>0, <1>7, <1>9, Strips
  <2> QED
    BY <1>6, <1>9, <2>1 DEF Fine, Good, Chosen
<1>13. Shown(m, Windows)
  BY <1>0, <1>6, <1>8, <1>9 DEF Fine, Good, Shown, SessionTabs
<1>14. Owned(m, {})
  BY <1>0, <1>6, <1>9 DEF Fine, Good, Owned
<1>15. Fits(m)
  BY <1>6 DEF Fine, Good, Fits
<1>16. Fine(m)
  BY <1>7, <1>10, <1>11, <1>12, <1>13, <1>14, <1>15 DEF Fine, Good
<1>17. Filled(m)
  <2>1. \A z \in Windows : m.strip[z] = <<>> <=> u.strip[z] = <<>>
    BY <1>0, <1>7, <1>9, Strips
  <2> QED
    BY <1>0, <1>6, <2>1 DEF Filled
<1>18. Hides(u, m)
  BY <1>6 DEF Hides
<1>19. ASSUME Saved(u) PROVE Saved(m)
  <2>1. CASE w # Primary
    <3>1. m.reordered = u.reordered
      <4>1. u.reordered = TRUE \/ u.reordered = FALSE
        BY <1>0 DEF UiState
      <4> QED
        BY <1>6, <2>1, <4>1
    <3>2. Untouched(u, m)
      BY <1>6, <1>8, <2>1, <3>1, WindowsAssumption DEF Untouched
    <3> QED
      BY <1>19, <3>2, SavedOn DEF Fine, Faithful
  <2>2. CASE w = Primary
    <3> SUFFICES ASSUME Primary \in u.open \ u.raised
                 PROVE  /\ Len(u.saved.tabs) = Len(Snapshot(m, w).tabs)
                        /\ ToSet(u.saved.tabs) = ToSet(Snapshot(m, w).tabs)
      BY <1>6, <1>8, <2>2 DEF Saved
    <3>1. /\ Len(u.saved.tabs) = Len(Snapshot(u, w).tabs)
          /\ ToSet(u.saved.tabs) = ToSet(Snapshot(u, w).tabs)
      BY <1>19, <2>2 DEF Saved
    <3>2. /\ u.strip[w] \in Seq(Tabs) /\ IsInjective(u.strip[w])
          /\ m.strip[w] \in Seq(Tabs) /\ IsInjective(m.strip[w])
      BY <1>1, <1>4, <1>8
    <3>3. {x \in InStrip(m, w) : m.tag[x] # None} = {x \in InStrip(u, w) : u.tag[x] # None}
      BY <1>0, <1>6, <1>9
    <3>4. Len(Snapshot(m, w).tabs) = Len(Snapshot(u, w).tabs)
      <4>1. Len(Snapshot(u, w).tabs) = Cardinality({x \in InStrip(u, w) : u.tag[x] # None})
        BY <1>0, <3>2, SavedPages, Zenon
      <4>2. Len(Snapshot(m, w).tabs) = Cardinality({x \in InStrip(m, w) : m.tag[x] # None})
        BY <1>0, <3>2, SavedPages, Zenon
      <4> QED
        BY <3>3, <4>1, <4>2, Zenon
    <3>5. ToSet(Snapshot(m, w).tabs) = ToSet(Snapshot(u, w).tabs)
      <4>1. ToSet(Snapshot(u, w).tabs)
              = {u.tag[x] : x \in {y \in InStrip(u, w) : u.tag[y] # None}}
        BY <1>0, <3>2, SavedPages, Zenon
      <4>2. ToSet(Snapshot(m, w).tabs)
              = {m.tag[x] : x \in {y \in InStrip(m, w) : m.tag[y] # None}}
        BY <1>0, <3>2, SavedPages, Zenon
      <4>3. m.tag = u.tag
        BY <1>6
      <4> QED
        BY <3>3, <4>1, <4>2, <4>3, Zenon
    <3> QED
      BY <3>1, <3>4, <3>5
  <2> QED
    BY <2>1, <2>2
<1> QED
  BY <1>6, <1>16, <1>17, <1>18, <1>19 DEF Done, m

\* A torn-out window takes its tab.
Taken(u, n) == [u EXCEPT !.strip[n] = Append(@, u.adopt[n]), !.adopt[n] = None]

LEMMA TakeIs ==
  ASSUME NEW u, Fine(u), Filled(u), NEW n \in u.open, u.adopt[n] # None
  PROVE  /\ Done(AdoptMovedTab(Taken(u, n), n, u.adopt[n]))
         /\ Passes(u, AdoptMovedTab(Taken(u, n), n, u.adopt[n]))
<1> DEFINE t == u.adopt[n]
           m == Taken(u, n)
           v == AdoptMovedTab(m, n, t)
           strip == Append(u.strip[n], t)
<1>0. u \in UiState /\ n \in Windows /\ u.open \subseteq Windows /\ Good(u, Windows, {})
  BY DEF Fine, Good, UiState
<1>1. t \in Tabs /\ t # None
  BY <1>0 DEF UiState
<1>2. \A z \in Windows : t \notin InStrip(u, z) /\ (u.adopt[z] = t => z = n)
  BY <1>0 DEF Good, Apart
<1>3. strip \in Seq(Tabs) /\ IsInjective(strip) /\ ToSet(strip) = InStrip(u, n) \cup {t}
  <2>1. u.strip[n] \in Seq(Tabs) /\ IsInjective(u.strip[n]) /\ t \in Tabs \ ToSet(u.strip[n])
    BY <1>0, <1>1, <1>2, Strips DEF Good, Apart, InStrip
  <2> QED
    BY <2>1, AppendIs DEF InStrip
<1>4. m = [u EXCEPT !.strip[n] = strip, !.adopt[n] = None]
  BY DEF Taken
<1> HIDE DEF m, strip, t
<1>5. /\ m \in UiState /\ m.open = u.open /\ m.selected = u.selected /\ m.raised = u.raised
      /\ m.wanted = u.wanted /\ m.tag = u.tag /\ m.child = u.child /\ m.saved = u.saved
      /\ m.strip[n] = strip /\ m.adopt[n] = None
      /\ m.suppressed = u.suppressed /\ m.reordered = u.reordered
      /\ \A z \in Windows \ {n} : m.strip[z] = u.strip[z] /\ m.adopt[z] = u.adopt[z]
  BY <1>0, <1>3, <1>4 DEF UiState
<1>6. /\ InStrip(m, n) = InStrip(u, n) \cup {t} /\ IsInjective(m.strip[n]) /\ Fits(m)
      /\ \A z \in Windows \ {n} : m.strip[z] = u.strip[z]
  BY <1>0, <1>3, <1>5 DEF InStrip, Fits, Good
<1>7. Good(m, Windows \ {n}, {} \ {t})
  <2>1. \A z \in Windows : IF u.adopt[z] = t THEN m.adopt[z] = None ELSE m.adopt[z] = u.adopt[z]
    BY <1>2, <1>5 DEF t
  <2>2. \A z \in Windows : t \notin InStrip(u, z)
    BY <1>2
  <2>3. m.child \subseteq u.child \cup {t}
    BY <1>5
  <2> QED
    BY <1>0, <1>1, <1>5, <1>6, <2>1, <2>2, <2>3, TabAdded
<1>8. Adopted(m, Windows \ {n}, n, v)
  <2>1. m.selected[n] # t
    <3>1. u.selected[n] \in InStrip(u, n) \cup {None}
      BY <1>0 DEF Good, Chosen
    <3> QED
      BY <1>0, <1>1, <1>2, <1>5, <3>1
  <2>2. {} \ {t} = {} /\ n \in m.open /\ t \in InStrip(m, n)
    BY <1>5, <1>6
  <2>3. Good(m, Windows \ {n}, {})
    BY <1>7, <2>2
  <2> QED
    BY <2>1, <2>2, <2>3, AdoptIs
<1> HIDE DEF v
<1>9. Fine(v)
  <2>1. (Windows \ {n}) \cup {n} = Windows
    BY <1>0
  <2> QED
    BY <1>8, <2>1 DEF Adopted, Fine
<1>10. Filled(v)
  BY <1>0, <1>5, <1>8 DEF Adopted, Filled
<1>11. Passes(u, v)
  <2>1. n # Primary => Untouched(u, m)
    BY <1>5, WindowsAssumption DEF Untouched
  <2>2. Faithful(u, v)
    BY <1>8, <2>1, UntouchedOn DEF Adopted, Listed, Faithful
  <2> QED
    BY <1>5, <1>8, <2>2, DropsHides DEF Adopted, Passes
<1> QED
  BY <1>9, <1>10, <1>11 DEF Done, v, m, t

\* The tabs of deleted VMs are closed, one after the other.
Emptied(u, v) ==
  /\ Done(v) /\ v.adopt = u.adopt /\ NoNew(u, v) /\ Passes(u, v)
  /\ \A z \in Windows : InStrip(v, z) \cap Carried \subseteq InStrip(u, z)

LEMMA CloseAllIs ==
  ASSUME NEW u, Fine(u), Filled(u), NEW w \in u.open, u.adopt[w] = None,
         Free(u) # {} \/ Carried = {}, NEW gone \in SUBSET InStrip(u, w),
         NEW f, FoldedBy(f, 1 .. Len(u.strip[w]), [do |-> "close", tabs |-> gone, win |-> w],
                         u, u.strip[w])
  PROVE  Emptied(u, f[1 .. Len(u.strip[w])])
<1> DEFINE seq == u.strip[w]
           n == Len(seq)
           job == [do |-> "close", tabs |-> gone, win |-> w]
           Rest(x, k) == \A j \in k + 1 .. n : seq[j] \in gone =>
                           /\ x.open = u.open /\ seq[j] \in InStrip(x, w)
                           /\ Free(x) # {} \/ Carried = {}
           Kept(x) == /\ Fine(x) /\ NoNew(u, x) /\ x.adopt = u.adopt
                      /\ \A z \in Windows \ {w} : x.strip[z] = u.strip[z]
                      /\ (x.open = u.open /\ x.strip[w] # <<>>) \/ x.open = u.open \ {w}
                      /\ Faithful(u, x) /\ Drops(u, x)
                      /\ InStrip(x, w) \cap Carried \subseteq InStrip(u, w)
           I == [k \in 0 .. n |-> {x \in UiState : Kept(x) /\ Rest(x, k)}]
<1>0. u \in UiState /\ w \in Windows /\ u.open \subseteq Windows
  BY DEF Fine, Good, UiState
<1>1. /\ seq \in Seq(Tabs) /\ DOMAIN seq = 1 .. n /\ n \in Nat
      /\ \A j \in 1 .. n : seq[j] \in Tabs /\ seq[j] \in InStrip(u, w)
      /\ \A i, j \in 1 .. n : seq[i] = seq[j] => i = j
  <2>1. seq \in Seq(Tabs) /\ DOMAIN seq = 1 .. n /\ n \in Nat /\ \A j \in 1 .. n : seq[j] \in Tabs
    BY <1>0, Strips, LenProperties, ElementOfSeq
  <2>2. IsInjective(seq)
    BY <1>0 DEF Fine, Good, Apart
  <2>3. \A i, j \in 1 .. n : seq[i] = seq[j] => i = j
    BY <2>1, <2>2 DEF IsInjective
  <2>4. \A j \in 1 .. n : seq[j] \in InStrip(u, w)
    BY <2>1 DEF InStrip, ToSet
  <2> QED
    BY <2>1, <2>3, <2>4
<1>2. \A x, t : Turn(job, x, t) = IF t \in gone THEN CloseTabItem(x, w, t) ELSE x
  BY DEF Turn
<1>3. FoldedBy(f, 1 .. n, job, u, seq)
  OBVIOUS
<1> HIDE DEF job, seq, n
<1>4. u \in I[0]
  <2>1. Kept(u)
    BY PassesSelf DEF NoNew, Filled, Passes
  <2>2. Rest(u, 0)
    BY <1>1
  <2>3. 0 \in 0 .. n
    BY <1>1
  <2> HIDE DEF Kept, Rest
  <2> QED
    BY <1>0, <2>1, <2>2, <2>3
<1>5. ASSUME NEW k \in 1 .. n, NEW x \in I[k-1] PROVE Turn(job, x, seq[k]) \in I[k]
  <2> DEFINE t == seq[k]
             v == CloseTabItem(x, w, t)
  <2>1. k - 1 \in 0 .. n /\ k \in 0 .. n /\ k \in k .. n /\ (k - 1) + 1 = k
    BY <1>1
  <2>2. Kept(x) /\ Rest(x, k - 1)
    <3> HIDE DEF Kept, Rest
    <3> QED
      BY <2>1
  <2>3. \A j \in k + 1 .. n : j \in 1 .. n /\ j \in (k - 1) + 1 .. n /\ j # k
    BY <1>1
  <2>4. CASE t \notin gone
    <3>1. Turn(job, x, t) = x
      BY <1>2, <2>4
    <3>2. Rest(x, k)
      BY <2>2, <2>3
    <3> HIDE DEF Kept, Rest
    <3> QED
      BY <2>1, <2>2, <3>1, <3>2
  <2>5. CASE t \in gone
    <3>1. Turn(job, x, t) = v
      BY <1>2, <2>5
    <3>2. x.open = u.open /\ t \in InStrip(x, w) /\ (Free(x) # {} \/ Carried = {})
      BY <2>1, <2>2, <2>5
    <3>3. TabClosed(x, w, t, v)
      <4>1. Fine(x) /\ w \in x.open /\ x.adopt[w] = None
        BY <2>2, <3>2
      <4> QED
        BY <3>2, <4>1, CloseTabIs
    <3> HIDE DEF v
    <3>4. v \in UiState
      BY <3>3 DEF TabClosed, Fine, Good
    <3>5. Kept(v)
      <4>1. Fine(v) /\ v.adopt = u.adopt /\ NoNew(u, v)
        BY <2>2, <3>3 DEF TabClosed, NoNew
      <4>2. \A z \in Windows \ {w} : v.strip[z] = u.strip[z]
        BY <2>2, <3>3 DEF TabClosed
      <4>3. (v.open = u.open /\ v.strip[w] # <<>>) \/ v.open = u.open \ {w}
        BY <1>0, <3>2, <3>3, <3>4, Strips DEF TabClosed
      <4>4. Faithful(u, v) /\ Drops(u, v)
        <5>1. Faithful(x, v) /\ Drops(x, v)
          BY <3>3 DEF TabClosed, Listed, Faithful
        <5> QED
          BY <2>2, <5>1, FaithfulOn, DropsOn DEF Fine
      <4>5. InStrip(v, w) \cap Carried \subseteq InStrip(u, w)
        BY <2>2, <3>3 DEF TabClosed
      <4> QED
        BY <4>1, <4>2, <4>3, <4>4, <4>5
    <3>6. Rest(v, k)
      <4> SUFFICES ASSUME NEW j \in k + 1 .. n, seq[j] \in gone
                   PROVE  /\ v.open = u.open /\ seq[j] \in InStrip(v, w)
                          /\ Free(v) # {} \/ Carried = {}
        OBVIOUS
      <4>1. seq[j] # t /\ seq[j] \in InStrip(x, w)
        BY <1>1, <2>2, <2>3
      <4>2. v.open = x.open /\ InStrip(v, w) = InStrip(x, w) \ {t}
        BY <3>3, <4>1 DEF TabClosed
      <4>3. v.adopt = x.adopt /\ \A z \in Windows : InStrip(v, z) \subseteq InStrip(x, z)
        BY <3>3, <4>2 DEF TabClosed, InStrip
      <4>4. \A y \in Free(x) : y \in Free(v)
        BY <4>3 DEF Free
      <4> QED
        BY <3>2, <4>1, <4>2, <4>4
    <3> HIDE DEF Kept, Rest
    <3> QED
      BY <2>1, <3>1, <3>4, <3>5, <3>6
  <2> QED
    BY <2>4, <2>5
<1> HIDE DEF I
<1>6. f[1 .. n] \in I[n]
  <2>1. n = Len(seq)
    BY DEF n
  <2> QED
    BY <1>1, <1>3, <1>4, <1>5, <2>1, FoldKeeps
<1> DEFINE v == f[1 .. n]
<1> HIDE DEF v
<1>7. Kept(v)
  <2> HIDE DEF Kept, Rest
  <2> QED
    BY <1>1, <1>6 DEF I, v
<1>8. Filled(v)
  <2> SUFFICES ASSUME NEW z \in v.open PROVE (v.adopt[z] = None) <=> (v.strip[z] # <<>>)
    BY DEF Filled
  <2>1. z \in Windows /\ z \in u.open
    BY <1>0, <1>7
  <2> QED
    BY <1>7, <2>1 DEF Filled
<1>9. Emptied(u, v)
  <2>1. Passes(u, v)
    BY <1>7, DropsHides DEF Passes
  <2>2. \A z \in Windows : InStrip(v, z) \cap Carried \subseteq InStrip(u, z)
    BY <1>7 DEF InStrip
  <2> QED
    BY <1>7, <1>8, <2>1, <2>2 DEF Emptied, Done
<1> QED
  BY <1>9 DEF v, n, seq

\* Opening a page, or closing a tab, leaves everything in order.
LEMMA OpenedDone ==
  ASSUME NEW u, Fine(u), Filled(u), NEW w \in u.open, u.adopt[w] = None, NEW g, NEW v,
         Opened(u, w, g, v)
  PROVE  Done(v)
<1>0. u \in UiState /\ w \in Windows /\ u.open \subseteq Windows
  BY DEF Fine, Good, UiState
<1>1. CASE AsIs(u, v) /\ Fine(v)
  BY <1>1 DEF AsIs, Filled, Done
<1>2. CASE \E t \in Free(u) : Added(u, w, t, g, v)
  <2>1. PICK t \in Free(u) : Added(u, w, t, g, v)
    BY <1>2
  <2>2. v \in UiState /\ t \in InStrip(v, w)
    BY <2>1 DEF Added, Fine, Good
  <2>3. v.strip[w] # <<>>
    BY <1>0, <2>2, Strips
  <2> QED
    BY <1>0, <2>1, <2>3 DEF Added, Filled, Done
<1> QED
  BY <1>1, <1>2 DEF Opened

LEMMA TabClosedDone ==
  ASSUME NEW u, Fine(u), Filled(u), NEW w \in u.open, u.adopt[w] = None, NEW t, NEW v,
         TabClosed(u, w, t, v)
  PROVE  Done(v)
<1>0. u \in UiState /\ w \in Windows /\ u.open \subseteq Windows /\ v \in UiState
  BY DEF Fine, Good, UiState, TabClosed
<1>1. w \in v.open => v.strip[w] # <<>>
  BY <1>0, Strips DEF TabClosed
<1>2. Filled(v)
  BY <1>0, <1>1 DEF TabClosed, Filled
<1> QED
  BY <1>2 DEF Done, TabClosed

\* The pages of the primary window's tabs.
PagesIn(u) == {u.tag[t] : t \in InStrip(u, Primary)}

LEMMA PagesSaved ==
  ASSUME NEW v, Fine(v), Listing(v), \A t \in InStrip(v, Primary) : v.tag[t] # None
  PROVE  ToSet(v.saved.tabs) = PagesIn(v)
<1>1. Primary \in Windows /\ v.strip[Primary] \in Seq(Tabs) /\ IsInjective(v.strip[Primary])
  BY WindowsAssumption, Strips DEF Fine, Good, Apart
<1>2. ToSet(Snapshot(v, Primary).tabs)
        = {v.tag[t] : t \in {x \in InStrip(v, Primary) : v.tag[x] # None}}
  BY <1>1, SavedPages, Zenon
<1>3. {x \in InStrip(v, Primary) : v.tag[x] # None} = InStrip(v, Primary)
  OBVIOUS
<1> QED
  BY <1>2, <1>3, Zenon DEF PagesIn, Listing

\* What is saved after a launch is what there was to bring back.
Brought(u, v) ==
  LET kept == ToSet(u.saved.tabs) \ (Hosts \ hosts)
  IN ToSet(v.saved.tabs) = IF kept = {} THEN {"welcome"} ELSE kept

\* A launch with the primary window alone and nothing in it.
LEMMA RestoreIs ==
  ASSUME NEW u, Fine(u), u.open = {Primary}, NoAdoption(u), Carried = {},
         \A z \in Windows : u.strip[z] = <<>>
  PROVE  LET v == RestoreOpenTabs(u)
         IN /\ Done(v) /\ v.open = {Primary} /\ v.suppressed = u.suppressed
            /\ Listing(v) /\ Brought(u, v)
<1> DEFINE seq == u.saved.tabs
           n == Len(seq)
           open(v, g) == IF g \in Hosts \ hosts THEN v ELSE Restored(v, Primary, g)
           job == [do |-> "open"]
           F == CHOOSE f : f = [s \in SUBSET DOMAIN seq |->
                   IF s = {} THEN u ELSE open(f[s \ {Max(s)}], seq[Max(s)])]
           filled == FoldLeft(open, u, seq)
           strip == filled.strip[Primary]
           Got(k) == {seq[j] : j \in 1 .. k} \ (Hosts \ hosts)
           Kept(x, k) == /\ Fine(x) /\ x.open = {Primary} /\ NoAdoption(x)
                         /\ \A z \in Windows \ {Primary} : x.strip[z] = <<>>
                         /\ Cardinality(InStrip(x, Primary)) <= k
                         /\ x.suppressed = u.suppressed /\ PagesIn(x) = Got(k)
           I == [k \in 0 .. n |-> {x \in UiState : Kept(x, k)}]
<1>0. u \in UiState /\ Primary \in Windows /\ n <= Cardinality(Tabs)
  BY WindowsAssumption DEF Fine, Good, Fits
<1>1. seq \in Seq(Pages) /\ DOMAIN seq = 1 .. n /\ n \in Nat /\ \A k \in 1 .. n : seq[k] \in Pages
  <2>1. seq \in Seq(Pages)
    BY <1>0 DEF UiState
  <2> QED
    BY <2>1, LenProperties, ElementOfSeq
<1>17. /\ Got(0) = {} /\ Got(n) = ToSet(seq) \ (Hosts \ hosts)
       /\ \A k \in 1 .. n : Got(k) = Got(k - 1) \cup ({seq[k]} \ (Hosts \ hosts))
       /\ \A k \in 0 .. n : Got(k) \subseteq Pages
  <2>1. Got(0) = {}
    OBVIOUS
  <2>2. Got(n) = ToSet(seq) \ (Hosts \ hosts)
    BY <1>1 DEF ToSet
  <2>3. ASSUME NEW k \in 1 .. n PROVE Got(k) = Got(k - 1) \cup ({seq[k]} \ (Hosts \ hosts))
    <3>1. \A j : j \in 1 .. k <=> (j \in 1 .. (k - 1) \/ j = k)
      BY <1>1
    <3> HIDE DEF seq, n
    <3> QED
      BY <3>1
  <2>4. ASSUME NEW k \in 0 .. n PROVE Got(k) \subseteq Pages
    <3>1. \A j \in 1 .. k : j \in 1 .. n
      BY <1>1
    <3> QED
      BY <1>1, <3>1
  <2> HIDE DEF Got
  <2> QED
    BY <2>1, <2>2, <2>3, <2>4
<1> HIDE DEF Got
<1>2. \A x \in UiState : /\ IsFiniteSet(InStrip(x, Primary)) /\ InStrip(x, Primary) \subseteq Tabs
                         /\ Cardinality(InStrip(x, Primary)) \in Nat
  <2> SUFFICES ASSUME NEW x \in UiState
               PROVE  /\ IsFiniteSet(InStrip(x, Primary)) /\ InStrip(x, Primary) \subseteq Tabs
                      /\ Cardinality(InStrip(x, Primary)) \in Nat
    OBVIOUS
  <2>1. InStrip(x, Primary) \subseteq Tabs
    BY <1>0, Strips
  <2>2. IsFiniteSet(InStrip(x, Primary))
    BY <2>1, TabsAssumption, FS_Subset
  <2> QED
    BY <2>1, <2>2, FS_CardinalityType
<1>3. ASSUME NEW x \in UiState, NEW k \in Nat, Kept(x, k), k < Cardinality(Tabs)
      PROVE  Free(x) # {}
  <2>1. PICK t \in Tabs : t \notin InStrip(x, Primary)
    <3>1. InStrip(x, Primary) # Tabs
      <4>1. Cardinality(Tabs) \in Nat /\ Cardinality(InStrip(x, Primary)) \in Nat
        BY <1>2, TabsAssumption, FS_CardinalityType
      <4> QED
        BY <1>3, <4>1
    <3> QED
      BY <1>2, <3>1
  <2>2. \A z \in Windows : t \notin InStrip(x, z)
    <3>1. \A z \in Windows \ {Primary} : InStrip(x, z) = {}
      BY <1>3, Strips
    <3> QED
      BY <2>1, <3>1
  <2>3. \A z \in Windows : x.adopt[z] # t
    BY <1>3, NoneAssumption DEF NoAdoption
  <2> QED
    BY <2>2, <2>3 DEF Free
<1>4. \A x, g : Turn(job, x, g) = open(x, g)
  BY DEF Turn
<1>5. filled = F[DOMAIN seq]
  BY DEF FoldLeft, MapThenFoldSet
<1>6. \A f : FoldedBy(f, 1 .. n, job, u, seq) <=>
             f = [s \in SUBSET DOMAIN seq |->
                   IF s = {} THEN u ELSE open(f[s \ {Max(s)}], seq[Max(s)])]
  <2> HIDE DEF open, job, Kept, I, filled, strip, F, n, seq
  <2> SUFFICES ASSUME NEW f
               PROVE  FoldedBy(f, 1 .. n, job, u, seq) <=>
                      f = [s \in SUBSET DOMAIN seq |->
                            IF s = {} THEN u ELSE open(f[s \ {Max(s)}], seq[Max(s)])]
    OBVIOUS
  <2>1. [s \in SUBSET (1 .. n) |->
          IF s = {} THEN u ELSE Turn(job, f[s \ {Max(s)}], seq[Max(s)])]
        = [s \in SUBSET DOMAIN seq |->
            IF s = {} THEN u ELSE open(f[s \ {Max(s)}], seq[Max(s)])]
    BY <1>1, <1>4
  <2> QED
    BY <2>1 DEF FoldedBy
<1> HIDE DEF open
<1>7. FoldedBy(F, 1 .. n, job, u, seq)
  BY <1>1, <1>6, FoldExists
<1> HIDE DEF F
<1>8. Kept(u, 0)
  <2>1. InStrip(u, Primary) = {}
    BY <1>0, Strips
  <2>2. PagesIn(u) = Got(0)
    BY <1>17, <2>1 DEF PagesIn
  <2> QED
    BY <2>1, <2>2, FS_EmptySet
<1>9. u \in I[0]
  <2>1. 0 \in 0 .. n
    BY <1>1
  <2> HIDE DEF Kept
  <2> QED
    BY <1>0, <1>8, <2>1
<1>10. ASSUME NEW k \in 1 .. n, NEW x \in I[k-1] PROVE Turn(job, x, seq[k]) \in I[k]
  <2> DEFINE g == seq[k]
             v == Restored(x, Primary, g)
  <2>1. k - 1 \in 0 .. n /\ k \in 0 .. n /\ k - 1 \in Nat /\ k - 1 < n /\ g \in Pages
    BY <1>1
  <2>2. Kept(x, k - 1) /\ x \in UiState
    <3> HIDE DEF Kept
    <3> QED
      BY <2>1
  <2>3. Cardinality(InStrip(x, Primary)) \in Nat
    BY <1>2, <2>2
  <2>4. CASE g \in Hosts \ hosts
    <3>1. Turn(job, x, g) = x
      BY <1>4, <2>4 DEF open
    <3>2. Got(k) = Got(k - 1)
      <4>1. Got(k) = Got(k - 1) \cup ({seq[k]} \ (Hosts \ hosts))
        BY <1>17
      <4>2. {seq[k]} \ (Hosts \ hosts) = {}
        BY <2>4
      <4> QED
        BY <4>1, <4>2
    <3>3. Kept(x, k)
      BY <2>1, <2>2, <2>3, <3>2
    <3> HIDE DEF Kept
    <3> QED
      BY <2>1, <2>2, <3>1, <3>3
  <2>5. CASE g \notin Hosts \ hosts
    <3>1. Turn(job, x, g) = v
      BY <1>4, <2>5 DEF open
    <3>2. Free(x) # {}
      <4>1. k - 1 < Cardinality(Tabs)
        <5>1. Cardinality(Tabs) \in Nat
          BY TabsAssumption, FS_CardinalityType
        <5> QED
          BY <1>0, <1>1, <2>1, <5>1
      <4> HIDE DEF Kept
      <4> QED
        BY <1>3, <2>1, <2>2, <4>1
    <3>3. Opened(x, Primary, g, v)
      <4>1. Fine(x) /\ Primary \in x.open
        BY <2>2
      <4> QED
        BY <2>1, <3>2, <4>1, RestoredIs
    <3> HIDE DEF v
    <3>4. /\ Fine(v) /\ v.open = x.open /\ v.adopt = x.adopt
          /\ \A z \in Windows \ {Primary} : v.strip[z] = x.strip[z]
          /\ Cardinality(InStrip(v, Primary)) <= k
          /\ v.suppressed = x.suppressed /\ PagesIn(v) = PagesIn(x) \cup {g}
      <4>1. CASE /\ AsIs(x, v) /\ Fine(v) /\ v.suppressed = x.suppressed
                 /\ v.selected[Primary] \in InStrip(x, Primary) /\ x.tag[v.selected[Primary]] = g
        <5>1. InStrip(v, Primary) = InStrip(x, Primary)
          BY <4>1 DEF AsIs, InStrip
        <5>2. PagesIn(v) = PagesIn(x) /\ g \in PagesIn(x)
          BY <4>1, <5>1 DEF AsIs, PagesIn
        <5> QED
          BY <2>1, <2>2, <2>3, <4>1, <5>1, <5>2 DEF AsIs
      <4>2. CASE \E t \in Free(x) : Added(x, Primary, t, g, v)
        <5>1. PICK t \in Free(x) : Added(x, Primary, t, g, v)
          BY <4>2
        <5>2. InStrip(v, Primary) = InStrip(x, Primary) \cup {t} /\ t \notin InStrip(x, Primary)
          BY <1>0, <5>1, FreeIs DEF Added
        <5>3. Cardinality(InStrip(v, Primary)) = Cardinality(InStrip(x, Primary)) + 1
          BY <1>2, <2>2, <5>2, FS_AddElement
        <5>4. Cardinality(InStrip(v, Primary)) <= k
          BY <2>1, <2>2, <2>3, <5>3
        <5>5. PagesIn(v) = PagesIn(x) \cup {g}
          <6>1. v.tag[t] = g /\ \A y \in InStrip(x, Primary) : v.tag[y] = x.tag[y]
            BY <1>2, <2>2, <5>1, <5>2 DEF Added
          <6> QED
            BY <5>2, <6>1 DEF PagesIn
        <5> QED
          BY <5>1, <5>4, <5>5 DEF Added
      <4> QED
        BY <3>3, <4>1, <4>2 DEF Opened
    <3>5. v \in UiState
      BY <3>4 DEF Fine, Good
    <3>7. Got(k) = Got(k - 1) \cup {g}
      BY <1>17, <2>5
    <3>6. Kept(v, k)
      BY <2>2, <3>4, <3>7 DEF NoAdoption
    <3> HIDE DEF Kept
    <3> QED
      BY <2>1, <3>1, <3>5, <3>6
  <2> QED
    BY <2>4, <2>5
<1> HIDE DEF I, job, filled
<1>11. filled \in I[n]
  BY <1>1, <1>5, <1>7, <1>9, <1>10, FoldKeeps
<1>12. Kept(filled, n) /\ filled \in UiState
  <2> HIDE DEF Kept
  <2> QED
    BY <1>1, <1>11 DEF I
<1>13. filled.adopt[Primary] = None /\ Primary \in filled.open
  BY <1>0, <1>12 DEF NoAdoption
<1> DEFINE at == IF u.saved.sel \in DOMAIN strip THEN u.saved.sel ELSE 1
           b == Select(filled, Primary, strip[at])
           v == IF seq = <<>> \/ strip = <<>> THEN OpenPage(filled, Primary, "welcome")
                ELSE PersistOpenTabs(b, Primary)
<1>14. RestoreOpenTabs(u) = v
  BY DEF RestoreOpenTabs, filled, open
<1>18. ToSet(u.saved.tabs) \ (Hosts \ hosts) = PagesIn(filled)
  BY <1>12, <1>17
<1>15. CASE seq = <<>> \/ strip = <<>>
  <2>1. InStrip(filled, Primary) = {}
    <3>1. CASE strip = <<>>
      BY <1>0, <1>12, <3>1, Strips
    <3>2. CASE seq = <<>>
      <4>1. n = 0
        BY <3>2
      <4>2. Cardinality(InStrip(filled, Primary)) = 0
        BY <1>2, <1>12, <4>1
      <4> QED
        BY <1>2, <1>12, <4>2, FS_EmptySet
    <3> QED
      BY <1>15, <3>1, <3>2
  <2>2. \A z \in Windows \ {Primary} : InStrip(filled, z) = {}
    BY <1>12, Strips
  <2>3. \A t \in Tabs : t \in Free(filled)
    BY <1>12, <2>1, <2>2, NoneAssumption DEF Free, NoAdoption
  <2>4. Free(filled) # {} /\ "welcome" \in Pages
    BY <2>3, TabsAssumption DEF Pages
  <2>5. v = OpenPage(filled, Primary, "welcome")
    BY <1>15
  <2> HIDE DEF v, b
  <2>6. Opened(filled, Primary, "welcome", v)
    BY <1>12, <1>13, <2>4, <2>5, OpenPageIs
  <2>11. Listing(v) /\ v.suppressed = filled.suppressed
    BY <1>12, <1>13, <2>4, <2>5, <2>6, OpenPageIs DEF Opened, Added
  <2>7. PICK t \in Free(filled) : Added(filled, Primary, t, "welcome", v)
    BY <2>6 DEF Opened
  <2>8. v \in UiState /\ t \in InStrip(v, Primary)
    BY <2>7 DEF Added, Fine, Good
  <2>9. v.strip[Primary] # <<>>
    BY <1>0, <2>8, Strips
  <2>10. Done(v)
    BY <1>12, <1>13, <2>7, <2>9 DEF Done, Filled, Added
  <2>12. Brought(u, v)
    <3>1. InStrip(v, Primary) = {t} /\ v.tag[t] = "welcome" /\ "welcome" # None
      BY <2>1, <2>7, NoneAssumption DEF Added, Pages
    <3>2. ToSet(v.saved.tabs) = PagesIn(v)
      BY <2>10, <2>11, <3>1, PagesSaved DEF Done
    <3>3. PagesIn(v) = {"welcome"} /\ PagesIn(filled) = {}
      BY <2>1, <3>1 DEF PagesIn
    <3> QED
      BY <1>18, <3>2, <3>3 DEF Brought
  <2>13. v.open = {Primary} /\ v.suppressed = u.suppressed
    BY <1>12, <2>7, <2>11 DEF Added
  <2> QED
    BY <1>14, <2>10, <2>11, <2>12, <2>13
<1>16. CASE ~ (seq = <<>> \/ strip = <<>>)
  <2> DEFINE t == strip[at]
  <2>1. t \in InStrip(filled, Primary)
    <3>1. strip \in Seq(Tabs)
      BY <1>0, <1>12, Strips
    <3> HIDE DEF strip
    <3>2. DOMAIN strip = 1 .. Len(strip) /\ Len(strip) \in Nat /\ Len(strip) >= 1
      BY <1>16, <3>1, LenProperties, EmptySeq
    <3>3. at \in DOMAIN strip
      BY <3>2
    <3> HIDE DEF at
    <3> QED
      BY <3>3 DEF InStrip, ToSet, strip
  <2>2. v = PersistOpenTabs(b, Primary) /\ b = Select(filled, Primary, t)
    BY <1>16
  <2> HIDE DEF v, b, t
  <2>3. Good(b, Windows \cup {Primary}, {})
    <3>1. Good(filled, Windows, {})
      BY <1>12 DEF Fine
    <3> QED
      BY <1>0, <1>13, <2>1, <2>2, <3>1, SelectGood
  <2>4. Selects(filled, Primary, t, b)
    <3>1. t \in Tabs \cup {None}
      BY <1>0, <1>12, <2>1, Strips
    <3> QED
      BY <1>0, <1>12, <2>2, <3>1, SelectIs
  <2>5. Windows \cup {Primary} = Windows
    BY <1>0
  <2>6. Saves(b, Windows, {}, v) /\ Listing(v)
    BY <1>0, <2>2, <2>3, <2>5, PersistIs
  <2>7. v.open = {Primary} /\ v.adopt = filled.adopt /\ v.strip = filled.strip /\ Fine(v)
    BY <1>12, <2>4, <2>6 DEF Selects, Saves, AsIs, Fine
  <2>8. Done(v)
    BY <1>13, <1>16, <2>7 DEF Done, Filled
  <2>9. v.tag = filled.tag /\ v.suppressed = u.suppressed
    BY <1>12, <2>4, <2>6 DEF Selects, Saves, AsIs
  <2>10. Brought(u, v)
    <3>1. InStrip(v, Primary) = InStrip(filled, Primary)
      BY <2>7 DEF InStrip
    <3>2. PagesIn(v) = PagesIn(filled) /\ PagesIn(filled) # {} /\ PagesIn(filled) \subseteq Pages
      <4>1. PagesIn(filled) \subseteq Pages
        BY <1>1, <1>12, <1>17
      <4> QED
        BY <2>1, <2>9, <3>1, <4>1 DEF PagesIn
    <3>3. \A x \in InStrip(v, Primary) : v.tag[x] # None
      BY <3>2, NoneAssumption DEF PagesIn
    <3>4. ToSet(v.saved.tabs) = PagesIn(v)
      BY <2>6, <2>7, <3>3, PagesSaved
    <3> QED
      BY <1>18, <3>2, <3>4 DEF Brought
  <2> QED
    BY <1>14, <2>6, <2>7, <2>8, <2>9, <2>10
<1> QED
  BY <1>15, <1>16

----------------------------------------------------------------------------
(* The inductive invariant.  Between two handlers every window is in order   *)
(* and the saved list right; one gesture at a time is owed, and none while a *)
(* tab is to be adopted; a tab that is to be replaced has no session, and is *)
(* in the primary window only if that is the window it is replaced in.       *)

Owed == {None} \cup [do: {"move", "spawn", "replace"}, win: Windows,
                     tab: Tabs, page: Sessions \cup {None}]

Replaceable(u, l) ==
  /\ l.page \in Sessions /\ u.tag[l.tab] \notin Sessions
  /\ l.win # Primary => l.tab \notin InStrip(u, Primary)

Order(u, l, d) ==
  /\ Done(u) /\ Saved(u)
  /\ l \in Owed /\ d \in Tabs \cup {None}
  /\ l # None \/ d # None => NoAdoption(u)
  /\ l = None \/ d = None
  /\ u.open = {} => l = None /\ d = None
  /\ l # None => (l.do = "replace" => Replaceable(u, l))

IInv ==
  /\ Order(ui, later, drag)
  /\ hosts \subseteq Hosts /\ vms \subseteq VMs /\ polled \in BOOLEAN

\* What every step does: the list stays right, and no popup comes back under a
\* dialog.
Lasting(v) == Saved(v) /\ Hides(ui, v)

After == Order(ui', later', drag') /\ Hides(ui, ui')

Ended == IInv' /\ Hides(ui, ui')

LEMMA PassesLasting ==
  ASSUME Order(ui, later, drag), NEW v, Passes(ui, v)
  PROVE  Lasting(v)
BY SavedOn DEF Order, Done, Fine, Passes, Lasting

\* The process is not running.
LEMMA OffIs ==
  ASSUME NEW s \in [tabs : Seq(Pages), sel : Nat], Len(s.tabs) <= Cardinality(Tabs)
  PROVE  Done(Off(s)) /\ Off(s).open = {} /\ Off(s).child = {}
<1> DEFINE v == Off(s)
<1>1. /\ v \in UiState /\ v.open = {} /\ v.raised = {} /\ v.child = {} /\ v.saved = s
      /\ \A w \in Windows : v.strip[w] = <<>> /\ v.selected[w] = None /\ v.adopt[w] = None
  <2>1. <<>> \in Seq(Tabs) /\ 0 \in 0 .. MaxDialogs
    BY DialogsAssumption
  <2> QED
    BY <2>1 DEF UiState, Off
<1> HIDE DEF v
<1>2. \A w \in Windows : InStrip(v, w) = {}
  BY <1>1, Strips
<1>3. Apart(v)
  <2>1. IsInjective(<<>>)
    BY DEF IsInjective
  <2> QED
    BY <1>1, <1>2, <2>1 DEF Apart
<1>4. Shut(v) /\ Chosen(v, Windows) /\ Shown(v, Windows) /\ Owned(v, {}) /\ Fits(v) /\ Filled(v)
  BY <1>1 DEF Shut, Chosen, Shown, Owned, Fits, Filled
<1> QED
  BY <1>1, <1>3, <1>4 DEF Done, Fine, Good, v

\* A step that leaves the windows in order, with at most one gesture owed.
LEMMA BecomesIs ==
  ASSUME NEW u, NEW l, NEW d, Done(u), Lasting(u), l \in Owed, d \in Tabs \cup {None},
         l # None \/ d # None => NoAdoption(u),
         l = None \/ d = None,
         l # None => (l.do = "replace" => Replaceable(u, l)),
         Becomes(u, l, d)
  PROVE  After
<1>1. CASE u.open # {}
  BY <1>1 DEF Becomes, Order, Lasting, After
<1>2. CASE u.open = {}
  <2>1. ui' = Off(u.saved) /\ later' = None /\ drag' = None
    BY <1>2 DEF Becomes
  <2>2. u.saved \in [tabs : Seq(Pages), sel : Nat] /\ Len(u.saved.tabs) <= Cardinality(Tabs)
    BY DEF Done, Fine, Good, Fits, UiState
  <2>3. Done(Off(u.saved)) /\ Saved(Off(u.saved)) /\ Hides(ui, Off(u.saved))
    BY <2>2, OffIs DEF Saved, Hides
  <2> QED
    BY <2>1, <2>3 DEF Order, Owed, After
<1> QED
  BY <1>1, <1>2

\* The same with nothing owed.
LEMMA BecomesFree ==
  ASSUME NEW u, Done(u), Lasting(u), Becomes(u, None, None)
  PROVE  After
<1>1. None \in Owed
  BY DEF Owed
<1> QED
  BY <1>1, BecomesIs

\* The same with what was owed, the strips and the pages being as they were.
LEMMA BecomesSteady ==
  ASSUME NEW u, Order(ui, later, drag), Steady(ui, u), Does(u)
  PROVE  After
<1>1. Done(u)
  BY DEF Order, Done, Steady, Filled
<1>2. /\ later \in Owed /\ drag \in Tabs \cup {None}
      /\ later # None \/ drag # None => NoAdoption(u)
      /\ later = None \/ drag = None
      /\ later # None => (later.do = "replace" => Replaceable(u, later))
  BY DEF Order, Steady, NoAdoption, Replaceable, InStrip
<1>3. Lasting(u)
  BY PassesLasting DEF Steady
<1> QED
  BY <1>1, <1>2, <1>3, BecomesIs DEF Does

\* A user finds nothing owed, and no window about to adopt.
LEMMA IdleIs ==
  ASSUME Order(ui, later, drag), Idle
  PROVE  later = None /\ NoAdoption(ui)
<1>1. \A z \in Windows \ ui.open : ui.adopt[z] = None
  BY DEF Order, Done, Fine, Good, Shut
<1> QED
  BY <1>1 DEF Idle, Ready, NoAdoption

\* Nothing is carried when nothing is owed.
LEMMA CarriedIs ==
  /\ later = None /\ drag = None => Carried = {}
  /\ later # None => later.tab \in Carried \cup {None}
  /\ drag # None => drag \in Carried
BY DEF Carried

----------------------------------------------------------------------------
(* Each step keeps the invariant.                                           *)

LEMMA InitKeeps == Init => IInv
<1> SUFFICES ASSUME Init PROVE IInv
  OBVIOUS
<1> DEFINE s == [tabs |-> <<>>, sel |-> 0]
<1>1. s \in [tabs : Seq(Pages), sel : Nat] /\ Len(s.tabs) <= Cardinality(Tabs)
  <2>1. <<>> \in Seq(Pages) /\ Len(<<>>) = 0 /\ s.tabs = <<>>
    OBVIOUS
  <2>2. Cardinality(Tabs) \in Nat
    BY TabsAssumption, FS_CardinalityType
  <2> QED
    BY <2>1, <2>2
<1>2. ui = Off(s) /\ later = None /\ drag = None /\ hosts = {} /\ vms = {} /\ polled = FALSE
  BY DEF Init
<1> HIDE DEF s
<1>3. Done(ui)
  BY <1>1, <1>2, OffIs
<1>4. Saved(ui)
  BY <1>1, <1>2, OffIs DEF Saved
<1> QED
  BY <1>2, <1>3, <1>4 DEF IInv, Order, Owed

LEMMA LaunchKeeps == ASSUME IInv, Launch PROVE Ended /\ Brought(ui, ui')
<1> DEFINE u == [ui EXCEPT !.open = {Primary}]
           v == RestoreOpenTabs(u)
<1>1. /\ ui.open = {} /\ later = None /\ drag = None /\ ui \in UiState /\ Fine(ui)
  BY DEF Launch, IInv, Order, Done, Fine, Good
<1>2. /\ u \in UiState /\ u.open = {Primary} /\ u.adopt = ui.adopt /\ u.strip = ui.strip
      /\ u.selected = ui.selected /\ u.raised = ui.raised /\ u.wanted = ui.wanted /\ u.tag = ui.tag
      /\ u.child = ui.child /\ u.saved = ui.saved /\ u.suppressed = ui.suppressed
  BY <1>1, WindowsAssumption DEF UiState
<1> HIDE DEF u
<1>3. \A z \in Windows : ui.strip[z] = <<>> /\ ui.adopt[z] = None
  BY <1>1 DEF Fine, Good, Shut
<1>4. \A z \in Windows : InStrip(u, z) = {} /\ InStrip(ui, z) = {}
  BY <1>1, <1>2, <1>3, Strips
<1>5. Fine(u)
  <2>1. Apart(u)
    BY <1>1, <1>2, <1>4 DEF Fine, Good, Apart
  <2>2. Shut(u)
    BY <1>1, <1>2 DEF Fine, Good, Shut
  <2>3. Chosen(u, Windows)
    BY <1>1, <1>2, <1>4 DEF Fine, Good, Chosen
  <2>4. Shown(u, Windows)
    BY <1>2, <1>4, WindowsAssumption DEF Shown, SessionTabs
  <2>5. Owned(u, {})
    BY <1>1, <1>2 DEF Fine, Good, Owned
  <2>6. Fits(u)
    BY <1>1, <1>2 DEF Fine, Good, Fits
  <2> QED
    BY <1>2, <2>1, <2>2, <2>3, <2>4, <2>5, <2>6 DEF Fine, Good
<1>6. /\ Done(v) /\ v.open = {Primary} /\ v.suppressed = u.suppressed
      /\ Listing(v) /\ Brought(u, v)
  <2>1. NoAdoption(u) /\ Carried = {} /\ \A z \in Windows : u.strip[z] = <<>>
    BY <1>1, <1>2, <1>3, CarriedIs DEF NoAdoption
  <2> QED
    BY <1>2, <1>5, <2>1, RestoreIs
<1>7. Becomes(v, None, None)
  BY <1>1 DEF Launch, Does, u
<1> HIDE DEF v
<1>8. After
  <2>1. Lasting(v)
    BY <1>2, <1>6 DEF Lasting, Saved, Listing, Hides
  <2> QED
    BY <1>6, <1>7, <2>1, BecomesFree
<1>9. Brought(ui, ui')
  BY <1>2, <1>6, <1>7 DEF Becomes, Brought
<1> QED
  BY <1>8, <1>9 DEF Launch, IInv, Ended, After

LEMMA CrashKeeps == ASSUME IInv, Crash PROVE Ended
<1>1. ui.saved \in [tabs : Seq(Pages), sel : Nat] /\ Len(ui.saved.tabs) <= Cardinality(Tabs)
  BY DEF IInv, Order, Done, Fine, Good, Fits, UiState
<1>2. Done(Off(ui.saved)) /\ Lasting(Off(ui.saved))
  BY <1>1, OffIs DEF Lasting, Saved, Hides
<1>3. After
  BY <1>2, BecomesFree DEF Crash
<1> QED
  BY <1>3 DEF Crash, IInv, Ended, After

LEMMA PollKeeps == ASSUME IInv, Poll PROVE Ended
BY DEF Poll, IInv, Order, Ended, Hides

LEMMA DeletedKeeps == ASSUME IInv, NEW w \in Windows, OnVmManagerChanged(w) PROVE Ended
<1> DEFINE toClose == {t \in InStrip(ui, w) : ui.tag[t] \in VMs \ vms}
           close(u, t) == IF t \in toClose THEN CloseTabItem(u, w, t) ELSE u
           seq == ui.strip[w]
           n == Len(seq)
           job == [do |-> "close", tabs |-> toClose, win |-> w]
           F == CHOOSE f : f = [s \in SUBSET DOMAIN seq |->
                   IF s = {} THEN ui ELSE close(f[s \ {Max(s)}], seq[Max(s)])]
           v == FoldLeft(close, ui, seq)
<1>1. /\ Fine(ui) /\ Filled(ui) /\ w \in ui.open /\ ui.adopt[w] = None /\ ui \in UiState
      /\ Free(ui) # {} \/ Carried = {}
  BY DEF OnVmManagerChanged, Ready, RoomToClose, Room, IInv, Order, Done, Fine, Good
<1>2. Does(v) /\ UNCHANGED <<hosts, vms, polled>>
  BY DEF OnVmManagerChanged
<1>3. toClose \in SUBSET InStrip(ui, w)
  OBVIOUS
<1>4. DOMAIN seq = 1 .. n /\ n \in Nat
  BY <1>1, Strips, LenProperties
<1>5. v = F[DOMAIN seq]
  BY DEF FoldLeft, MapThenFoldSet
<1>6. \A x, t : Turn(job, x, t) = close(x, t)
  BY DEF Turn
<1> HIDE DEF toClose, v
<1>7. \A f : FoldedBy(f, 1 .. n, job, ui, seq) <=>
             f = [s \in SUBSET DOMAIN seq |->
                   IF s = {} THEN ui ELSE close(f[s \ {Max(s)}], seq[Max(s)])]
  <2> HIDE DEF close, job, F, n, seq
  <2> SUFFICES ASSUME NEW f
               PROVE  FoldedBy(f, 1 .. n, job, ui, seq) <=>
                      f = [s \in SUBSET DOMAIN seq |->
                            IF s = {} THEN ui ELSE close(f[s \ {Max(s)}], seq[Max(s)])]
    OBVIOUS
  <2>1. [s \in SUBSET (1 .. n) |->
          IF s = {} THEN ui ELSE Turn(job, f[s \ {Max(s)}], seq[Max(s)])]
        = [s \in SUBSET DOMAIN seq |->
            IF s = {} THEN ui ELSE close(f[s \ {Max(s)}], seq[Max(s)])]
    BY <1>4, <1>6
  <2> QED
    BY <2>1 DEF FoldedBy
<1> HIDE DEF close
<1>8. FoldedBy(F, 1 .. n, job, ui, seq)
  BY <1>4, <1>7, FoldExists
<1> HIDE DEF F
<1>9. Emptied(ui, v)
  BY <1>1, <1>3, <1>4, <1>5, <1>8, CloseAllIs
<1>10. /\ Done(v) /\ later \in Owed /\ drag \in Tabs \cup {None} /\ (later = None \/ drag = None)
       /\ later # None \/ drag # None => NoAdoption(v)
       /\ later # None => (later.do = "replace" => Replaceable(v, later))
  <2>1. /\ Done(v) /\ v.adopt = ui.adopt /\ NoNew(ui, v) /\ Order(ui, later, drag)
        /\ \A z \in Windows : InStrip(v, z) \cap Carried \subseteq InStrip(ui, z)
    BY <1>9 DEF Emptied, IInv
  <2>2. later # None => later.tab \in Tabs
    BY <2>1 DEF Order, Owed
  <2>3. later # None => later.tab \in Carried
    BY <2>2, CarriedIs, NoneAssumption
  <2>4. ASSUME later # None, later.do = "replace" PROVE Replaceable(v, later)
    <3>1. Replaceable(ui, later)
      BY <2>1, <2>4 DEF Order
    <3>2. v.tag[later.tab] \notin Sessions
      BY <2>1, <2>2, <2>4, <3>1 DEF NoNew, Replaceable
    <3> QED
      BY <2>1, <2>3, <2>4, <3>1, <3>2, WindowsAssumption DEF Replaceable
  <2> QED
    BY <2>1, <2>4 DEF Order, NoAdoption
<1>12. Lasting(v)
  BY <1>9, PassesLasting DEF Emptied, IInv
<1>11. After
  <2>1. Becomes(v, later, drag)
    BY <1>2 DEF Does
  <2> QED
    BY <1>10, <1>12, <2>1, BecomesIs
<1> QED
  BY <1>2, <1>11 DEF IInv, Ended, After

LEMMA SelectionKeeps == ASSUME IInv, NEW w \in Windows, SelectionChanged(w) PROVE Ended
<1>1. Fine(ui) /\ Order(ui, later, drag) /\ w \in ui.open
  BY DEF SelectionChanged, IInv, Order, Done, Fine, Good, Shut
<1>2. Steady(ui, OnTabSelectionChanged(ui, w))
  BY <1>1, SelectionChangedIs
<1>3. After
  BY <1>1, <1>2, BecomesSteady DEF SelectionChanged
<1> QED
  BY <1>3 DEF SelectionChanged, IInv, Ended, After

LEMMA ActivateKeeps == ASSUME IInv, NEW n \in Windows, Activate(n) PROVE Ended
<1> DEFINE v == AdoptMovedTab(Taken(ui, n), n, ui.adopt[n])
<1>1. Fine(ui) /\ Filled(ui) /\ n \in ui.open /\ ui.adopt[n] # None
  BY DEF Activate, IInv, Order, Done
<1>2. later = None /\ drag = None
  BY <1>1 DEF IInv, Order, NoAdoption
<1>3. Does(v)
  BY DEF Activate, Taken
<1>4. Done(v) /\ Lasting(v)
  <2>1. Done(v) /\ Passes(ui, v)
    BY <1>1, TakeIs
  <2> HIDE DEF v
  <2> QED
    BY <2>1, PassesLasting DEF IInv
<1> HIDE DEF v
<1>5. After
  BY <1>2, <1>3, <1>4, BecomesFree DEF Does
<1> QED
  BY <1>5 DEF Activate, IInv, Ended, After

\* What a user finds.
Found(w) ==
  /\ Order(ui, later, drag) /\ Fine(ui) /\ Filled(ui) /\ ui \in UiState
  /\ w \in ui.open /\ w \in Windows /\ later = None /\ drag = None
  /\ NoAdoption(ui) /\ ui.adopt[w] = None /\ Carried = {}

LEMMA FoundIs == ASSUME IInv, NEW w \in ui.open, Idle, drag = None PROVE Found(w)
<1>1. Order(ui, later, drag) /\ Fine(ui) /\ Filled(ui) /\ ui \in UiState /\ w \in Windows
  BY DEF IInv, Order, Done, Fine, Good, UiState
<1> QED
  BY <1>1, IdleIs, CarriedIs DEF Found, NoAdoption

LEMMA OpenTabKeeps == ASSUME IInv, NEW w \in Windows, OpenTab(w) PROVE Ended
<1>1. Found(w) /\ Free(ui) # {}
  BY FoundIs DEF OpenTab, User, Room
<1>2. PICK g \in vms \cup hosts \cup {"welcome", "settings"} : Does(OpenPage(ui, w, g))
  BY DEF OpenTab
<1>3. g \in Pages
  BY DEF IInv, Pages, Sessions
<1> DEFINE v == OpenPage(ui, w, g)
<1>4. Opened(ui, w, g, v) /\ Passes(ui, v)
  BY <1>1, <1>3, OpenPageIs DEF Found
<1> HIDE DEF v
<1>5. Done(v) /\ Lasting(v)
  BY <1>1, <1>4, OpenedDone, PassesLasting DEF Found
<1>6. Becomes(v, None, None)
  BY <1>1, <1>2 DEF Does, Found, v
<1>7. After
  BY <1>5, <1>6, BecomesFree
<1> QED
  BY <1>7 DEF OpenTab, IInv, Ended, After

LEMMA OpenFromWelcomeKeeps == ASSUME IInv, NEW w \in Windows, OpenFromWelcome(w) PROVE Ended
<1>1. Found(w)
  BY FoundIs DEF OpenFromWelcome, User
<1>2. PICK g \in vms \cup hosts :
        later' = [do |-> "replace", win |-> w, tab |-> ui.selected[w], page |-> g]
  BY DEF OpenFromWelcome
<1>3. g \in Sessions
  BY DEF IInv, Sessions
<1>4. ui' = ui /\ drag' = drag /\ ui.selected[w] \in Tabs /\ ui.tag[ui.selected[w]] \notin Sessions
  <2>1. ui.selected[w] \in Tabs \cup {None}
    BY <1>1 DEF Found, UiState
  <2> QED
    BY <2>1, PagesAssumption DEF OpenFromWelcome
<1>6. w # Primary => ui.selected[w] \notin InStrip(ui, Primary)
  <2>1. ui.selected[w] \in InStrip(ui, w)
    BY <1>1 DEF Found, Filled, Fine, Good, Chosen
  <2> QED
    BY <1>1, <2>1, WindowsAssumption DEF Found, Fine, Good, Apart
<1>5. After
  <2>1. later' \in Owed
    BY <1>1, <1>2, <1>3, <1>4 DEF Owed, Found
  <2>2. Done(ui) /\ ui.open # {} /\ Saved(ui) /\ NoAdoption(ui) /\ drag' = None
    BY <1>1, <1>4 DEF Found, Done, Order
  <2>3. Replaceable(ui, later')
    BY <1>2, <1>3, <1>4, <1>6 DEF Replaceable
  <2> QED
    BY <1>4, <2>1, <2>2, <2>3 DEF Order, After, Hides
<1> QED
  BY <1>5 DEF OpenFromWelcome, IInv, Ended, After

LEMMA SelectTabKeeps == ASSUME IInv, NEW w \in Windows, SelectTab(w) PROVE Ended
<1>1. Found(w)
  BY FoundIs DEF SelectTab, User
<1>2. PICK t \in InStrip(ui, w) : Does(Select(ui, w, t))
  BY DEF SelectTab
<1> DEFINE v == Select(ui, w, t)
<1>3. Good(v, Windows \cup {w}, {})
  <2>1. Good(ui, Windows, {}) /\ w \in Windows
    BY <1>1 DEF Found, Fine
  <2> QED
    BY <1>1, <2>1, SelectGood DEF Found
<1>4. Selects(ui, w, t, v)
  <2>1. t \in Tabs \cup {None}
    BY <1>1, Strips DEF Found
  <2> QED
    BY <1>1, <2>1, SelectIs DEF Found
<1>5. Becomes(v, None, None)
  BY <1>1, <1>2 DEF Does, Found
<1> HIDE DEF v
<1>6. Done(v)
  <2>1. Windows \cup {w} = Windows
    OBVIOUS
  <2> QED
    BY <1>1, <1>3, <1>4, <2>1 DEF Found, Done, Fine, Filled, Selects, AsIs
<1>8. Lasting(v)
  <2>1. Passes(ui, v)
    BY <1>4, SelectListed, DropsHides DEF Passes
  <2> QED
    BY <1>1, <2>1, PassesLasting DEF Found
<1>7. After
  BY <1>5, <1>6, <1>8, BecomesFree
<1> QED
  BY <1>7 DEF SelectTab, IInv, Ended, After

LEMMA CloseTabKeeps == ASSUME IInv, NEW w \in Windows, CloseTab(w) PROVE Ended
<1>1. Found(w)
  BY FoundIs DEF CloseTab, User
<1>2. PICK t \in InStrip(ui, w) : Does(CloseTabItem(ui, w, t))
  BY DEF CloseTab
<1> DEFINE v == CloseTabItem(ui, w, t)
<1>3. TabClosed(ui, w, t, v)
  BY <1>1, CloseTabIs DEF Found
<1> HIDE DEF v
<1>4. Done(v) /\ Lasting(v)
  <2>1. Passes(ui, v)
    BY <1>3, ListedPasses DEF TabClosed
  <2> QED
    BY <1>1, <1>3, <2>1, TabClosedDone, PassesLasting DEF Found
<1>5. Becomes(v, None, None)
  BY <1>1, <1>2 DEF Does, Found, v
<1>6. After
  BY <1>4, <1>5, BecomesFree
<1> QED
  BY <1>6 DEF CloseTab, IInv, Ended, After

LEMMA CloseKeepsAll == ASSUME IInv, NEW w \in Windows, Close(w) PROVE Ended
<1>1. Found(w)
  BY FoundIs DEF Close
<1> DEFINE v == CloseWindow(ui, w)
<1>2. WindowClosed(ui, w, v)
  BY <1>1, CloseWindowIs DEF Found
<1>3. Becomes(v, None, None)
  BY <1>1 DEF Close, Does, Found
<1> HIDE DEF v
<1>4. Done(v) /\ Lasting(v)
  <2>1. Passes(ui, v)
    BY <1>2, ListedPasses DEF WindowClosed
  <2>2. Done(v)
    BY <1>1, <1>2 DEF Found, Done, WindowClosed, Filled, UiState
  <2> QED
    BY <1>1, <2>1, <2>2, PassesLasting DEF Found
<1>5. After
  BY <1>3, <1>4, BecomesFree
<1> QED
  BY <1>5 DEF Close, IInv, Ended, After

LEMMA ForgetKeeps == ASSUME IInv, NEW w \in Windows, ForgetRemoteHost(w) PROVE Ended
<1>1. Found(w)
  BY FoundIs DEF ForgetRemoteHost, User
<1>2. PICK h \in hosts :
        /\ Does(IF OpenTabsOf(ui, w, h) = {} THEN ui ELSE CloseTabItem(ui, w, FindTab(ui, w, h)))
        /\ hosts' = hosts \ {h}
  BY DEF ForgetRemoteHost
<1> DEFINE t == FindTab(ui, w, h)
           v == CloseTabItem(ui, w, t)
<1>3. After
  <2>1. CASE OpenTabsOf(ui, w, h) = {}
    <3>1. Becomes(ui, None, None) /\ Done(ui) /\ Lasting(ui)
      BY <1>1, <1>2, <2>1, PassesSelf, PassesLasting DEF Does, Found, Done
    <3> QED
      BY <3>1, BecomesFree
  <2>2. CASE OpenTabsOf(ui, w, h) # {}
    <3>1. t \in InStrip(ui, w)
      BY <1>1, <2>2, FindTabIs DEF Found
    <3>2. Becomes(v, None, None)
      BY <1>1, <1>2, <2>2 DEF Does, Found
    <3> HIDE DEF t
    <3>3. TabClosed(ui, w, t, v)
      BY <1>1, <3>1, CloseTabIs DEF Found
    <3> HIDE DEF v
    <3>4. Done(v) /\ Lasting(v)
      <4>1. Passes(ui, v)
        BY <3>3, ListedPasses DEF TabClosed
      <4> QED
        BY <1>1, <3>3, <4>1, TabClosedDone, PassesLasting DEF Found
    <3> QED
      BY <3>2, <3>4, BecomesFree
  <2> QED
    BY <2>1, <2>2
<1> QED
  BY <1>2, <1>3 DEF ForgetRemoteHost, IInv, Ended, After

LEMMA DialogKeeps ==
  ASSUME IInv, NEW w \in Windows, OpenDialog(w) \/ CloseDialog(w)
  PROVE  Ended
<1>1. Order(ui, later, drag) /\ Fine(ui) /\ ui \in UiState
  BY DEF IInv, Order, Done, Fine, Good
<1>2. CASE OpenDialog(w)
  <2>1. ui.depth[w] < MaxDialogs
    <3>1. ui.depth[w] + (IF w = w THEN 0 ELSE ui.depth[w]) < MaxDialogs /\ ui.depth[w] \in Nat
      BY <1>1, <1>2, DialogsAssumption DEF OpenDialog, UiState
    <3> QED
      BY <3>1
  <2>2. Steady(ui, PushPopupSuppression(ui, w))
    BY <1>1, <2>1, PushIs
  <2>3. After
    BY <1>1, <1>2, <2>2, BecomesSteady DEF OpenDialog
  <2> QED
    BY <1>2, <2>3 DEF OpenDialog, IInv, Ended, After
<1>3. CASE CloseDialog(w)
  <2>1. Steady(ui, PopPopupSuppression(ui, w))
    BY <1>1, PopIs
  <2>2. After
    BY <1>1, <1>3, <2>1, BecomesSteady DEF CloseDialog
  <2> QED
    BY <1>3, <2>2 DEF CloseDialog, IInv, Ended, After
<1> QED
  BY <1>2, <1>3

LEMMA FinishDialogKeeps == ASSUME IInv, NEW w \in Windows, FinishDialog(w) PROVE Ended
<1>1. Found(w) /\ Free(ui) # {}
  BY FoundIs DEF FinishDialog, Room
<1>2. PICK g \in vms \cup Hosts :
        /\ Does(PopPopupSuppression(OpenPage(ui, w, g), w))
        /\ hosts' = hosts \cup ({g} \cap Hosts)
  BY DEF FinishDialog
<1>3. g \in Pages
  BY DEF IInv, Pages, Sessions
<1> DEFINE o == OpenPage(ui, w, g)
           v == PopPopupSuppression(o, w)
<1>4. Opened(ui, w, g, o) /\ Passes(ui, o)
  BY <1>1, <1>3, OpenPageIs DEF Found
<1>5. Becomes(v, None, None)
  BY <1>1, <1>2 DEF Does, Found
<1> HIDE DEF o
<1>6. Done(o)
  BY <1>1, <1>4, OpenedDone DEF Found
<1>7. Steady(o, v)
  BY <1>6, PopIs DEF Done
<1> HIDE DEF v
<1>8. Done(v)
  BY <1>6, <1>7 DEF Done, Steady, Filled
<1>10. Lasting(v)
  <2>1. Faithful(ui, v)
    BY <1>4, <1>6, <1>7, FaithfulOn DEF Passes, Steady, Done, Fine
  <2>2. Hides(ui, v)
    BY <1>4, <1>7 DEF Opened, Added, Steady, Passes, Hides
  <2> QED
    BY <1>1, <2>1, <2>2, PassesLasting DEF Found, Passes
<1>9. After
  BY <1>5, <1>8, <1>10, BecomesFree
<1> QED
  BY <1>2, <1>9 DEF FinishDialog, IInv, Ended, After

LEMMA DragKeeps == ASSUME IInv, NEW w \in Windows, OnTabDragStarting(w) PROVE Ended
<1>1. Found(w)
  BY FoundIs DEF OnTabDragStarting, User
<1>2. drag' \in InStrip(ui, w) /\ ui' = ui /\ later' = later
  BY DEF OnTabDragStarting
<1>3. drag' \in Tabs
  BY <1>1, <1>2, Strips DEF Found
<1>4. After
  BY <1>1, <1>2, <1>3 DEF Order, Found, After, Hides
<1> QED
  BY <1>4 DEF OnTabDragStarting, IInv, Ended, After

LEMMA ReorderKeeps == ASSUME IInv, NEW w \in Windows, Reorder(w) PROVE Ended
<1>1. /\ Fine(ui) /\ Filled(ui) /\ w \in ui.open /\ drag \in InStrip(ui, w) /\ later = None
  BY DEF Reorder, Ready, IInv, Order, Done
<1>2. PICK i \in DOMAIN ui.strip[w], b \in BOOLEAN : Becomes(Reordered(ui, w, drag, i, b), later, None)
  BY DEF Reorder, Reordered
<1> DEFINE v == Reordered(ui, w, drag, i, b)
<1>3. Done(v) /\ Lasting(v)
  <2>1. Saved(ui)
    BY DEF IInv, Order
  <2> QED
    BY <1>1, <2>1, ReorderIs DEF Lasting
<1>4. Becomes(v, None, None)
  BY <1>1, <1>2
<1> HIDE DEF v
<1>5. After
  BY <1>3, <1>4, BecomesFree
<1> QED
  BY <1>5 DEF Reorder, IInv, Ended, After

LEMMA DropKeeps ==
  ASSUME IInv, NEW w \in Windows, DropOnStrip(w) \/ DropOutside(w)
  PROVE  Ended
<1>1. /\ Order(ui, later, drag) /\ drag # None /\ w \in ui.open /\ ui' = ui /\ drag' = None
      /\ UNCHANGED <<hosts, vms, polled>>
  BY DEF DropOnStrip, DropOutside, Ready, IInv
<1>2. PICK do \in {"move", "spawn"} :
        later' = [do |-> do, win |-> w, tab |-> drag, page |-> None]
  BY DEF DropOnStrip, DropOutside
<1>3. later' \in Owed /\ later'.do # "replace"
  BY <1>1, <1>2 DEF Order, Owed
<1>4. After
  BY <1>1, <1>3 DEF Order, After, Hides
<1> QED
  BY <1>1, <1>4 DEF IInv, Ended, After

LEMMA CancelKeeps == ASSUME IInv, CancelDrag PROVE Ended
<1>1. After
  BY DEF CancelDrag, IInv, Order, After, Hides
<1> QED
  BY <1>1 DEF CancelDrag, IInv, Ended, After

LEMMA NextTurnKeeps == ASSUME IInv, NextTurn PROVE Ended
<1> DEFINE w == later.win
           t == later.tab
<1>1. /\ Order(ui, later, drag) /\ Fine(ui) /\ Filled(ui) /\ NoAdoption(ui) /\ Done(ui)
      /\ later # None /\ drag = None /\ Free(ui) # {} /\ w \in Windows /\ t \in Tabs
  <2>1. Order(ui, later, drag) /\ later # None /\ Free(ui) # {}
    BY DEF NextTurn, Room, IInv
  <2>2. later \in [do: {"move", "spawn", "replace"}, win: Windows, tab: Tabs, page: Sessions \cup {None}]
    BY <2>1 DEF Order, Owed
  <2> QED
    BY <2>1, <2>2 DEF Order, Done
<1>2. t \in Carried
  BY <1>1, CarriedIs, NoneAssumption
<1> SUFFICES After
  BY DEF NextTurn, IInv, Ended, After
<1>3. CASE w \notin ui.open /\ Becomes(ui, None, drag)
  BY <1>1, <1>3, PassesSelf, PassesLasting, BecomesFree
<1>4. CASE w \in ui.open /\ later.do = "replace" /\ Becomes(ReplaceTabWith(ui, w, t, later.page), None, drag)
  <2>1. /\ later.page \in Sessions /\ ui.tag[t] \notin Sessions
        /\ w # Primary => t \notin InStrip(ui, Primary)
    BY <1>1, <1>4 DEF Order, Replaceable
  <2> DEFINE v == ReplaceTabWith(ui, w, t, later.page)
  <2>2. Done(v) /\ Passes(ui, v)
    <3>1. ui.adopt[w] = None
      BY <1>1 DEF NoAdoption
    <3> HIDE DEF w, t
    <3> QED
      BY <1>1, <1>2, <1>4, <2>1, <3>1, ReplaceIs
  <2>3. Becomes(v, None, None)
    BY <1>1, <1>4
  <2> HIDE DEF v
  <2> QED
    BY <1>1, <2>2, <2>3, PassesLasting, BecomesFree
<1>5. CASE w \in ui.open /\ later.do = "move" /\ \E i \in 1 .. (Len(ui.strip[w]) + 1) :
                                 Becomes(MoveTabToThisWindow(ui, w, t, i), None, drag)
  <2>1. PICK i \in 1 .. (Len(ui.strip[w]) + 1) : Becomes(MoveTabToThisWindow(ui, w, t, i), None, drag)
    BY <1>5
  <2> DEFINE v == MoveTabToThisWindow(ui, w, t, i)
  <2>2. Done(v) /\ Passes(ui, v)
    <3> HIDE DEF w, t
    <3> QED
      BY <1>1, <1>2, <1>5, MoveIs
  <2>3. Becomes(v, None, None)
    BY <1>1, <2>1
  <2> HIDE DEF v
  <2> QED
    BY <1>1, <2>2, <2>3, PassesLasting, BecomesFree
<1>6. CASE w \in ui.open /\ later.do = "spawn" /\ \E n \in Windows \ (ui.open \cup {Primary}) :
                                 Becomes(SpawnWindowForTab(ui, t, n), None, drag)
  <2>1. PICK n \in Windows \ (ui.open \cup {Primary}) : Becomes(SpawnWindowForTab(ui, t, n), None, drag)
    BY <1>6
  <2> DEFINE v == SpawnWindowForTab(ui, t, n)
  <2>2. Done(v) /\ Passes(ui, v)
    <3> HIDE DEF t
    <3> QED
      BY <1>1, <1>2, SpawnIs
  <2>3. Becomes(v, None, None)
    BY <1>1, <2>1
  <2> HIDE DEF v
  <2> QED
    BY <1>1, <2>2, <2>3, PassesLasting, BecomesFree
<1> QED
  BY <1>3, <1>4, <1>5, <1>6 DEF NextTurn

LEMMA StepKeeps == ASSUME IInv, [Next]_vars PROVE Ended
<1>1. CASE UNCHANGED vars
  BY <1>1 DEF vars, IInv, Order, Ended, Hides
<1>2. CASE Launch \/ Crash \/ Poll \/ CancelDrag \/ NextTurn
  BY <1>2, LaunchKeeps, CrashKeeps, PollKeeps, CancelKeeps, NextTurnKeeps
<1>3. ASSUME NEW w \in Windows, Handle(w) PROVE Ended
  BY <1>3, DeletedKeeps, SelectionKeeps, ActivateKeeps DEF Handle
<1>4. ASSUME NEW w \in Windows, Click(w) PROVE Ended
  BY <1>4, OpenTabKeeps, OpenFromWelcomeKeeps, SelectTabKeeps, CloseTabKeeps, CloseKeepsAll,
     ForgetKeeps, DialogKeeps, FinishDialogKeeps DEF Click
<1>5. ASSUME NEW w \in Windows, Drag(w) PROVE Ended
  BY <1>5, DragKeeps, ReorderKeeps, DropKeeps DEF Drag
<1> QED
  BY <1>1, <1>2, <1>3, <1>4, <1>5 DEF Next

LEMMA NextKeeps == IInv /\ [Next]_vars => IInv'
BY StepKeeps DEF Ended

----------------------------------------------------------------------------
(* The theorems.                                                            *)

\* The invariant holds of every reachable state.
LEMMA Invariance == Spec => []IInv
<1> QED
  BY InitKeeps, NextKeeps, PTL DEF Spec

\* Every variable keeps its type: no handler selects, saves or closes a tab that
\* is not there, in particular none of the loops over a strip that shrinks under
\* them or over a saved list (OnVmManagerChanged, RestoreOpenTabs).
THEOREM TabTypeCorrect == Spec => []TypeOK
<1>1. IInv => TypeOK
  BY DEF IInv, Order, Owed, Done, Fine, Good, TypeOK
<1> QED
  BY <1>1, Invariance, PTL

\* Whatever is opened, closed, replaced, torn out or dropped, the list that a crash
\* would leave is the primary window's strip with the place of its selected tab;
\* after a reorder, the same tabs (PersistOpenTabs and its callers).
THEOREM ListStaysStrip == Spec => []SavedIsStrip
<1>1. IInv => SavedIsStrip
  BY DEF IInv, Order, Saved, SavedIsStrip
<1> QED
  BY <1>1, Invariance, PTL

\* The step formula of UncoveredByLastDialog.
Uncovers ==
  \A t \in (ui.suppressed \ ui'.suppressed) \cap ui'.child :
    \A w \in ui'.open : t \in ToSet(ui'.strip[w]) => ui'.depth[w] = 0

\* A popup hidden for a dialog comes back only in a window that has no dialog
\* left, although tabs move between windows, dialogs overlap and sessions end
\* while they are hidden (PushPopupSuppression, PopPopupSuppression).
THEOREM PopupsStayCovered == Spec => UncoveredByLastDialog
<1>1. IInv /\ [Next]_vars => Uncovers
  <2> SUFFICES ASSUME IInv, [Next]_vars PROVE Uncovers
    OBVIOUS
  <2>1. Hides(ui, ui')
    BY StepKeeps DEF Ended
  <2> QED
    BY <2>1 DEF Hides, InStrip, Uncovers
<1> QED
  BY <1>1, Invariance, PTL DEF Spec, UncoveredByLastDialog, Uncovers

\* While the process is not running there is nothing to do but to launch it.
LEMMA OnlyLaunch == ASSUME IInv, Next, ui.open = {} PROVE Launch
<1>1. later = None /\ drag = None /\ ui.raised = {}
  <2>1. later = None /\ drag = None /\ Shut(ui) /\ ui.raised \subseteq Windows
    BY DEF IInv, Order, Done, Fine, Good, UiState
  <2> QED
    BY <2>1 DEF Shut
<1>2. ~ Crash /\ ~ Poll /\ ~ CancelDrag /\ ~ NextTurn
  BY <1>1 DEF Crash, Poll, CancelDrag, NextTurn
<1>3. ASSUME NEW w \in Windows PROVE ~ Handle(w) /\ ~ Drag(w)
  BY <1>1 DEF Handle, OnVmManagerChanged, SelectionChanged, Activate, Ready, Drag,
     OnTabDragStarting, Reorder, DropOnStrip, DropOutside, User
<1>4. ASSUME NEW w \in Windows PROVE ~ Click(w)
  BY DEF Click, OpenTab, OpenFromWelcome, SelectTab, CloseTab, Close, ForgetRemoteHost,
     OpenDialog, CloseDialog, FinishDialog, Ready, User
<1> QED
  BY <1>2, <1>3, <1>4 DEF Next

\* The step formula of RestoreKeepsTabs.
Restores ==
  ui.open = {} /\ ui'.open # {} =>
    LET kept == ToSet(ui.saved.tabs) \ (Hosts \ hosts)
    IN ToSet(ui'.saved.tabs) = IF kept = {} THEN {"welcome"} ELSE kept

\* A launch loses no tab of the saved list but those of hosts that are not saved
\* any more, and saves the list again at once with the same tabs, whatever was
\* known of the VMs (RestoreOpenTabs).
THEOREM LaunchKeepsTabs == Spec => RestoreKeepsTabs
<1>1. IInv /\ [Next]_vars => Restores
  <2> SUFFICES ASSUME IInv, [Next]_vars, ui.open = {}, ui'.open # {}
               PROVE  Brought(ui, ui')
    BY DEF Restores, Brought
  <2>1. Next
    BY DEF vars
  <2> QED
    BY <2>1, OnlyLaunch, LaunchKeeps
<1> QED
  BY <1>1, Invariance, PTL DEF Spec, RestoreKeepsTabs, Restores

\* A running session is in exactly one place of one open window, whatever is torn
\* out, dropped or closed in whatever order (MoveTabToThisWindow,
\* SpawnWindowForTab, ShutdownAllTabClients).
THEOREM SessionsStayOwned == Spec => []SessionsOwned
<1>1. IInv => SessionsOwned
  <2> SUFFICES ASSUME IInv, NEW t \in ui.child PROVE Cardinality(Places(t)) = 1
    BY DEF SessionsOwned
  <2> DEFINE at(w) == {i \in DOMAIN ui.strip[w] : ui.strip[w][i] = t}
             hands == {v \in ui.open : ui.adopt[v] = t}
             P == Places(t)
  <2>0. /\ ui \in UiState /\ ui.open \subseteq Windows /\ Apart(ui) /\ Owned(ui, {})
        /\ t \in Tabs /\ t # None
    BY NoneAssumption DEF IInv, Order, Done, Fine, Good, UiState
  <2>1. P = {<<w, 0>> : w \in hands} \cup (UNION {{w} \X at(w) : w \in ui.open})
    BY DEF Places
  <2> HIDE DEF P
  <2>2. \A w \in Windows : at(w) # {} <=> t \in InStrip(ui, w)
    BY DEF InStrip, ToSet
  <2>3. \A w \in Windows : \A i, j \in at(w) : i = j
    BY <2>0 DEF Apart, IsInjective
  <2>4. PICK w \in ui.open : t \in InStrip(ui, w) \/ ui.adopt[w] = t
    BY <2>0 DEF Owned
  <2>5. CASE t \in InStrip(ui, w)
    <3>1. PICK i : i \in at(w)
      BY <2>0, <2>2, <2>5
    <3>2. hands = {}
      BY <2>0, <2>5 DEF Apart
    <3>3. \A v \in ui.open : v # w => at(v) = {}
      BY <2>0, <2>2, <2>5 DEF Apart
    <3>4. at(w) = {i}
      BY <2>0, <2>3, <3>1
    <3> HIDE DEF at, hands
    <3>5. P = {<<w, i>>}
      BY <2>1, <3>2, <3>3, <3>4
    <3> QED
      BY <3>5, FS_Singleton DEF P
  <2>6. CASE t \notin InStrip(ui, w)
    <3>1. hands = {w}
      BY <2>0, <2>4, <2>6 DEF Apart
    <3>2. \A v \in ui.open : at(v) = {}
      BY <2>0, <2>2, <2>4, <2>6 DEF Apart
    <3> HIDE DEF at, hands
    <3>3. P = {<<w, 0>>}
      BY <2>1, <3>1, <3>2
    <3> QED
      BY <3>3, FS_Singleton DEF P
  <2> QED
    BY <2>5, <2>6
<1> QED
  BY <1>1, Invariance, PTL

\* No open window is left without a selected tab but one that is about to adopt
\* its first, and once SelectionChanged is delivered the one popup a window shows
\* is its selected tab's (CloseTabItem, HandleSourceAfterDetach,
\* OnTabSelectionChanged).
THEOREM WindowsStayFilled == Spec => []WindowsShowSelected
<1>1. IInv => WindowsShowSelected
  <2> SUFFICES ASSUME IInv, NEW w \in ui.open
               PROVE  /\ ui.adopt[w] = None => ui.selected[w] \in InStrip(ui, w)
                      /\ w \notin ui.raised =>
                           \A t \in SessionTabs(ui, w) : t \in ui.wanted <=> ui.selected[w] = t
    BY DEF WindowsShowSelected
  <2>1. /\ w \in Windows /\ Filled(ui) /\ Chosen(ui, Windows) /\ Shown(ui, Windows)
    BY DEF IInv, Order, Done, Fine, Good, UiState
  <2> QED
    BY <2>1 DEF Filled, Chosen, Shown
<1> QED
  BY <1>1, Invariance, PTL

=============================================================================
