------------------------ MODULE DownlinkPacer_proofs -------------------------
(***************************************************************************)
(* Proof that the scheduler implements the paced link, although its clock  *)
(* wraps, and that it holds nothing back that the link would let through.  *)
(*                                                                         *)
(* Both follow from one invariant, Pace.  Its hardest part is Covers: for  *)
(* every span up to the window, the bits sent within it are the bits of    *)
(* some newest entries of the history, all of them younger than the span.  *)
(* It survives the merging of entries, which makes old bits younger, and   *)
(* the wrap of the clock, after which an old entry may look young: both    *)
(* only make the scheduler wait longer.                                    *)
(***************************************************************************)
EXTENDS DownlinkPacer, SequenceTheorems, WellFoundedInduction, TLAPS

Times == 0 .. Mod - 1

\* The ticks from b to a, when the clock wraps at most once between them.
Gap(a, b) == (a - b) % Mod

-----------------------------------------------------------------------------
(* The clock                                                               *)

LEMMA ConstantTypes ==
    /\ Mod \in Nat \ {0} /\ Half \in Nat \ {0} /\ Mod = 2 * Half
    /\ Window \in Nat \ {0} /\ Slot \in Nat \ {0} /\ Slot <= Window /\ Window < Half
    /\ Capacity \in Nat \ {0}
  <1>1. Half \in Int
    BY PacerAssumption DEF Half
  <1> QED BY <1>1, PacerAssumption

LEMMA RemainderNone ==
    ASSUME NEW N \in Nat \ {0}, NEW x \in Int, 0 <= x, x < N PROVE x % N = x
  BY SMT

LEMMA RemainderUp ==
    ASSUME NEW N \in Nat \ {0}, NEW x \in Int, -N <= x, x < 0 PROVE x % N = x + N
  BY SMT

LEMMA RemainderDown ==
    ASSUME NEW N \in Nat \ {0}, NEW x \in Int, N <= x, x < 2 * N PROVE x % N = x - N
  BY SMT

LEMMA GapIs ==
    ASSUME NEW a \in Times, NEW b \in Times
    PROVE  /\ Gap(a, b) = IF a >= b THEN a - b ELSE a - b + Mod
           /\ Gap(a, b) \in Times
           /\ Gap(b, a) = IF Gap(a, b) = 0 THEN 0 ELSE Mod - Gap(a, b)
  <1>1. Mod \in Nat \ {0} /\ a \in 0 .. Mod - 1 /\ b \in 0 .. Mod - 1
    BY ConstantTypes DEF Times
  <1>2. ASSUME NEW x \in Times, NEW y \in Times
        PROVE  Gap(x, y) = IF x >= y THEN x - y ELSE x - y + Mod
    <2>1. x \in 0 .. Mod - 1 /\ y \in 0 .. Mod - 1 /\ x - y \in Int
      BY <1>1 DEF Times
    <2>2. CASE x >= y
      <3>1. 0 <= x - y /\ x - y < Mod
        BY <1>1, <2>1, <2>2
      <3>2. (x - y) % Mod = x - y
        BY <1>1, <2>1, <3>1, RemainderNone
      <3> QED BY <2>2, <3>2 DEF Gap
    <2>3. CASE x < y
      <3>1. -Mod <= x - y /\ x - y < 0
        BY <1>1, <2>1, <2>3
      <3>2. ~(x >= y)
        BY <2>1, <2>3
      <3>3. (x - y) % Mod = x - y + Mod
        BY <1>1, <2>1, <3>1, RemainderUp
      <3> QED BY <3>2, <3>3 DEF Gap
    <2> QED BY <2>1, <2>2, <2>3
  <1>3. /\ Gap(a, b) = IF a >= b THEN a - b ELSE a - b + Mod
        /\ Gap(b, a) = IF b >= a THEN b - a ELSE b - a + Mod
    BY <1>2
  <1> QED BY <1>1, <1>3 DEF Times

LEMMA LaterIs ==
    ASSUME NEW a \in Times, NEW d \in Times
    PROVE  /\ Later(a, d) = IF a + d < Mod THEN a + d ELSE a + d - Mod
           /\ Later(a, d) \in Times
  <1>1. Mod \in Nat \ {0} /\ a \in 0 .. Mod - 1 /\ d \in 0 .. Mod - 1 /\ a + d \in Int
    BY ConstantTypes DEF Times
  <1>2. CASE a + d < Mod
    <2>1. (a + d) % Mod = a + d
      <3>1. 0 <= a + d /\ a + d < Mod
        BY <1>1, <1>2
      <3> QED BY <1>1, <3>1, RemainderNone
    <2>2. Later(a, d) = a + d
      BY <2>1 DEF Later
    <2>3. a + d \in Times
      BY <1>1, <1>2 DEF Times
    <2> QED BY <1>2, <2>2, <2>3
  <1>3. CASE ~(a + d < Mod)
    <2>1. (a + d) % Mod = a + d - Mod
      <3>1. PICK x \in Int : x = a + d
        BY <1>1
      <3>2. Mod <= x /\ x < 2 * Mod
        BY <1>1, <1>3, <3>1
      <3>3. x % Mod = x - Mod
        BY <1>1, <3>2, RemainderDown
      <3> QED BY <1>1, <3>1, <3>3
    <2>2. Later(a, d) = a + d - Mod
      BY <2>1 DEF Later
    <2>3. a + d - Mod \in Times
      BY <1>1, <1>3 DEF Times
    <2> QED BY <1>3, <2>2, <2>3
  <1> QED BY <1>2, <1>3

\* Moving the later time on widens the gap.
LEMMA GapGrows ==
    ASSUME NEW a \in Times, NEW b \in Times, NEW d \in Times, Gap(a, b) + d < Mod
    PROVE  Gap(Later(a, d), b) = Gap(a, b) + d
  <1>1. PICK c \in Times : c = Later(a, d)
    BY LaterIs
  <1>2. c = IF a + d < Mod THEN a + d ELSE a + d - Mod
    BY <1>1, LaterIs
  <1>3. /\ Gap(a, b) = IF a >= b THEN a - b ELSE a - b + Mod
        /\ Gap(c, b) = IF c >= b THEN c - b ELSE c - b + Mod
    BY GapIs
  <1>4. /\ Mod \in Nat /\ a \in 0 .. Mod - 1 /\ b \in 0 .. Mod - 1 /\ c \in 0 .. Mod - 1
        /\ d \in 0 .. Mod - 1
    BY ConstantTypes DEF Times
  <1>5. Gap(c, b) = Gap(a, b) + d
    BY <1>2, <1>3, <1>4
  <1> QED BY <1>1, <1>5

\* Moving the earlier time on narrows it.
LEMMA GapShrinks ==
    ASSUME NEW a \in Times, NEW b \in Times, Gap(b, a) > 0
    PROVE  Gap(b, Later(a, 1)) = Gap(b, a) - 1
  <1>0. 1 \in Times /\ Mod \in Nat
    BY ConstantTypes DEF Times
  <1>1. PICK c \in Times : c = Later(a, 1)
    BY <1>0, LaterIs
  <1>2. c = IF a + 1 < Mod THEN a + 1 ELSE a + 1 - Mod
    BY <1>0, <1>1, LaterIs
  <1>3. /\ Gap(b, a) = IF b >= a THEN b - a ELSE b - a + Mod
        /\ Gap(b, c) = IF b >= c THEN b - c ELSE b - c + Mod
    BY GapIs
  <1>4. a \in 0 .. Mod - 1 /\ b \in 0 .. Mod - 1 /\ c \in 0 .. Mod - 1
    BY DEF Times
  <1>5. Gap(b, c) = Gap(b, a) - 1
    BY <1>0, <1>2, <1>3, <1>4
  <1> QED BY <1>1, <1>5

-----------------------------------------------------------------------------
(* Induction                                                               *)

LEMMA LeastNumber ==
  ASSUME NEW T, T \subseteq Nat, T # {}
  PROVE  \E x \in T : \A y \in T : ~(y < x)
<1>1. PICK R : R = OpToRel(<, Nat)
  OBVIOUS
<1>2. IsWellFoundedOn(R, Nat)
  BY <1>1, NatLessThanWellFounded, Zenon
<1>3. PICK x \in T : \A y \in T : ~(<<y, x>> \in R)
  BY <1>2, WFMin
<1>4. \A a, b \in Nat : a < b => <<a, b>> \in R
  BY <1>1 DEF OpToRel
<1>5. QED
  BY <1>3, <1>4

LEMMA Induction ==
  ASSUME NEW S, 0 \in S, \A n \in Nat : n \in S => n + 1 \in S
  PROVE  Nat \subseteq S
<1> DEFINE T == Nat \ S
<1>1. SUFFICES ASSUME T # {} PROVE FALSE
  OBVIOUS
<1>2. PICK x \in T : \A y \in T : ~(y < x)
  BY <1>1, LeastNumber
<1>3. x # 0 /\ x \in Nat
  OBVIOUS
<1>4. x - 1 \in Nat /\ x - 1 < x /\ (x - 1) + 1 = x
  BY <1>3
<1>5. x - 1 \in S
  BY <1>2, <1>4
<1>6. QED
  BY <1>2, <1>4, <1>5

-----------------------------------------------------------------------------
(* Sums over the history                                                   *)

Entries == [at : Times, bits : Nat]

\* p[i] is the sum of the first i entries of s.
Sums(s, p) ==
    /\ p \in [0 .. Len(s) -> Nat] /\ p[0] = 0
    /\ \A i \in 1 .. Len(s) : p[i] = p[i - 1] + s[i].bits
    /\ \A i, k \in 0 .. Len(s) : i <= k => p[i] <= p[k]

LEMMA BitsAreTheSum ==
    ASSUME NEW s, Len(s) \in Nat, NEW p, Sums(s, p)
    PROVE  Bits(s) = p[Len(s)]
  <1> DEFINE Is(f) == f = [n \in 0 .. Len(s) |-> IF n = 0 THEN 0 ELSE f[n - 1] + s[n].bits]
             sum   == CHOOSE f : Is(f)
             Same  == {m \in Nat : m <= Len(s) => sum[m] = p[m]}
  <1>1. Is(p)
    <2>1. ASSUME NEW n \in 0 .. Len(s)
          PROVE  p[n] = IF n = 0 THEN 0 ELSE p[n - 1] + s[n].bits
      <3>1. CASE n = 0
        BY <3>1 DEF Sums
      <3>2. CASE n # 0
        <4>1. n \in 1 .. Len(s)
          BY <3>2
        <4> QED BY <3>2, <4>1 DEF Sums
      <3> QED BY <3>1, <3>2
    <2>2. p = [n \in 0 .. Len(s) |-> p[n]]
      BY DEF Sums
    <2> QED BY <2>1, <2>2
  <1>2. Bits(s) = sum[Len(s)]
    BY DEF Bits
  <1>3. Is(sum)
    <2> HIDE DEF Is
    <2> QED BY <1>1, Zenon
  <1>4. \A n \in 0 .. Len(s) : sum[n] = IF n = 0 THEN 0 ELSE sum[n - 1] + s[n].bits
    <2> HIDE DEF sum
    <2> QED BY <1>3
  <1> HIDE DEF sum
  <1>5. 0 \in Same
    BY <1>4 DEF Sums
  <1>6. ASSUME NEW m \in Nat, m \in Same PROVE m + 1 \in Same
    <2>1. SUFFICES ASSUME m + 1 <= Len(s) PROVE sum[m + 1] = p[m + 1]
      OBVIOUS
    <2>2. m + 1 \in 1 .. Len(s) /\ m + 1 # 0 /\ (m + 1) - 1 = m /\ sum[m] = p[m]
      BY <1>6, <2>1
    <2>3. sum[m + 1] = sum[m] + s[m + 1].bits
      BY <1>4, <2>2
    <2>4. p[m + 1] = p[m] + s[m + 1].bits
      BY <2>2 DEF Sums
    <2> QED BY <2>2, <2>3, <2>4
  <1> HIDE DEF Same
  <1>7. Nat \subseteq Same
    BY <1>5, <1>6, Induction
  <1> QED BY <1>2, <1>7 DEF Same

\* The sums behind the first g entries.
Shifted(q, p, g, n) == q = [i \in 0 .. n |-> p[i + g] - p[g]]

LEMMA SumsDropped ==
    ASSUME NEW s \in Seq(Entries), NEW p, Sums(s, p), NEW g \in 0 .. Len(s),
           NEW t \in Seq(Entries), Len(t) = Len(s) - g,
           \A i \in 1 .. Len(t) : t[i] = s[i + g],
           NEW q, Shifted(q, p, g, Len(t))
    PROVE  Sums(t, q)
  <1>1. Len(s) \in Nat /\ Len(t) \in Nat /\ g \in Nat
    BY LenProperties
  <1>2. ASSUME NEW i \in 0 .. Len(t)
        PROVE  /\ i + g \in 0 .. Len(s) /\ p[i + g] \in Nat /\ p[g] \in Nat /\ p[g] <= p[i + g]
               /\ q[i] = p[i + g] - p[g]
    <2>1. i + g \in 0 .. Len(s) /\ g <= i + g
      BY <1>1
    <2>2. p[i + g] \in Nat /\ p[g] \in Nat /\ p[g] <= p[i + g]
      BY <2>1 DEF Sums
    <2>3. q[i] = p[i + g] - p[g]
      BY DEF Shifted
    <2> QED BY <2>1, <2>2, <2>3
  <1>3. q = [i \in 0 .. Len(t) |-> q[i]] /\ \A i \in 0 .. Len(t) : q[i] \in Nat
    <2>1. ASSUME NEW i \in 0 .. Len(t) PROVE q[i] \in Nat
      <3>1. p[i + g] \in Nat /\ p[g] \in Nat /\ p[g] <= p[i + g] /\ q[i] = p[i + g] - p[g]
        BY <1>2
      <3> QED BY <3>1
    <2>2. q = [i \in 0 .. Len(t) |-> q[i]]
      BY DEF Shifted
    <2> QED BY <2>1, <2>2
  <1>4. q \in [0 .. Len(t) -> Nat] /\ q[0] = 0
    <2>1. 0 \in 0 .. Len(t) /\ 0 + g = g
      BY <1>1
    <2>2. q[0] = p[0 + g] - p[g] /\ p[g] \in Nat
      BY <1>2, <2>1
    <2>3. q[0] = 0
      BY <2>1, <2>2
    <2> QED BY <1>3, <2>3
  <1>5. ASSUME NEW i \in 1 .. Len(t) PROVE q[i] = q[i - 1] + t[i].bits
    <2>1. i \in 0 .. Len(t) /\ i - 1 \in 0 .. Len(t) /\ i + g \in 1 .. Len(s)
          /\ (i + g) - 1 = (i - 1) + g
      BY <1>1
    <2>2. t[i] = s[i + g]
      OBVIOUS
    <2>3. s[i + g] \in Entries
      BY <2>1, ElementOfSeq
    <2>4. PICK b \in Nat : b = s[i + g].bits
      BY <2>3 DEF Entries
    <2>5. p[i + g] = p[(i - 1) + g] + b
      BY <2>1, <2>4 DEF Sums
    <2>6. q[i] = p[i + g] - p[g] /\ p[g] \in Nat
      BY <1>2, <2>1
    <2>7. q[i - 1] = p[(i - 1) + g] - p[g] /\ p[(i - 1) + g] \in Nat
      BY <1>2, <2>1
    <2>8. q[i] = q[i - 1] + b
      BY <2>5, <2>6, <2>7
    <2> QED BY <2>2, <2>4, <2>8
  <1>6. ASSUME NEW i \in 0 .. Len(t), NEW k \in 0 .. Len(t), i <= k PROVE q[i] <= q[k]
    <2>1. i + g \in 0 .. Len(s) /\ k + g \in 0 .. Len(s) /\ i + g <= k + g
      BY <1>1, <1>2, <1>6
    <2>2. p[i + g] <= p[k + g]
      BY <2>1 DEF Sums
    <2>3. /\ q[i] = p[i + g] - p[g] /\ q[k] = p[k + g] - p[g]
          /\ p[i + g] \in Nat /\ p[k + g] \in Nat /\ p[g] \in Nat
      BY <1>2
    <2> QED BY <2>2, <2>3
  <1> QED BY <1>4, <1>5, <1>6 DEF Sums

\* The sums of the first n entries, and one more sum.
Extended(q, p, n, sum) == q = [i \in 0 .. n + 1 |-> IF i = n + 1 THEN sum ELSE p[i]]

\* The sums go on after the first n entries, which do not change.
LEMMA SumsExtended ==
    ASSUME NEW s, Len(s) \in Nat, NEW p, Sums(s, p), NEW t, NEW n \in Nat,
           Len(t) = n + 1, n <= Len(s), \A i \in 1 .. n : t[i] = s[i], t[n + 1].bits \in Nat,
           NEW q, Extended(q, p, n, p[n] + t[n + 1].bits)
    PROVE  Sums(t, q)
  <1>1. ASSUME NEW i \in 0 .. n PROVE q[i] = p[i] /\ p[i] \in Nat /\ p[i] <= p[n]
    <2>1. i \in 0 .. Len(s) /\ n \in 0 .. Len(s) /\ i <= n /\ i # n + 1
          /\ i \in 0 .. n + 1
      OBVIOUS
    <2>2. q[i] = p[i]
      BY <2>1 DEF Extended
    <2> QED BY <2>1, <2>2 DEF Sums
  <1>2. q[n + 1] = p[n] + t[n + 1].bits /\ p[n] \in Nat
    <2>1. q[n + 1] = p[n] + t[n + 1].bits
      BY DEF Extended
    <2> QED BY <1>1, <2>1
  <1>3. ASSUME NEW i \in 0 .. n + 1 PROVE q[i] \in Nat
    <2>1. CASE i = n + 1
      BY <1>2, <2>1
    <2>2. CASE i # n + 1
      <3>1. i \in 0 .. n
        BY <2>2
      <3> QED BY <1>1, <3>1
    <2> QED BY <2>1, <2>2
  <1>4. q \in [0 .. n + 1 -> Nat] /\ q[0] = 0
    <2>1. q[0] = p[0] /\ p[0] = 0
      BY <1>1 DEF Sums
    <2>2. q = [i \in 0 .. n + 1 |-> q[i]]
      BY DEF Extended
    <2> QED BY <1>3, <2>1, <2>2
  <1>5. ASSUME NEW i \in 1 .. n + 1 PROVE q[i] = q[i - 1] + t[i].bits
    <2>1. CASE i = n + 1
      <3>1. i - 1 = n /\ n \in 0 .. n
        BY <2>1
      <3> QED BY <1>1, <1>2, <2>1, <3>1
    <2>2. CASE i # n + 1
      <3>1. i \in 0 .. n /\ i - 1 \in 0 .. n /\ i \in 1 .. n /\ i \in 1 .. Len(s)
        BY <2>2
      <3>2. p[i] = p[i - 1] + s[i].bits
        BY <3>1 DEF Sums
      <3> QED BY <1>1, <3>1, <3>2
    <2> QED BY <2>1, <2>2
  <1>6. ASSUME NEW i \in 0 .. n + 1, NEW k \in 0 .. n + 1, i <= k PROVE q[i] <= q[k]
    <2>1. CASE k = n + 1
      <3>1. CASE i = n + 1
        BY <1>2, <2>1, <3>1
      <3>2. CASE i # n + 1
        <4>1. q[i] = p[i] /\ p[i] \in Nat /\ p[i] <= p[n]
          <5>1. i \in 0 .. n
            BY <3>2
          <5> QED BY <1>1, <5>1
        <4> QED BY <1>2, <2>1, <4>1
      <3> QED BY <3>1, <3>2
    <2>2. CASE k # n + 1
      <3>1. i \in 0 .. n /\ k \in 0 .. n /\ i \in 0 .. Len(s) /\ k \in 0 .. Len(s)
        BY <1>6, <2>2
      <3>2. p[i] <= p[k]
        BY <1>6, <3>1 DEF Sums
      <3> QED BY <1>1, <3>1, <3>2
    <2> QED BY <2>1, <2>2
  <1> QED BY <1>4, <1>5, <1>6 DEF Sums

-----------------------------------------------------------------------------
(* The history covers what was sent                                        *)

\* Younger entries than d ticks, with p their sums, make up the amount.
Holds(s, p, now, d, amount) ==
    \E j \in 0 .. Len(s) :
        /\ \A i \in j + 1 .. Len(s) : Gap(now, s[i].at) < d
        /\ amount + p[j] <= p[Len(s)]

Covers(s, now, amounts) ==
    \E p : Sums(s, p) /\ \A d \in 0 .. Window : Holds(s, p, now, d, amounts[d])

\* What left the window covered nothing of it.
LEMMA CoversDropped ==
    ASSUME NEW s \in Seq(Entries), NEW now, NEW x \in [0 .. Window -> Nat], Covers(s, now, x),
           NEW g \in 0 .. Len(s), \A i \in 1 .. g : Gap(now, s[i].at) >= Window,
           NEW t \in Seq(Entries), Len(t) = Len(s) - g,
           \A i \in 1 .. Len(t) : t[i] = s[i + g], now \in Times
    PROVE  Covers(t, now, x)
  <1>1. PICK p : Sums(s, p) /\ \A d \in 0 .. Window : Holds(s, p, now, d, x[d])
    BY DEF Covers
  <1>2. PICK q : Shifted(q, p, g, Len(t))
    BY DEF Shifted
  <1>3. Sums(t, q)
    BY <1>1, <1>2, SumsDropped
  <1>4. Len(s) \in Nat /\ Len(t) \in Nat /\ g \in Nat /\ Window \in Nat
    BY LenProperties, ConstantTypes
  <1>5. ASSUME NEW i \in 0 .. Len(t)
        PROVE  q[i] = p[i + g] - p[g] /\ p[i + g] \in Nat /\ p[g] \in Nat
    <2>1. i + g \in 0 .. Len(s)
      BY <1>4
    <2> QED BY <1>1, <1>2, <2>1 DEF Shifted, Sums
  <1>6. ASSUME NEW d \in 0 .. Window PROVE Holds(t, q, now, d, x[d])
    <2>1. PICK j \in 0 .. Len(s) : /\ \A i \in j + 1 .. Len(s) : Gap(now, s[i].at) < d
                                   /\ x[d] + p[j] <= p[Len(s)]
      BY <1>1 DEF Holds
    <2>2. g <= j
      <3>1. SUFFICES ASSUME j < g PROVE FALSE
        BY <1>4
      <3>2. g \in 1 .. g /\ g \in j + 1 .. Len(s)
        BY <1>4, <3>1
      <3>3. Gap(now, s[g].at) >= Window /\ Gap(now, s[g].at) < d
        BY <2>1, <3>2
      <3>4. Gap(now, s[g].at) \in Int
        <4>1. s[g].at \in Times
          <5>1. g \in 1 .. Len(s)
            BY <3>2
          <5>2. s[g] \in Entries
            BY <5>1, ElementOfSeq
          <5> QED BY <5>2 DEF Entries
        <4>2. Gap(now, s[g].at) \in Times
          BY <4>1, GapIs
        <4> QED BY <4>2, ConstantTypes DEF Times
      <3> QED BY <1>4, <3>3, <3>4
    <2>3. PICK k \in 0 .. Len(t) : k + g = j
      <3>1. j - g \in 0 .. Len(t) /\ (j - g) + g = j
        BY <1>4, <2>2
      <3> QED BY <3>1
    <2>4. ASSUME NEW i \in k + 1 .. Len(t) PROVE Gap(now, t[i].at) < d
      <3>1. i \in 1 .. Len(t) /\ i + g \in j + 1 .. Len(s)
        BY <1>4, <2>3
      <3>2. t[i] = s[i + g]
        BY <3>1
      <3> QED BY <2>1, <3>1, <3>2
    <2>5. x[d] + q[k] <= q[Len(t)]
      <3>1. q[k] = p[j] - p[g] /\ p[j] \in Nat /\ p[g] \in Nat
        BY <1>5, <2>3
      <3>2. q[Len(t)] = p[Len(s)] - p[g] /\ p[Len(s)] \in Nat
        <4>1. Len(t) \in 0 .. Len(t) /\ Len(t) + g = Len(s)
          BY <1>4
        <4> QED BY <1>5, <4>1
      <3>3. x[d] \in Nat
        OBVIOUS
      <3>4. ASSUME NEW a \in Nat, NEW b \in Nat, NEW c \in Nat, NEW e \in Nat, a + b <= c
            PROVE  a + (b - e) <= c - e
        BY <3>4
      <3>5. x[d] + (p[j] - p[g]) <= p[Len(s)] - p[g]
        BY <2>1, <3>1, <3>2, <3>3, <3>4
      <3> QED BY <3>1, <3>2, <3>5
    <2> QED BY <2>4, <2>5 DEF Holds
  <1> QED BY <1>3, <1>6 DEF Covers

\* More was sent, within every span.
More(y, x, bits) == \A d \in 0 .. Window : y[d] = IF d = 0 THEN 0 ELSE x[d] + bits

\* An entry of the same time, which takes over what the entries behind the n-th
\* stood for, covers it.
LEMMA CoversMore ==
    ASSUME NEW s \in Seq(Entries), NEW now \in Times, NEW x \in [0 .. Window -> Nat],
           Covers(s, now, x), NEW bits \in Nat, NEW y, More(y, x, bits),
           NEW n \in Nat, n <= Len(s), NEW t \in Seq(Entries), Len(t) = n + 1,
           \A i \in 1 .. n : t[i] = s[i], t[n + 1].at = now,
           \/ n = Len(s) /\ t[n + 1].bits = bits
           \/ n = Len(s) - 1 /\ t[n + 1].bits = s[n + 1].bits + bits
    PROVE  Covers(t, now, y)
  <1>1. PICK p : Sums(s, p) /\ \A d \in 0 .. Window : Holds(s, p, now, d, x[d])
    BY DEF Covers
  <1>2. Len(s) \in Nat /\ Window \in Nat
    BY LenProperties, ConstantTypes
  <1>3. PICK e \in Nat : e = t[n + 1].bits
    <2>1. n + 1 \in 1 .. Len(t)
      OBVIOUS
    <2>2. t[n + 1] \in Entries
      BY <2>1, ElementOfSeq
    <2> QED BY <2>2 DEF Entries
  <1>4. PICK q : Extended(q, p, n, p[n] + t[n + 1].bits)
    BY DEF Extended
  <1>5. Sums(t, q)
    BY <1>1, <1>2, <1>3, <1>4, SumsExtended
  <1>6. q[n + 1] = p[n] + e /\ \A i \in 0 .. n : q[i] = p[i]
    BY <1>3, <1>4 DEF Extended
  <1>7. /\ \A i \in 0 .. Len(s) : p[i] \in Nat
        /\ \A i \in 0 .. Len(s), k \in 0 .. Len(s) : i <= k => p[i] <= p[k]
    BY <1>1 DEF Sums
  <1>8. p[n] + e = p[Len(s)] + bits
    <2>1. CASE n = Len(s) /\ e = bits
      BY <2>1
    <2>2. CASE n = Len(s) - 1 /\ e = s[n + 1].bits + bits
      <3>1. n + 1 = Len(s) /\ n + 1 \in 1 .. Len(s) /\ (n + 1) - 1 = n
        BY <1>2, <2>2
      <3>2. p[n + 1] = p[n] + s[n + 1].bits
        BY <1>1, <3>1 DEF Sums
      <3>3. s[n + 1].bits \in Nat
        <4>1. s[n + 1] \in Entries
          BY <3>1, ElementOfSeq
        <4> QED BY <4>1 DEF Entries
      <3>4. p[n] \in Nat
        BY <1>2, <1>7
      <3> QED BY <2>2, <3>1, <3>2, <3>3, <3>4
    <2> QED BY <1>3, <2>1, <2>2
  <1>9. ASSUME NEW d \in 0 .. Window PROVE Holds(t, q, now, d, y[d])
    <2>1. CASE d = 0
      <3>1. y[d] = 0 /\ q[n + 1] \in Nat
        BY <1>2, <1>6, <1>7, <2>1 DEF More
      <3>2. n + 1 \in 0 .. Len(t) /\ y[d] + q[n + 1] <= q[Len(t)]
        BY <3>1
      <3>3. \A i \in (n + 1) + 1 .. Len(t) : Gap(now, t[i].at) < d
        OBVIOUS
      <3> QED BY <3>2, <3>3 DEF Holds
    <2>2. CASE d # 0
      <3>1. PICK j \in 0 .. Len(s) : /\ \A i \in j + 1 .. Len(s) : Gap(now, s[i].at) < d
                                     /\ x[d] + p[j] <= p[Len(s)]
        BY <1>1 DEF Holds
      <3>2. PICK k \in 0 .. n : k <= j /\ (k = j \/ k = n)
        <4>1. CASE j <= n
          <5>1. j \in 0 .. n
            BY <4>1
          <5> QED BY <5>1
        <4>2. CASE ~(j <= n)
          <5>1. n \in 0 .. n /\ n <= j
            BY <1>2, <4>2
          <5> QED BY <4>2, <5>1
        <4> QED BY <4>1, <4>2
      <3>3. ASSUME NEW i \in k + 1 .. Len(t) PROVE Gap(now, t[i].at) < d
        <4>1. CASE i = n + 1
          <5>1. Gap(now, now) = 0
            BY GapIs DEF Times
          <5> QED BY <2>2, <4>1, <5>1
        <4>2. CASE i # n + 1
          <5>1. i \in 1 .. n /\ k # n
            BY <4>2
          <5>2. k = j
            BY <1>2, <3>2, <5>1
          <5>3. i \in j + 1 .. Len(s)
            BY <1>2, <5>1, <5>2
          <5>4. t[i] = s[i]
            BY <5>1
          <5> QED BY <3>1, <5>3, <5>4
        <4> QED BY <4>1, <4>2
      <3>4. y[d] + q[k] <= q[Len(t)]
        <4>1. y[d] = x[d] + bits /\ x[d] \in Nat
          BY <2>2 DEF More
        <4>2. q[k] = p[k] /\ q[Len(t)] = p[Len(s)] + bits
          BY <1>6, <1>8
        <4>3. p[k] <= p[j] /\ p[k] \in Nat /\ p[j] \in Nat /\ p[Len(s)] \in Nat
          <5>1. k \in 0 .. Len(s) /\ j \in 0 .. Len(s) /\ Len(s) \in 0 .. Len(s)
            BY <1>2
          <5> QED BY <1>7, <3>2, <5>1
        <4>4. x[d] + p[k] <= p[Len(s)]
          BY <3>1, <4>1, <4>3
        <4> QED BY <4>1, <4>2, <4>3, <4>4
      <3>5. k \in 0 .. Len(t)
        OBVIOUS
      <3> QED BY <3>3, <3>4, <3>5 DEF Holds
    <2> QED BY <2>1, <2>2
  <1> QED BY <1>5, <1>9 DEF Covers

\* Time narrows what a span holds, and takes no entry into it.
LEMMA CoversLater ==
    ASSUME NEW s \in Seq(Entries), NEW now \in Times, NEW x, Covers(s, now, x),
           NEW y, \A d \in 0 .. Window : y[d] = IF d = 0 THEN 0 ELSE x[d - 1]
    PROVE  Covers(s, Later(now, 1), y)
  <1>1. PICK p : Sums(s, p) /\ \A d \in 0 .. Window : Holds(s, p, now, d, x[d])
    BY DEF Covers
  <1>2. /\ Len(s) \in Nat /\ Mod \in Nat \ {0} /\ Half \in Nat \ {0} /\ Mod = 2 * Half
        /\ Window \in Nat /\ Window < Half
    BY LenProperties, ConstantTypes
  <1>3. ASSUME NEW d \in 0 .. Window PROVE Holds(s, p, Later(now, 1), d, y[d])
    <2>1. CASE d = 0
      <3>1. y[d] = 0 /\ p[Len(s)] \in Nat
        BY <1>1, <1>2, <2>1 DEF Sums
      <3>2. Len(s) \in 0 .. Len(s) /\ y[d] + p[Len(s)] <= p[Len(s)]
        BY <1>2, <3>1
      <3>3. \A i \in Len(s) + 1 .. Len(s) : Gap(Later(now, 1), s[i].at) < d
        BY <1>2
      <3> QED BY <3>2, <3>3 DEF Holds
    <2>2. CASE d # 0
      <3>1. d - 1 \in 0 .. Window /\ y[d] = x[d - 1]
        BY <1>2, <2>2
      <3>2. PICK j \in 0 .. Len(s) : /\ \A i \in j + 1 .. Len(s) : Gap(now, s[i].at) < d - 1
                                     /\ x[d - 1] + p[j] <= p[Len(s)]
        BY <1>1, <3>1 DEF Holds
      <3>3. ASSUME NEW i \in j + 1 .. Len(s) PROVE Gap(Later(now, 1), s[i].at) < d
        <4>1. PICK a \in Times : a = s[i].at
          <5>1. i \in 1 .. Len(s)
            OBVIOUS
          <5>2. s[i] \in Entries
            BY <5>1, ElementOfSeq
          <5> QED BY <5>2 DEF Entries
        <4>2. Gap(now, a) < d - 1
          BY <3>2, <4>1
        <4>3. Gap(now, a) \in 0 .. Mod - 1
          BY GapIs DEF Times
        <4>4. 1 \in Times /\ Gap(now, a) + 1 < Mod
          BY <1>2, <4>2, <4>3 DEF Times
        <4>5. Gap(Later(now, 1), a) = Gap(now, a) + 1
          BY <4>4, GapGrows
        <4>6. Gap(now, a) + 1 < d
          BY <1>2, <4>2, <4>3
        <4> QED BY <4>1, <4>5, <4>6
      <3> QED BY <3>1, <3>2, <3>3 DEF Holds
    <2> QED BY <2>1, <2>2
  <1> QED BY <1>1, <1>3 DEF Covers

-----------------------------------------------------------------------------
(* The functions on the history                                            *)

\* expire_burst_history drops a front part, of entries that left the window.
LEMMA ExpiredIs ==
    ASSUME history \in Seq(Entries), clock \in Times
    PROVE  /\ ExpiredBurstHistory \in Seq(Entries)
           /\ Len(ExpiredBurstHistory) <= Len(history)
           /\ \A x \in [0 .. Window -> Nat] :
                 Covers(history, clock, x) => Covers(ExpiredBurstHistory, clock, x)
  <1> DEFINE Gone(n) == \A i \in 1 .. n : (clock - history[i].at) % Mod >= Window
             Ends(n) == Gone(n) /\ (n = Len(history) \/ ~Gone(n + 1))
             gone    == CHOOSE n \in 0 .. Len(history) : Ends(n)
             kept    == SubSeq(history, gone + 1, Len(history))
             Stops   == {n \in 0 .. Len(history) : n = Len(history) \/ ~Gone(n + 1)}
  <1>1. Len(history) \in Nat
    BY LenProperties
  <1>2. PICK n \in Stops : \A m \in Stops : ~(m < n)
    <2>1. Stops \subseteq Nat /\ Len(history) \in Stops
      BY <1>1
    <2> QED BY <2>1, LeastNumber, Zenon
  <1>3. n \in 0 .. Len(history) /\ (n = Len(history) \/ ~Gone(n + 1))
    OBVIOUS
  <1>4. Gone(n)
    <2>1. CASE n = 0
      BY <2>1
    <2>2. CASE n # 0
      <3>1. /\ n - 1 \in 0 .. Len(history) /\ n - 1 < n /\ n - 1 # Len(history)
            /\ (n - 1) + 1 = n
        BY <1>1, <1>3, <2>2
      <3>2. n - 1 \notin Stops
        BY <1>2, <3>1
      <3> HIDE DEF Gone
      <3> QED BY <3>1, <3>2
    <2> QED BY <2>1, <2>2
  <1>5. gone \in 0 .. Len(history) /\ Gone(gone)
    <2>1. Ends(n)
      BY <1>3, <1>4
    <2> HIDE DEF Ends
    <2>2. gone \in 0 .. Len(history) /\ Ends(gone)
      BY <1>3, <2>1, Zenon
    <2> HIDE DEF gone
    <2> QED BY <2>2 DEF Ends
  <1>6. ExpiredBurstHistory = kept
    BY DEF ExpiredBurstHistory
  <1> HIDE DEF gone, Stops, Ends
  <1>7. \A i \in 1 .. gone : Gap(clock, history[i].at) >= Window
    BY <1>5 DEF Gap
  <1> HIDE DEF Gone
  <1>8. /\ kept \in Seq(Entries) /\ Len(kept) = Len(history) - gone
        /\ \A i \in 1 .. Len(kept) : kept[i] = history[i + gone]
    <2>1. /\ gone + 1 \in Int /\ Len(history) \in Int
          /\ \A i \in gone + 1 .. Len(history) : history[i] \in Entries
      BY <1>1, <1>5, ElementOfSeq
    <2>2. /\ kept \in Seq(Entries)
          /\ Len(kept) = IF gone + 1 <= Len(history) THEN Len(history) - (gone + 1) + 1 ELSE 0
          /\ \A i \in 1 .. Len(history) - (gone + 1) + 1 : kept[i] = history[(gone + 1) + i - 1]
      BY <2>1, SubSeqProperties
    <2> HIDE DEF kept
    <2>3. Len(kept) = Len(history) - gone
      BY <1>1, <1>5, <2>2
    <2>4. ASSUME NEW i \in 1 .. Len(kept) PROVE kept[i] = history[i + gone]
      <3>1. i \in 1 .. Len(history) - (gone + 1) + 1 /\ (gone + 1) + i - 1 = i + gone
        BY <1>1, <1>5, <2>3
      <3> QED BY <2>2, <3>1
    <2> QED BY <2>2, <2>3, <2>4
  <1> HIDE DEF kept
  <1>9. ASSUME NEW x \in [0 .. Window -> Nat], Covers(history, clock, x)
        PROVE  Covers(kept, clock, x)
    BY <1>5, <1>7, <1>8, <1>9, CoversDropped
  <1>10. Len(kept) <= Len(history)
    BY <1>1, <1>5, <1>8
  <1> QED BY <1>6, <1>8, <1>9, <1>10

\* What the history bounds is what was sent.
LEMMA BitsCover ==
    ASSUME NEW s \in Seq(Entries), NEW now, NEW x \in [0 .. Window -> Nat], Covers(s, now, x)
    PROVE  x[Window] <= Bits(s) /\ Bits(s) \in Nat /\ (s = <<>> => x[Window] = 0)
  <1>1. PICK p : Sums(s, p) /\ \A d \in 0 .. Window : Holds(s, p, now, d, x[d])
    BY DEF Covers
  <1>2. Len(s) \in Nat /\ Window \in 0 .. Window /\ x[Window] \in Nat
    BY LenProperties, ConstantTypes
  <1>3. PICK j \in 0 .. Len(s) : x[Window] + p[j] <= p[Len(s)]
    BY <1>1, <1>2 DEF Holds
  <1>4. p[j] \in Nat /\ p[Len(s)] \in Nat /\ p[0] = 0
    BY <1>1, <1>2 DEF Sums
  <1>5. Bits(s) = p[Len(s)]
    BY <1>1, <1>2, BitsAreTheSum
  <1>6. x[Window] <= p[Len(s)]
    BY <1>2, <1>3, <1>4
  <1>7. ASSUME s = <<>> PROVE x[Window] = 0
    <2>1. Len(s) = 0
      BY <1>7
    <2> QED BY <1>2, <1>4, <1>6, <2>1
  <1> QED BY <1>4, <1>5, <1>6, <1>7

\* record_sent_packet covers the packet, merged or not.
LEMMA RecordedIs ==
    ASSUME history \in Seq(Entries), Len(history) <= Capacity, clock \in Times,
           NEW x \in [0 .. Window -> Nat], Covers(history, clock, x),
           NEW bits \in Nat, NEW y, More(y, x, bits)
    PROVE  /\ RecordSentPacket(bits) \in Seq(Entries)
           /\ Len(RecordSentPacket(bits)) <= Capacity
           /\ Covers(RecordSentPacket(bits), clock, y)
  <1> DEFINE kept  == ExpiredBurstHistory
             entry == [at |-> clock, bits |-> bits]
  <1>1. kept \in Seq(Entries) /\ Len(kept) <= Len(history) /\ Covers(kept, clock, x)
    BY ExpiredIs
  <1>2. entry \in Entries /\ entry.at = clock /\ entry.bits = bits
    BY DEF Entries
  <1>3. /\ Len(kept) \in Nat /\ Len(history) \in Nat /\ Capacity \in Nat \ {0}
        /\ Len(kept) <= Capacity
    BY <1>1, LenProperties, ConstantTypes
  <1>4. RecordSentPacket(bits) =
           IF Len(kept) < Capacity THEN Append(kept, entry)
           ELSE [kept EXCEPT ![Capacity] = [entry EXCEPT !.bits = @ + kept[Capacity].bits]]
    BY DEF RecordSentPacket
  <1> HIDE DEF kept, entry
  <1>5. CASE Len(kept) < Capacity
    <2>1. PICK t : t = Append(kept, entry)
      OBVIOUS
    <2>2. /\ t \in Seq(Entries) /\ Len(t) = Len(kept) + 1
          /\ \A i \in 1 .. Len(kept) : t[i] = kept[i]
          /\ t[Len(kept) + 1] = entry
      BY <1>1, <1>2, <2>1, AppendProperties
    <2>3. t[Len(kept) + 1].at = clock /\ t[Len(kept) + 1].bits = bits
      BY <1>2, <2>2
    <2>4. Covers(t, clock, y)
      <3>1. PICK n \in Nat : n = Len(kept)
        BY <1>3
      <3>2. /\ n <= Len(kept) /\ Len(t) = n + 1 /\ n = Len(kept)
            /\ \A i \in 1 .. n : t[i] = kept[i]
            /\ t[n + 1].at = clock /\ t[n + 1].bits = bits
        BY <2>2, <2>3, <3>1
      <3>3. t \in Seq(Entries) /\ Covers(kept, clock, x)
        BY <1>1, <2>2
      <3>4. \/ n = Len(kept) /\ t[n + 1].bits = bits
            \/ n = Len(kept) - 1 /\ t[n + 1].bits = kept[n + 1].bits + bits
        BY <3>2
      <3> QED BY <1>1, <3>2, <3>3, <3>4, CoversMore, Zenon
    <2>5. Len(t) <= Capacity
      BY <1>3, <1>5, <2>2
    <2> QED BY <1>4, <1>5, <2>1, <2>2, <2>4, <2>5
  <1>6. CASE ~(Len(kept) < Capacity)
    <2>1. Len(kept) = Capacity /\ Capacity \in 1 .. Len(kept)
      BY <1>3, <1>6
    <2>2. PICK last \in Entries : last = kept[Capacity]
      BY <1>1, <2>1, ElementOfSeq
    <2>3. PICK merged \in Entries : /\ merged = [entry EXCEPT !.bits = @ + last.bits]
                                    /\ merged.at = clock /\ merged.bits = last.bits + bits
      <3>1. last.bits \in Nat /\ last.bits + bits \in Nat
        BY <2>2 DEF Entries
      <3>2. [entry EXCEPT !.bits = @ + last.bits] = [at |-> clock, bits |-> last.bits + bits]
        BY <1>2, <3>1 DEF entry
      <3>3. [at |-> clock, bits |-> last.bits + bits] \in Entries
        BY <3>1 DEF Entries
      <3> QED BY <3>2, <3>3
    <2>4. PICK t : t = [kept EXCEPT ![Capacity] = merged]
      OBVIOUS
    <2>5. /\ t \in Seq(Entries) /\ Len(t) = Len(kept)
          /\ \A i \in 1 .. Len(kept) : i # Capacity => t[i] = kept[i]
          /\ t[Capacity] = merged
      BY <1>1, <2>1, <2>3, <2>4, ExceptSeq
    <2>6. PICK n \in Nat : n = Capacity - 1
      BY <1>3
    <2>7. /\ n <= Len(kept) /\ Len(t) = n + 1 /\ n + 1 = Capacity /\ n = Len(kept) - 1
          /\ \A i \in 1 .. n : t[i] = kept[i]
      BY <1>3, <2>1, <2>5, <2>6
    <2>8. t[n + 1].at = clock /\ t[n + 1].bits = kept[n + 1].bits + bits
      BY <2>2, <2>3, <2>5, <2>7
    <2>9. Covers(t, clock, y)
      BY <1>1, <2>5, <2>7, <2>8, CoversMore
    <2>10. RecordSentPacket(bits) = t
      BY <1>4, <1>6, <2>2, <2>3, <2>4
    <2> QED BY <1>3, <2>1, <2>5, <2>9, <2>10
  <1> QED BY <1>5, <1>6

-----------------------------------------------------------------------------
(* The invariant                                                           *)

Types ==
    /\ clock \in Times /\ nextSend \in Times /\ nextSlot \in Times
    /\ limit \in Limits /\ debt \in Nat /\ silence \in 0 .. Half
    /\ history \in Seq(Entries) /\ Len(history) <= Capacity
    /\ sent \in [0 .. Window -> Nat]
    /\ sequence \in {0, 1}

\* Without a limit nothing is counted.
Unlimited == limit = 0 => debt = 0 /\ sent = Promise!Nothing

\* A debt is paid by next_regular_send_us at the earliest.
Paid == debt > 0 => debt <= Gap(nextSend, clock) /\ Gap(nextSend, clock) <= Half

\* A send less than d ticks ago leaves more than Slot - d ticks of its slot.
Slotted ==
    \A d \in 0 .. Slot :
        sent[d] > 0 => Gap(nextSlot, clock) \in Slot - d + 1 .. Slot

Covered == Covers(history, clock, sent)

\* Where next_regular_send_us is, exactly, as long as it cannot have wrapped
SendPrompt ==
    IF debt > 0 THEN Gap(nextSend, clock) = debt /\ debt < Half
    ELSE Gap(clock, nextSend) <= silence

\* Where next_telemetry_slot_us is: at a change of the limit, at the end of the
\* slot of the last send, or ahead of the clock
SlotPrompt ==
    \/ Gap(clock, nextSlot) = silence
    \/ silence >= Slot /\ Gap(clock, nextSlot) = silence - Slot
    \/ /\ silence < Slot /\ Gap(nextSlot, clock) = Slot - silence
       /\ \A d \in silence + 1 .. Window : sent[d] > 0

Prompt == limit # 0 /\ silence < Half => SendPrompt /\ SlotPrompt

Pace == Types /\ Unlimited /\ Paid /\ Slotted /\ Covered /\ Prompt

-----------------------------------------------------------------------------
(* A send                                                                  *)

LEMMA ReachedIs ==
    ASSUME Types, NEW target \in Times
    PROVE  /\ SendTimeReached(target) <=> Gap(clock, target) < Half
           /\ Gap(target, clock) \in 1 .. Half <=> ~SendTimeReached(target)
  <1>1. SendTimeReached(target) <=> Gap(clock, target) < Half
    BY DEF SendTimeReached, Gap
  <1>2. Gap(clock, target) = IF Gap(target, clock) = 0 THEN 0 ELSE Mod - Gap(target, clock)
    BY GapIs DEF Types
  <1>3. Half \in Nat /\ Mod = 2 * Half
    BY ConstantTypes
  <1>4. Gap(target, clock) \in Nat /\ Gap(target, clock) < Mod
    BY <1>3, GapIs DEF Types, Times
  <1>5. Gap(target, clock) \in 1 .. Half <=> ~(Gap(clock, target) < Half)
    BY <1>2, <1>3, <1>4
  <1> QED BY <1>1, <1>5

LEMMA IntervalIs ==
    ASSUME limit \in Limits \ {0}, NEW bits \in PacketBits
    PROVE  Promise!Interval(bits) \in Nat \ {0} /\ Promise!Interval(bits) < Half
  <1>1. limit \in Nat \ {0} /\ bits \in Nat \ {0} /\ bits + limit - 1 \in Nat
    BY PacerAssumption
  <1>2. ASSUME NEW x \in Nat, NEW l \in Nat \ {0}, l <= x PROVE x \div l \in Nat \ {0}
    BY <1>2
  <1>3. (bits + limit - 1) \div limit \in Nat \ {0}
    <2>1. limit <= bits + limit - 1
      BY <1>1
    <2> QED BY <1>1, <1>2, <2>1
  <1>4. (bits + limit - 1) \div limit < Half
    BY PacerAssumption
  <1> QED BY <1>3, <1>4 DEF Promise!Interval

\* The sum add_send_interval makes, past or ahead of the clock.
LEMMA Charged ==
    ASSUME NEW now \in Times, NEW at \in Times, NEW i \in Nat, i < Half,
           NEW next, next = Later(IF Gap(now, at) < Half THEN now ELSE at, i)
    PROVE  /\ next \in Times
           /\ Gap(next, now) = IF Gap(now, at) < Half THEN i ELSE Gap(at, now) + i
  <1>1. Half \in Nat /\ Mod = 2 * Half /\ Mod \in Nat \ {0} /\ i \in Times
    BY ConstantTypes DEF Times
  <1>2. CASE Gap(now, at) < Half
    <2>1. next = Later(now, i)
      BY <1>2
    <2>2. Gap(now, now) = 0
      <3>1. now >= now /\ now - now = 0
        BY DEF Times
      <3> QED BY <3>1, GapIs
    <2>3. Gap(now, now) + i < Mod
      BY <1>1, <2>2
    <2>4. Gap(next, now) = Gap(now, now) + i
      BY <1>1, <2>1, <2>3, GapGrows
    <2>5. next \in Times
      BY <1>1, <2>1, LaterIs
    <2> QED BY <1>2, <2>2, <2>4, <2>5
  <1>3. CASE ~(Gap(now, at) < Half)
    <2>1. next = Later(at, i)
      BY <1>3
    <2>2. Gap(at, now) \in Nat /\ Gap(at, now) <= Half
      <3>1. Gap(at, now) \in Times /\ Gap(now, at) \in Times
        BY GapIs
      <3>2. Gap(at, now) = IF Gap(now, at) = 0 THEN 0 ELSE Mod - Gap(now, at)
        BY GapIs
      <3> QED BY <1>1, <1>3, <3>1, <3>2 DEF Times
    <2>3. Gap(at, now) + i < Mod
      BY <1>1, <2>1, <2>2
    <2>4. Gap(next, now) = Gap(at, now) + i
      BY <1>1, <2>1, <2>3, GapGrows
    <2>5. next \in Times
      BY <1>1, <2>1, LaterIs
    <2> QED BY <1>3, <2>4, <2>5
  <1> QED BY <1>2, <1>3

\* With a regular send both times are reached, and nothing is owed.
LEMMA ReadyIs ==
    ASSUME Pace, limit # 0, RegularSendReady
    PROVE  debt = 0 /\ Promise!SlotFree /\ SendTimeReached(nextSend)
  <1>1. SendTimeReached(nextSend) /\ SendTimeReached(nextSlot)
    BY DEF RegularSendReady
  <1>2. ~(Gap(nextSend, clock) \in 1 .. Half) /\ ~(Gap(nextSlot, clock) \in 1 .. Half)
    BY <1>1, ReachedIs DEF Pace, Types
  <1>3. /\ Gap(nextSend, clock) \in Nat /\ Gap(nextSlot, clock) \in Nat
        /\ debt \in Nat /\ Half \in Nat /\ Slot \in Nat \ {0} /\ Slot < Half /\ Window \in Nat
        /\ Slot <= Window
    <2>1. Slot < Half
      BY ConstantTypes
    <2>2. Gap(nextSend, clock) \in Nat /\ Gap(nextSlot, clock) \in Nat
      BY GapIs DEF Pace, Types, Times
    <2> QED BY <2>1, <2>2, ConstantTypes DEF Pace, Types
  <1>4. debt = 0
    BY <1>2, <1>3 DEF Pace, Paid
  <1>5. sent[Slot] = 0
    <2>1. Slot \in 0 .. Slot /\ Slot \in 0 .. Window /\ Slot - Slot + 1 = 1
      BY <1>3
    <2>2. sent[Slot] \in Nat
      BY <2>1 DEF Pace, Types
    <2>3. sent[Slot] > 0 => Gap(nextSlot, clock) \in 1 .. Slot
      BY <2>1 DEF Pace, Slotted
    <2> QED BY <1>2, <1>3, <2>2, <2>3
  <1> QED BY <1>1, <1>4, <1>5 DEF Promise!SlotFree

\* The history bounds what the burst budget still allows.
LEMMA AllowedIs ==
    ASSUME Pace, limit # 0, NEW bits \in PacketBits, BurstAllows(bits)
    PROVE  Promise!BudgetAllows(bits)
  <1>1. /\ ExpiredBurstHistory \in Seq(Entries)
        /\ Covers(ExpiredBurstHistory, clock, sent) /\ sent \in [0 .. Window -> Nat]
    BY ExpiredIs DEF Pace, Types, Covered
  <1>2. /\ sent[Window] <= Bits(ExpiredBurstHistory) /\ Bits(ExpiredBurstHistory) \in Nat
        /\ ExpiredBurstHistory = <<>> => sent[Window] = 0
    BY <1>1, BitsCover
  <1>3. sent[Window] \in Nat /\ bits \in Nat
    BY <1>1, ConstantTypes, PacerAssumption
  <1>4. PICK budget \in Nat : budget = limit * Window
    <2>1. limit \in Nat /\ Window \in Nat
      BY PacerAssumption DEF Pace, Types
    <2> QED BY <2>1
  <1>5. BurstLimitBits = budget /\ Promise!Budget = budget
    BY <1>4 DEF BurstLimitBits, Promise!Budget
  <1>6. IF bits > budget THEN ExpiredBurstHistory = <<>>
        ELSE Bits(ExpiredBurstHistory) <= budget - bits
    BY <1>5 DEF BurstAllows
  <1>7. bits + sent[Window] <= budget \/ (bits > budget /\ sent[Window] = 0)
    BY <1>2, <1>3, <1>6
  <1> QED BY <1>5, <1>7 DEF Promise!BudgetAllows

\* What a datagram leaves behind under a limit: the debt it adds to, or none
\* where the time it moves reads as past.
LEMMA ChargedIs ==
    ASSUME Pace, limit # 0, NEW bits \in PacketBits, ChargeDownlink(bits)
    PROVE  /\ limit' = limit
           /\ nextSend' \in Times /\ nextSlot' \in Times /\ debt' \in Nat
           /\ history' \in Seq(Entries) /\ Len(history') <= Capacity
           /\ sent' \in [0 .. Window -> Nat] /\ More(sent', sent, bits)
           /\ Covers(history', clock, sent')
           /\ debt' > 0 => debt' <= Gap(nextSend', clock) /\ Gap(nextSend', clock) <= Half
           /\ Gap(nextSlot', clock) = Slot
           /\ \/ SendTimeReached(nextSend)
              \/ /\ debt > 0 /\ Gap(nextSend, clock) = debt
                 /\ debt + Promise!Interval(bits) < Half
              => /\ Gap(nextSend', clock) = debt' /\ 0 < debt' /\ debt' < Half
                 /\ ~SendTimeReached(nextSend')
  <1>1. /\ limit' = limit
        /\ nextSend' = Later(IF SendTimeReached(nextSend) THEN clock ELSE nextSend,
                             Promise!Interval(bits))
        /\ nextSlot' = Later(clock, Slot)
        /\ history' = RecordSentPacket(bits)
        /\ debt' = IF ~SendTimeReached(nextSend') THEN debt + Promise!Interval(bits) ELSE 0
        /\ sent' = [d \in 0 .. Window |-> IF d = 0 THEN 0 ELSE sent[d] + bits]
    BY DEF ChargeDownlink, ChargeHistory, Promise!Send, Promise!Spans
  <1>2. PICK i \in Nat \ {0} : i = Promise!Interval(bits) /\ i < Half
    BY IntervalIs DEF Pace, Types
  <1>3. /\ clock \in Times /\ nextSend \in Times /\ debt \in Nat
        /\ sent \in [0 .. Window -> Nat] /\ bits \in Nat
        /\ Half \in Nat /\ Slot \in Nat /\ Slot < Half /\ Mod = 2 * Half /\ Window \in Nat
    BY ConstantTypes, PacerAssumption DEF Pace, Types
  <1>4. SendTimeReached(nextSend) <=> Gap(clock, nextSend) < Half
    BY <1>3, ReachedIs DEF Pace
  <1>6. nextSend' = Later(IF Gap(clock, nextSend) < Half THEN clock ELSE nextSend, i)
    BY <1>1, <1>2, <1>4
  <1>7. /\ nextSend' \in Times
        /\ Gap(nextSend', clock) \in 1 .. Half <=> ~SendTimeReached(nextSend')
        /\ Gap(nextSend', clock) = IF Gap(clock, nextSend) < Half THEN i
                                   ELSE Gap(nextSend, clock) + i
    <2>1. PICK next : next = nextSend'
      OBVIOUS
    <2>2. /\ next \in Times
          /\ Gap(next, clock) = IF Gap(clock, nextSend) < Half THEN i
                                ELSE Gap(nextSend, clock) + i
      BY <1>2, <1>3, <1>6, <2>1, Charged
    <2>3. Gap(next, clock) \in 1 .. Half <=> ~SendTimeReached(next)
      BY <2>2, ReachedIs DEF Pace
    <2> QED BY <2>1, <2>2, <2>3
  <1>8. Gap(nextSend, clock) \in Nat /\ (Gap(clock, nextSend) < Half => debt = 0)
    <2>1. Gap(nextSend, clock) \in Nat
      BY <1>3, GapIs DEF Times
    <2>2. debt > 0 => Gap(nextSend, clock) \in 1 .. Half
      BY <1>3, <2>1 DEF Pace, Paid
    <2>3. debt > 0 => ~SendTimeReached(nextSend)
      BY <1>3, <2>2, ReachedIs DEF Pace
    <2> QED BY <1>3, <1>4, <2>1, <2>3
  <1>9. /\ debt' = IF ~SendTimeReached(nextSend') THEN debt + i ELSE 0
        /\ debt' \in Nat
    BY <1>1, <1>2, <1>3
  <1>10. ASSUME debt' > 0
         PROVE  debt' <= Gap(nextSend', clock) /\ Gap(nextSend', clock) <= Half
    <2>0. debt' = debt + i /\ Gap(nextSend', clock) \in 1 .. Half
      BY <1>7, <1>9, <1>10
    <2>1. CASE Gap(clock, nextSend) < Half
      BY <1>2, <1>3, <1>7, <1>8, <2>0, <2>1
    <2>2. CASE ~(Gap(clock, nextSend) < Half)
      <3>1. debt <= Gap(nextSend, clock)
        BY <1>3, <1>8 DEF Pace, Paid
      <3> QED BY <1>2, <1>3, <1>7, <1>8, <2>0, <2>2, <3>1
    <2> QED BY <2>1, <2>2
  <1>11. ASSUME \/ SendTimeReached(nextSend)
                \/ /\ debt > 0 /\ Gap(nextSend, clock) = debt
                   /\ debt + Promise!Interval(bits) < Half
         PROVE  /\ Gap(nextSend', clock) = debt' /\ 0 < debt' /\ debt' < Half
                /\ ~SendTimeReached(nextSend')
    <2>1. Gap(nextSend', clock) = debt + i /\ debt + i < Half
      <3>1. CASE Gap(clock, nextSend) < Half
        BY <1>2, <1>3, <1>7, <1>8, <3>1
      <3>2. CASE ~(Gap(clock, nextSend) < Half)
        <4>1. Gap(nextSend, clock) = debt /\ debt + i < Half
          BY <1>2, <1>4, <1>11, <3>2
        <4> QED BY <1>3, <1>7, <3>2, <4>1
      <3> QED BY <3>1, <3>2
    <2>2. Gap(nextSend', clock) \in 1 .. Half
      BY <1>2, <1>3, <2>1
    <2>3. ~SendTimeReached(nextSend')
      BY <1>7, <2>2
    <2> QED BY <1>2, <1>3, <1>9, <2>1, <2>3
  <1>12. nextSlot' \in Times /\ Gap(nextSlot', clock) = Slot
    <2>1. Slot \in Times
      BY <1>3 DEF Times
    <2>2. Gap(clock, clock) = 0
      <3>1. clock >= clock /\ clock - clock = 0
        BY <1>3 DEF Times
      <3> QED BY <1>3, <3>1, GapIs
    <2>3. Gap(clock, clock) + Slot < Mod
      BY <1>3, <2>2
    <2>4. Gap(Later(clock, Slot), clock) = Gap(clock, clock) + Slot
      BY <1>3, <2>1, <2>3, GapGrows
    <2>5. Later(clock, Slot) \in Times
      BY <1>3, <2>1, LaterIs
    <2> QED BY <1>1, <1>3, <2>2, <2>4, <2>5
  <1>13. sent' \in [0 .. Window -> Nat] /\ More(sent', sent, bits)
    BY <1>1, <1>3 DEF More
  <1>14. /\ history' \in Seq(Entries) /\ Len(history') <= Capacity
         /\ Covers(history', clock, sent')
    <2>1. PICK y : y = sent'
      OBVIOUS
    <2>2. /\ RecordSentPacket(bits) \in Seq(Entries)
          /\ Len(RecordSentPacket(bits)) <= Capacity
          /\ Covers(RecordSentPacket(bits), clock, y)
      BY <1>3, <1>13, <2>1, RecordedIs DEF Pace, Types, Covered
    <2> QED BY <1>1, <2>1, <2>2
  <1> QED BY <1>1, <1>7, <1>9, <1>10, <1>11, <1>12, <1>13, <1>14

-----------------------------------------------------------------------------
(* Every step keeps the invariant                                          *)

\* A datagram: what remains is the silence.
LEMMA SentKeeps ==
    ASSUME Pace, limit # 0, NEW bits \in PacketBits, ChargeDownlink(bits),
           RegularSendReady \/ ReplyPace(bits),
           UNCHANGED clock, sequence' \in {0, 1},
           \/ RegularSendReady /\ silence' = 0
           \/ silence' = IF silence < Half THEN 0 ELSE silence
    PROVE  /\ Pace'
           /\ RegularSendReady \/ silence < Half => ~SendTimeReached(nextSend')
  <1>1. /\ limit' = limit
        /\ nextSend' \in Times /\ nextSlot' \in Times /\ debt' \in Nat
        /\ history' \in Seq(Entries) /\ Len(history') <= Capacity
        /\ sent' \in [0 .. Window -> Nat] /\ More(sent', sent, bits)
        /\ Covers(history', clock, sent')
        /\ debt' > 0 => debt' <= Gap(nextSend', clock) /\ Gap(nextSend', clock) <= Half
        /\ Gap(nextSlot', clock) = Slot
    BY ChargedIs
  <1>2. /\ clock' = clock /\ clock \in Times /\ silence \in 0 .. Half
        /\ sent \in [0 .. Window -> Nat] /\ bits \in Nat \ {0}
        /\ Half \in Nat \ {0} /\ Slot \in Nat \ {0} /\ Slot <= Window /\ Window \in Nat
    BY ConstantTypes, PacerAssumption DEF Pace, Types
  <1>3. Types'
    <2>1. limit' \in Limits
      BY <1>1 DEF Pace, Types
    <2>2. silence' \in 0 .. Half
      BY <1>2
    <2> QED BY <1>1, <1>2, <2>1, <2>2 DEF Types
  <1>4. Unlimited' /\ Paid' /\ Covered'
    BY <1>1, <1>2 DEF Unlimited, Paid, Covered
  <1>5. ASSUME NEW d \in 0 .. Window PROVE sent'[d] = IF d = 0 THEN 0 ELSE sent[d] + bits
    BY <1>1 DEF More
  <1>6. Slotted'
    <2>1. ASSUME NEW d \in 0 .. Slot, sent'[d] > 0
          PROVE  Slot \in Slot - d + 1 .. Slot
      <3>1. d \in 0 .. Window /\ d # 0
        BY <1>2, <1>5, <2>1
      <3> QED BY <1>2, <3>1
    <2> QED BY <1>1, <1>2, <2>1 DEF Slotted
  <1>6a. ASSUME RegularSendReady \/ silence < Half
         PROVE  /\ Gap(nextSend', clock) = debt' /\ 0 < debt' /\ debt' < Half
                /\ ~SendTimeReached(nextSend')
    <2>1. CASE RegularSendReady
      <3>1. SendTimeReached(nextSend)
        BY <2>1 DEF RegularSendReady
      <3> QED BY <3>1, ChargedIs
    <2>2. CASE silence < Half /\ ~RegularSendReady
      <3>1. SendPrompt /\ debt + Promise!Interval(bits) < Half
        BY <2>2 DEF Pace, Prompt, ReplyPace
      <3>2. CASE debt > 0
        BY <3>1, <3>2, ChargedIs DEF SendPrompt
      <3>3. CASE ~(debt > 0)
        <4>1. Gap(clock, nextSend) <= silence /\ Gap(clock, nextSend) \in Nat
          BY <3>1, <3>3, GapIs DEF SendPrompt, Pace, Types, Times
        <4>2. Gap(clock, nextSend) < Half
          BY <1>2, <2>2, <4>1
        <4>3. SendTimeReached(nextSend)
          BY <4>2, ReachedIs DEF Pace, Types
        <4> QED BY <4>3, ChargedIs
      <3> QED BY <3>2, <3>3
    <2> QED BY <1>6a, <2>1, <2>2
  <1>7. ASSUME silence' < Half PROVE SendPrompt' /\ SlotPrompt'
    <2>1. silence' = 0 /\ (RegularSendReady \/ silence < Half)
      BY <1>2, <1>7
    <2>4. SendPrompt'
      <3>1. Gap(nextSend', clock) = debt' /\ 0 < debt' /\ debt' < Half
        BY <1>6a, <2>1
      <3> QED BY <1>2, <3>1 DEF SendPrompt
    <2>5. SlotPrompt'
      <3>1. ASSUME NEW d \in 1 .. Window PROVE sent'[d] > 0
        <4>1. d \in 0 .. Window /\ d # 0 /\ sent[d] \in Nat
          BY <1>2
        <4>2. sent'[d] = sent[d] + bits
          BY <1>5, <4>1
        <4> QED BY <1>2, <4>1, <4>2
      <3>2. 0 < Slot /\ Slot - 0 = Slot /\ 0 + 1 = 1
        BY <1>2
      <3> QED BY <1>1, <1>2, <2>1, <3>1, <3>2 DEF SlotPrompt
    <2> QED BY <2>4, <2>5
  <1> QED BY <1>3, <1>4, <1>6, <1>6a, <1>7 DEF Pace, Prompt

\* Without a limit a datagram leaves no trace.
LEMMA UnlimitedSentKeeps ==
    ASSUME Pace, limit = 0, NEW bits \in PacketBits, ChargeDownlink(bits),
           UNCHANGED clock, sequence' \in {0, 1}, silence' \in 0 .. Half
    PROVE  Pace'
  <1>1. UNCHANGED <<clock, nextSend, nextSlot, history, debt, sent, limit>>
    BY DEF ChargeDownlink, ChargeHistory, Promise!Send
  <1>2. Types'
    BY <1>1 DEF Pace, Types
  <1>3. Unlimited' /\ Paid' /\ Slotted' /\ Covered' /\ Prompt'
    BY <1>1 DEF Pace, Unlimited, Paid, Slotted, Covered, Prompt
  <1> QED BY <1>2, <1>3 DEF Pace

LEMMA SendImmediateKeeps ==
    ASSUME Pace, NEW bits \in PacketBits, SendImmediate(bits)
    PROVE  Pace' /\ (limit # 0 /\ silence < Half => ~SendTimeReached(nextSend'))
  <1>1. /\ ReplyPace(bits) /\ ChargeDownlink(bits) /\ UNCHANGED <<clock, sequence>>
        /\ silence' = IF silence < Half THEN 0 ELSE silence
    BY DEF SendImmediate
  <1>2. sequence' \in {0, 1} /\ silence' \in 0 .. Half
    BY <1>1, ConstantTypes DEF Pace, Types
  <1>3. CASE limit = 0
    BY <1>1, <1>2, <1>3, UnlimitedSentKeeps
  <1>4. CASE limit # 0
    BY <1>1, <1>2, <1>4, SentKeeps
  <1> QED BY <1>3, <1>4

LEMMA SendRegularPayloadKeeps ==
    ASSUME Pace, NEW bits \in PacketBits, SendRegularPayload(bits)
    PROVE  Pace' /\ (limit # 0 => ~SendTimeReached(nextSend'))
  <1>1. /\ RegularSendReady /\ ChargeDownlink(bits) /\ UNCHANGED clock
        /\ sequence' = 1 - sequence /\ silence' = 0
    BY DEF SendRegularPayload
  <1>2. sequence' \in {0, 1} /\ silence' \in 0 .. Half
    BY <1>1, ConstantTypes DEF Pace, Types
  <1>3. CASE limit = 0
    BY <1>1, <1>2, <1>3, UnlimitedSentKeeps
  <1>4. CASE limit # 0
    BY <1>1, <1>2, <1>4, SentKeeps
  <1> QED BY <1>3, <1>4

\* A packet that is held only takes old entries from the history.
LEMMA RegularPayloadHeldKeeps ==
    ASSUME Pace, NEW bits \in PacketBits, RegularPayloadHeld(bits) PROVE Pace'
  <1>1. /\ history' = ExpiredBurstHistory
        /\ UNCHANGED <<clock, limit, nextSend, nextSlot, sequence, debt, sent, silence>>
    BY DEF RegularPayloadHeld, paceVars
  <1>2. /\ ExpiredBurstHistory \in Seq(Entries) /\ Len(ExpiredBurstHistory) <= Len(history)
        /\ Covers(ExpiredBurstHistory, clock, sent)
    BY ExpiredIs DEF Pace, Types, Covered
  <1>3. Len(ExpiredBurstHistory) <= Capacity
    <2>1. Len(ExpiredBurstHistory) \in Nat /\ Len(history) \in Nat /\ Len(history) <= Capacity
      BY <1>2, LenProperties DEF Pace, Types
    <2> QED BY <1>2, <2>1, ConstantTypes
  <1>4. Types'
    BY <1>1, <1>2, <1>3 DEF Pace, Types
  <1>5. Unlimited' /\ Paid' /\ Slotted' /\ Covered'
    BY <1>1, <1>2 DEF Pace, Unlimited, Paid, Slotted, Covered
  <1>6. Prompt'
    BY <1>1 DEF Pace, Prompt, SendPrompt, SlotPrompt
  <1> QED BY <1>4, <1>5, <1>6 DEF Pace

\* Nothing was sent: everything is covered.
LEMMA NothingCovered ==
    ASSUME NEW now PROVE Covers(<<>>, now, Promise!Nothing)
  <1>1. Len(<<>>) = 0 /\ Window \in Nat
    BY ConstantTypes
  <1>2. PICK p : p = [i \in 0 .. 0 |-> 0]
    OBVIOUS
  <1>3. Sums(<<>>, p)
    <2>1. p \in [0 .. 0 -> Nat] /\ p[0] = 0
      BY <1>2
    <2>2. \A i, k \in 0 .. 0 : p[i] <= p[k]
      BY <1>2
    <2>3. 1 .. 0 = {}
      OBVIOUS
    <2> QED BY <1>1, <2>1, <2>2, <2>3 DEF Sums
  <1>4. ASSUME NEW d \in 0 .. Window PROVE Holds(<<>>, p, now, d, Promise!Nothing[d])
    <2>1. Promise!Nothing[d] = 0 /\ p[0] = 0
      BY <1>2 DEF Promise!Nothing, Promise!Spans
    <2>2. 0 \in 0 .. Len(<<>>) /\ 0 + p[0] <= p[Len(<<>>)] /\ 0 + 1 .. Len(<<>>) = {}
      BY <1>1, <2>1
    <2> QED BY <2>1, <2>2 DEF Holds
  <1> QED BY <1>3, <1>4 DEF Covers

LEMMA InitPace == Init => Pace
  <1>1. SUFFICES ASSUME Init PROVE Pace
    OBVIOUS
  <1>2. /\ clock \in Times /\ limit \in Limits /\ limit = 0 /\ nextSend = clock /\ nextSlot = clock
        /\ history = <<>> /\ debt = 0 /\ sent = Promise!Nothing /\ silence = 0 /\ sequence = 0
    BY <1>1, PacerAssumption DEF Init, Times
  <1>3. Half \in Nat \ {0} /\ Window \in Nat /\ Slot \in Nat /\ Slot <= Window /\ Capacity \in Nat
    BY ConstantTypes
  <1>4. Promise!Nothing \in [0 .. Window -> Nat] /\ \A d \in 0 .. Window : Promise!Nothing[d] = 0
    BY DEF Promise!Nothing, Promise!Spans
  <1>5. <<>> \in Seq(Entries) /\ Len(<<>>) <= Capacity
    BY <1>3
  <1>6. Types
    BY <1>2, <1>3, <1>4, <1>5 DEF Types
  <1>7. Unlimited /\ Paid /\ Covered
    BY <1>2, NothingCovered DEF Unlimited, Paid, Covered
  <1>8. Slotted
    <2>1. \A d \in 0 .. Slot : d \in 0 .. Window
      BY <1>3
    <2> QED BY <1>2, <1>4, <2>1 DEF Slotted
  <1>9. Gap(clock, clock) = 0
    <2>1. clock >= clock /\ clock - clock = 0
      BY <1>2 DEF Times
    <2> QED BY <1>2, <2>1, GapIs
  <1>10. Prompt
    BY <1>2, <1>9 DEF Prompt, SendPrompt, SlotPrompt
  <1> QED BY <1>6, <1>7, <1>8, <1>10 DEF Pace

LEMMA SetDownlinkLimitKeeps ==
    ASSUME Pace, NEW l \in Limits, SetDownlinkLimit(l) PROVE Pace'
  <1>1. /\ limit' = l /\ clock' = clock /\ nextSend' = clock /\ nextSlot' = clock
        /\ history' = <<>> /\ debt' = 0 /\ sent' = Promise!Nothing /\ silence' = 0
        /\ sequence' \in {0, 1} /\ clock \in Times
    BY DEF SetDownlinkLimit, Pace, Types
  <1>2. Half \in Nat \ {0} /\ Window \in Nat /\ Slot \in Nat /\ Slot <= Window /\ Capacity \in Nat
    BY ConstantTypes
  <1>3. Promise!Nothing \in [0 .. Window -> Nat] /\ \A d \in 0 .. Window : Promise!Nothing[d] = 0
    BY DEF Promise!Nothing, Promise!Spans
  <1>4. <<>> \in Seq(Entries) /\ Len(<<>>) <= Capacity
    BY <1>2
  <1>5. Types'
    BY <1>1, <1>2, <1>3, <1>4 DEF Types
  <1>6. Covers(<<>>, clock, Promise!Nothing)
    BY NothingCovered
  <1>7. Unlimited' /\ Paid' /\ Covered'
    BY <1>1, <1>6 DEF Unlimited, Paid, Covered
  <1>8. Slotted'
    <2>1. ASSUME NEW d \in 0 .. Slot PROVE ~(sent'[d] > 0)
      <3>1. d \in 0 .. Window
        BY <1>2
      <3>2. sent'[d] = 0
        BY <1>1, <1>3, <3>1
      <3> QED BY <3>2
    <2> QED BY <2>1 DEF Slotted
  <1>9. Gap(clock, clock) = 0
    <2>1. clock >= clock /\ clock - clock = 0
      BY <1>1 DEF Times
    <2> QED BY <1>1, <2>1, GapIs
  <1>10. Prompt'
    BY <1>1, <1>9 DEF Prompt, SendPrompt, SlotPrompt
  <1> QED BY <1>5, <1>7, <1>8, <1>10 DEF Pace

\* Time pays a debt, shortens what is left of the slot and narrows the spans.
LEMMA TickKeeps == ASSUME Pace, Tick PROVE Pace'
  <1>1. /\ clock' = Later(clock, 1)
        /\ debt' = IF debt > 0 THEN debt - 1 ELSE 0
        /\ sent' = [d \in 0 .. Window |-> IF d = 0 THEN 0 ELSE sent[d - 1]]
        /\ silence' = IF silence < Half THEN silence + 1 ELSE silence
        /\ UNCHANGED <<limit, sequence, nextSend, nextSlot, history>>
    BY DEF Tick, Promise!Pass, Promise!Spans
  <1>2. /\ clock \in Times /\ nextSend \in Times /\ nextSlot \in Times
        /\ debt \in Nat /\ silence \in 0 .. Half /\ sent \in [0 .. Window -> Nat]
        /\ Half \in Nat \ {0} /\ Slot \in Nat \ {0} /\ Slot <= Window /\ Window \in Nat
        /\ Mod = 2 * Half /\ 1 \in Times
    <2>1. 1 \in Times
      BY ConstantTypes DEF Times
    <2> QED BY <2>1, ConstantTypes DEF Pace, Types
  <1>3. PICK c \in Times : c = clock'
    BY <1>1, <1>2, LaterIs
  <1>4. ASSUME NEW t \in Times, Gap(t, clock) > 0
        PROVE  Gap(t, c) = Gap(t, clock) - 1
    BY <1>1, <1>2, <1>3, <1>4, GapShrinks
  <1>5. ASSUME NEW t \in Times, Gap(clock, t) < Half
        PROVE  Gap(c, t) = Gap(clock, t) + 1
    <2>1. Gap(clock, t) \in Nat
      <3>1. Gap(clock, t) \in Times
        BY <1>2, GapIs
      <3> QED BY <3>1 DEF Times
    <2>2. Gap(clock, t) + 1 < Mod
      BY <1>2, <1>5, <2>1
    <2> QED BY <1>1, <1>2, <1>3, <2>2, GapGrows
  <1>6. ASSUME NEW d \in 0 .. Window
        PROVE  /\ sent'[d] = IF d = 0 THEN 0 ELSE sent[d - 1]
               /\ sent'[d] \in Nat
    <2>1. CASE d = 0
      BY <1>1, <2>1
    <2>2. CASE d # 0
      <3>1. d - 1 \in 0 .. Window
        BY <1>2, <2>2
      <3>2. sent[d - 1] \in Nat
        BY <1>2, <3>1
      <3> QED BY <1>1, <2>2, <3>2
    <2> QED BY <2>1, <2>2
  <1>7. Types'
    <2>1. sent' \in [0 .. Window -> Nat]
      <3>1. sent' = [d \in 0 .. Window |-> sent'[d]]
        BY <1>1
      <3> QED BY <1>6, <3>1
    <2>2. debt' \in Nat /\ silence' \in 0 .. Half
      BY <1>1, <1>2
    <2> QED BY <1>1, <1>3, <2>1, <2>2 DEF Pace, Types
  <1>8. Unlimited'
    <2>1. SUFFICES ASSUME limit = 0 PROVE debt' = 0 /\ sent' = Promise!Nothing
      BY <1>1 DEF Unlimited
    <2>2. debt = 0 /\ sent = [d \in 0 .. Window |-> 0]
      BY <2>1 DEF Pace, Unlimited, Promise!Nothing, Promise!Spans
    <2>3. ASSUME NEW d \in 0 .. Window PROVE sent'[d] = 0
      <3>1. CASE d = 0
        BY <1>6, <3>1
      <3>2. CASE d # 0
        <4>1. d - 1 \in 0 .. Window
          BY <1>2, <3>2
        <4> QED BY <1>6, <2>2, <3>2, <4>1
      <3> QED BY <3>1, <3>2
    <2>4. sent' = [d \in 0 .. Window |-> 0]
      BY <1>7, <2>3 DEF Types
    <2>5. Promise!Nothing = [d \in 0 .. Window |-> 0]
      BY DEF Promise!Nothing, Promise!Spans
    <2>6. debt' = 0
      BY <1>1, <2>2
    <2> QED BY <2>4, <2>5, <2>6
  <1>9. Paid'
    <2>1. SUFFICES ASSUME debt' > 0 PROVE debt' <= Gap(nextSend, c) /\ Gap(nextSend, c) <= Half
      BY <1>1, <1>3 DEF Paid
    <2>2. debt > 0 /\ debt' = debt - 1
      BY <1>1, <1>2, <2>1
    <2>3. debt <= Gap(nextSend, clock) /\ Gap(nextSend, clock) <= Half /\ Gap(nextSend, clock) \in Nat
      BY <1>2, <2>2, GapIs DEF Pace, Paid, Times
    <2>4. Gap(nextSend, c) = Gap(nextSend, clock) - 1
      BY <1>2, <1>4, <2>2, <2>3
    <2> QED BY <1>2, <2>2, <2>3, <2>4
  <1>10. Slotted'
    <2>1. SUFFICES ASSUME NEW d \in 0 .. Slot, sent'[d] > 0
                   PROVE  Gap(nextSlot, c) \in Slot - d + 1 .. Slot
      BY <1>1, <1>3 DEF Slotted
    <2>2. d \in 0 .. Window /\ d # 0
      BY <1>2, <1>6, <2>1
    <2>3. sent[d - 1] > 0 /\ d - 1 \in 0 .. Slot
      BY <1>2, <1>6, <2>1, <2>2
    <2>4. Gap(nextSlot, clock) \in Slot - (d - 1) + 1 .. Slot
      BY <2>3 DEF Pace, Slotted
    <2>5. Gap(nextSlot, clock) > 0
      BY <1>2, <2>4
    <2>6. Gap(nextSlot, c) = Gap(nextSlot, clock) - 1
      BY <1>2, <1>4, <2>5
    <2> QED BY <1>2, <2>4, <2>6
  <1>11. Covered'
    <2>1. PICK y : y = sent'
      OBVIOUS
    <2>2. Covers(history, Later(clock, 1), y)
      <3>1. \A d \in 0 .. Window : y[d] = IF d = 0 THEN 0 ELSE sent[d - 1]
        BY <1>6, <2>1
      <3>2. Covers(history, clock, sent) /\ history \in Seq(Entries)
        BY DEF Pace, Covered, Types
      <3> QED BY <1>2, <3>1, <3>2, CoversLater
    <2> QED BY <1>1, <2>1, <2>2 DEF Covered
  <1>12. ASSUME limit # 0, silence' < Half
         PROVE  /\ silence < Half /\ silence' = silence + 1
                /\ SendPrompt /\ SlotPrompt
    <2>1. silence < Half /\ silence' = silence + 1
      BY <1>1, <1>2, <1>12
    <2> QED BY <1>12, <2>1 DEF Pace, Prompt
  <1>13. ASSUME limit # 0, silence' < Half PROVE SendPrompt'
    <2>1. silence < Half /\ silence' = silence + 1 /\ SendPrompt
      BY <1>12, <1>13
    <2>2. CASE debt > 0
      <3>1. Gap(nextSend, clock) = debt /\ debt < Half
        BY <2>1, <2>2 DEF SendPrompt
      <3>2. Gap(nextSend, c) = debt - 1 /\ debt' = debt - 1
        BY <1>1, <1>2, <1>4, <2>2, <3>1
      <3>3. CASE debt' > 0
        <4>1. debt' < Half
          BY <1>2, <3>1, <3>2
        <4> QED BY <1>1, <1>3, <3>2, <3>3, <4>1 DEF SendPrompt
      <3>4. CASE ~(debt' > 0)
        <4>1. Gap(nextSend, c) = 0
          BY <1>2, <2>2, <3>2, <3>4
        <4>2. Gap(c, nextSend) = 0
          BY <1>2, <1>3, <4>1, GapIs
        <4>3. 0 <= silence'
          BY <1>2, <2>1
        <4> QED BY <1>1, <1>3, <3>4, <4>2, <4>3 DEF SendPrompt
      <3> QED BY <3>3, <3>4
    <2>3. CASE ~(debt > 0)
      <3>1. Gap(clock, nextSend) <= silence /\ Gap(clock, nextSend) \in Nat
        BY <1>2, <2>1, <2>3, GapIs DEF SendPrompt, Times
      <3>2. Gap(clock, nextSend) < Half
        BY <1>2, <2>1, <3>1
      <3>3. Gap(c, nextSend) = Gap(clock, nextSend) + 1
        BY <1>2, <1>5, <3>2
      <3>4. Gap(c, nextSend) <= silence'
        BY <1>2, <2>1, <3>1, <3>3
      <3>5. debt' = 0
        BY <1>1, <2>3
      <3> QED BY <1>1, <1>3, <3>4, <3>5 DEF SendPrompt
    <2> QED BY <2>2, <2>3
  <1>14. ASSUME limit # 0, silence' < Half PROVE SlotPrompt'
    <2>1. silence < Half /\ silence' = silence + 1 /\ SlotPrompt
      BY <1>12, <1>14
    <2>2. CASE Gap(clock, nextSlot) = silence
      <3>1. Gap(c, nextSlot) = silence'
        BY <1>2, <1>5, <2>1, <2>2
      <3> QED BY <1>1, <1>3, <3>1 DEF SlotPrompt
    <2>3. CASE silence >= Slot /\ Gap(clock, nextSlot) = silence - Slot
      <3>1. Gap(clock, nextSlot) < Half
        BY <1>2, <2>1, <2>3
      <3>2. Gap(c, nextSlot) = Gap(clock, nextSlot) + 1
        BY <1>2, <1>5, <3>1
      <3>3. silence' >= Slot /\ Gap(c, nextSlot) = silence' - Slot
        BY <1>2, <2>1, <2>3, <3>2
      <3> QED BY <1>1, <1>3, <3>3 DEF SlotPrompt
    <2>4. CASE /\ silence < Slot /\ Gap(nextSlot, clock) = Slot - silence
               /\ \A d \in silence + 1 .. Window : sent[d] > 0
      <3>1. Gap(nextSlot, clock) > 0
        BY <1>2, <2>4
      <3>2. Gap(nextSlot, c) = Slot - silence'
        <4>1. Gap(nextSlot, c) = Gap(nextSlot, clock) - 1
          BY <1>2, <1>4, <3>1
        <4> QED BY <1>2, <2>1, <2>4, <4>1
      <3>3. CASE silence' < Slot
        <4>1. ASSUME NEW d \in silence' + 1 .. Window PROVE sent'[d] > 0
          <5>1. d \in 0 .. Window /\ d # 0 /\ d - 1 \in silence + 1 .. Window
            BY <1>2, <2>1
          <5>2. sent[d - 1] > 0
            BY <2>4, <5>1
          <5>3. sent'[d] = sent[d - 1]
            BY <1>6, <5>1
          <5> QED BY <5>2, <5>3
        <4> QED BY <1>1, <1>3, <3>2, <3>3, <4>1 DEF SlotPrompt
      <3>4. CASE ~(silence' < Slot)
        <4>1. silence' = Slot /\ Gap(nextSlot, c) = 0
          BY <1>2, <2>1, <2>4, <3>2, <3>4
        <4>2. Gap(c, nextSlot) = 0
          BY <1>2, <1>3, <4>1, GapIs
        <4>3. silence' >= Slot /\ Gap(c, nextSlot) = silence' - Slot
          BY <1>2, <4>1, <4>2
        <4> QED BY <1>1, <1>3, <4>3 DEF SlotPrompt
      <3> QED BY <3>3, <3>4
    <2> QED BY <2>1, <2>2, <2>3, <2>4 DEF SlotPrompt
  <1>15. Prompt'
    BY <1>1, <1>13, <1>14 DEF Prompt
  <1> QED BY <1>7, <1>8, <1>9, <1>10, <1>11, <1>15 DEF Pace

LEMMA NextPace == Pace /\ [Next]_vars => Pace'
  <1>1. SUFFICES ASSUME Pace, [Next]_vars PROVE Pace'
    OBVIOUS
  <1>2. ASSUME NEW bits \in PacketBits,
               SendImmediate(bits) \/ SendRegularPayload(bits) \/ RegularPayloadHeld(bits)
        PROVE  Pace'
    BY <1>1, <1>2, SendImmediateKeeps, SendRegularPayloadKeeps, RegularPayloadHeldKeeps
  <1>3. ASSUME NEW l \in Limits, SetDownlinkLimit(l) PROVE Pace'
    BY <1>1, <1>3, SetDownlinkLimitKeeps
  <1>4. CASE Tick
    BY <1>1, <1>4, TickKeeps
  <1>5. CASE UNCHANGED vars
    <2>1. UNCHANGED <<clock, limit, nextSend, nextSlot, history, sequence, debt, sent, silence>>
      BY <1>5 DEF vars, paceVars
    <2> QED BY <1>1, <2>1 DEF Pace, Types, Unlimited, Paid, Slotted, Covered, Prompt,
                              SendPrompt, SlotPrompt
  <1> QED BY <1>1, <1>2, <1>3, <1>4, <1>5 DEF Next

-----------------------------------------------------------------------------
(* The promise                                                             *)

LEMMA InitPromise == Init => Promise!Init
  BY DEF Init, Promise!Init

LEMMA NextPromise == Pace /\ [Next]_vars => [Promise!Next]_(Promise!vars)
  <1>1. SUFFICES ASSUME Pace, [Next]_vars PROVE [Promise!Next]_(Promise!vars)
    OBVIOUS
  <1>2. ASSUME NEW bits \in PacketBits, SendImmediate(bits) PROVE Promise!Reply
    <2>1. /\ Promise!Send(bits, ~SendTimeReached(nextSend')) /\ sequence' = sequence
          /\ silence' = IF silence < Half THEN 0 ELSE silence
      BY <1>2 DEF SendImmediate, ChargeDownlink, ChargeHistory
    <2>2. CASE limit = 0
      <3>1. Promise!Send(bits, TRUE)
        BY <2>1, <2>2 DEF Promise!Send
      <3> QED BY <2>1, <3>1 DEF Promise!Reply
    <2>3. CASE limit # 0
      <3>1. silence < Half => ~SendTimeReached(nextSend')
        BY <1>1, <1>2, <2>3, SendImmediateKeeps
      <3>2. silence \in 0 .. Half /\ Half \in Nat
        BY <1>1, ConstantTypes DEF Pace, Types
      <3>3. ~SendTimeReached(nextSend') \/ silence = Half
        BY <3>1, <3>2
      <3>4. (~SendTimeReached(nextSend')) \in BOOLEAN
        BY DEF SendTimeReached
      <3> QED BY <2>1, <3>3, <3>4 DEF Promise!Reply
    <2> QED BY <2>2, <2>3
  <1>3. ASSUME NEW bits \in PacketBits, SendRegularPayload(bits) PROVE Promise!Telemetry
    <2>1. /\ RegularSendReady /\ BurstAllows(bits) /\ sequence' = 1 - sequence
          /\ Promise!Send(bits, ~SendTimeReached(nextSend')) /\ silence' = 0
      BY <1>3 DEF SendRegularPayload, ChargeDownlink, ChargeHistory
    <2>2. limit # 0 => debt = 0 /\ Promise!SlotFree
      BY <1>1, <2>1, ReadyIs
    <2>3. limit # 0 => Promise!BudgetAllows(bits)
      BY <1>1, <2>1, AllowedIs
    <2>4. limit # 0 => ~SendTimeReached(nextSend')
      BY <1>1, <1>3, SendRegularPayloadKeeps
    <2>5. Promise!Send(bits, TRUE)
      BY <2>1, <2>4 DEF Promise!Send
    <2> QED BY <2>1, <2>2, <2>3, <2>5 DEF Promise!Telemetry
  <1>4. ASSUME NEW bits \in PacketBits, RegularPayloadHeld(bits) PROVE UNCHANGED Promise!vars
    BY <1>4 DEF RegularPayloadHeld, paceVars, Promise!vars
  <1>5. ASSUME NEW l \in Limits, SetDownlinkLimit(l) PROVE Promise!ChangeLimit
    BY <1>5 DEF SetDownlinkLimit, Promise!ChangeLimit
  <1>6. ASSUME Tick PROVE Promise!Pass
    BY <1>6 DEF Tick
  <1>7. ASSUME UNCHANGED vars PROVE UNCHANGED Promise!vars
    BY <1>7 DEF vars, paceVars, Promise!vars
  <1> QED BY <1>1, <1>2, <1>3, <1>4, <1>5, <1>6, <1>7 DEF Next, Promise!Next

-----------------------------------------------------------------------------
(* The theorems                                                            *)

THEOREM PaceInvariant == Spec => []Pace
  BY InitPace, NextPace, PTL DEF Spec

\* The scheduler implements the paced link: a regular packet goes out only
\* with every send before it paid for, a free slot and room in the burst
\* window, although next_regular_send_us and next_telemetry_slot_us wrap,
\* old history entries merge and the limit changes.
THEOREM LinkKeepsPace == Spec => KeepsPace
  <1>1. Pace /\ [Next]_vars => [Promise!Next]_(Promise!vars)
    BY NextPromise
  <1> QED BY <1>1, InitPromise, PaceInvariant, PTL DEF Spec, KeepsPace, Promise!Spec

LEMMA PaceIsPrompt == Pace => NotHeldBack
  <1>1. SUFFICES ASSUME Pace, Due, silence < Half, limit # 0 PROVE RegularSendReady
    BY DEF NotHeldBack, RegularSendReady
  <1>2. SendPrompt /\ SlotPrompt /\ debt = 0 /\ sent[Slot] = 0
    BY <1>1 DEF Due, Pace, Prompt, Promise!SlotFree
  <1>3. /\ Half \in Nat /\ Slot \in Nat \ {0} /\ Slot <= Window /\ Window \in Nat
        /\ silence \in 0 .. Half /\ nextSend \in Times /\ nextSlot \in Times /\ clock \in Times
    BY <1>1, ConstantTypes DEF Pace, Types
  <1>4. Gap(clock, nextSend) < Half
    <2>1. Gap(clock, nextSend) <= silence /\ Gap(clock, nextSend) \in Nat
      BY <1>2, <1>3, GapIs DEF SendPrompt, Times
    <2> QED BY <1>1, <1>3, <2>1
  <1>5. Gap(clock, nextSlot) < Half
    <2>1. ~(/\ silence < Slot /\ Gap(nextSlot, clock) = Slot - silence
            /\ \A d \in silence + 1 .. Window : sent[d] > 0)
      <3>1. SUFFICES ASSUME silence < Slot, \A d \in silence + 1 .. Window : sent[d] > 0
                     PROVE  FALSE
        OBVIOUS
      <3>2. Slot \in silence + 1 .. Window
        BY <1>3, <3>1
      <3>3. sent[Slot] > 0
        BY <3>1, <3>2
      <3> QED BY <1>2, <3>3
    <2>2. CASE Gap(clock, nextSlot) = silence
      BY <1>1, <1>3, <2>2
    <2>3. CASE silence >= Slot /\ Gap(clock, nextSlot) = silence - Slot
      BY <1>1, <1>3, <2>3
    <2> QED BY <1>2, <2>1, <2>2, <2>3 DEF SlotPrompt
  <1> QED BY <1>1, <1>3, <1>4, <1>5, ReachedIs DEF RegularSendReady, Pace

\* Telemetry that is due is never held back by the clock arithmetic, unless
\* the link was silent for half the range of micros() before.
THEOREM DueIsSent == Spec => []NotHeldBack
  BY PaceInvariant, PaceIsPrompt, PTL
=============================================================================
