------------------------ MODULE InvestigationSafety -------------------------
(***************************************************************************)
(* An investigation that passes is exact: proofs about Investigation, for  *)
(* any window, slice length, floor, events, number of splits and resumes.  *)
(*                                                                         *)
(* The argument has two halves.  The slices that are not subdivided tile   *)
(* the window (TileInv): so do the days that are planned, and the parts of *)
(* a slice tile the slice.  It takes the rows that were subdivided to see  *)
(* it, for a part must not be one of the rows there are, or it would keep  *)
(* that row's state.  And tables that are merged from answers over slices  *)
(* that tile the window are those of the window (the second half).         *)
(***************************************************************************)
EXTENDS Investigation, Reductions

In(t, sl) == sl.start <= t /\ t < sl.end
Apart(l, m) == \/ l.end <= m.start \/ m.end <= l.start
               \/ l.end <= l.start \/ m.end <= m.start
Whole(t) == \E k \in Nat : t = Second * k

\* The slices in leaves, which are among those in rows, tile a window, and tile
\* each of the rows.
Tiling(rows, leaves, from, until) ==
  /\ leaves \subseteq rows /\ rows \subseteq Slice
  /\ \A sl \in rows : /\ from <= sl.start /\ sl.start <= sl.end /\ sl.end <= until
                      /\ Whole(sl.start) /\ Whole(sl.end)
  /\ \A t \in from..(until - 1) : \E sl \in leaves : In(t, sl)
  /\ \A l, m \in leaves : l = m \/ Apart(l, m)
  /\ \A sl \in rows : \A t \in sl.start..(sl.end - 1) :
       \E l \in leaves : In(t, l) /\ sl.start <= l.start /\ l.end <= sl.end

Rows(q) == {j[2] : j \in JobsOf(q)}
Fresh == phase = "new" /\ resumes = 0

TileInv ==
  \A q \in DOMAIN Catalog : JobsOf(q) # {} => Tiling(Rows(q), Leaves(q), From, Until)

\* The rows that planning would add are there, for the queries that may run,
\* and no others have rows.
PlanInv ==
  /\ Fresh => DOMAIN jobs = {}
  /\ ~Fresh => Texts \X Planned \subseteq DOMAIN jobs
  /\ \A j \in DOMAIN jobs : j[1] \in Texts

\* A result file holds the backend's answer for its slice.
ResultInv == \A j \in DOMAIN jobs : jobs[j] = "done" => files[j] = Answer(j[2])

\* A run is only judged once, and its tables are those of what is done.
Ran == {q \in DOMAIN Catalog : JobsOf(q) # {}}
VerdictInv ==
  /\ phase = "over" => tables = [q \in Ran |-> Table(q)]
  /\ phase # "over" => tables = << >> /\ passed = FALSE
  /\ passed = TRUE => \A j \in DOMAIN jobs : jobs[j] \in {"done", "subdivided"}

-----------------------------------------------------------------------------
(* Rounding.                                                               *)

LEMMA DivMod ==
  ASSUME NEW t \in Nat, NEW d \in Nat \ {0}
  PROVE  t \div d \in Nat /\ t % d \in 0..(d - 1) /\ t = d * (t \div d) + (t % d)
OBVIOUS

\* Between two multiples there is a whole step.
LEMMA MultiplesApart ==
  ASSUME NEW d \in Nat \ {0}, NEW j \in Nat, NEW k \in Nat, d * j < d * k
  PROVE  d * j + d <= d * k
<1>1. j < k
  <2> SUFFICES ASSUME k <= j PROVE FALSE
    OBVIOUS
  <2>1. d * k <= d * j
    OBVIOUS
  <2> QED
    BY <2>1
<1>2. d * (j + 1) <= d * k
  BY <1>1
<1>3. d * (j + 1) = d * j + d
  OBVIOUS
<1> QED
  BY <1>2, <1>3

LEMMA WholeApart ==
  ASSUME NEW a \in Nat, NEW b \in Nat, Whole(a), Whole(b), a < b
  PROVE  a + Second <= b
<1>1. PICK j \in Nat : a = Second * j
  BY DEF Whole
<1>2. PICK k \in Nat : b = Second * k
  BY DEF Whole
<1>3. Second \in Nat \ {0} /\ Second * j < Second * k
  BY <1>1, <1>2, TimeAssumption
<1>4. Second * j + Second <= Second * k
  BY <1>3, MultiplesApart
<1> QED
  BY <1>1, <1>2, <1>4

\* A time is rounded down to the last whole second.
LEMMA IsoZLast ==
  ASSUME NEW t \in Nat
  PROVE  /\ IsoZ(t) \in Nat /\ Whole(IsoZ(t))
         /\ IsoZ(t) <= t /\ t < IsoZ(t) + Second
<1> DEFINE k == t \div Second
           r == t % Second
<1>1. k \in Nat /\ r \in 0..(Second - 1) /\ t = Second * k + r
  BY DivMod, TimeAssumption
<1>2. IsoZ(t) = t - r
  BY DEF IsoZ
<1> HIDE DEF k, r
<1>3. /\ Second * k \in Nat /\ Second \in Nat \ {0}
      /\ IsoZ(t) = Second * k
  <2>1. Second * k \in Nat /\ Second \in Nat \ {0}
    BY <1>1, TimeAssumption
  <2>2. \A n \in Nat : t = n + r => t - r = n
    BY <1>1, <2>1
  <2> QED
    BY <1>1, <1>2, <2>1, <2>2
<1>4. Whole(IsoZ(t))
  BY <1>1, <1>3 DEF Whole
<1>5. \A n \in Nat : t = n + r => n <= t /\ t < n + Second
  BY <1>1, <1>3
<1> QED
  BY <1>1, <1>3, <1>4, <1>5

\* It keeps the order, and whole seconds.
LEMMA IsoZMonotone ==
  ASSUME NEW s \in Nat, NEW t \in Nat, s <= t
  PROVE  IsoZ(s) <= IsoZ(t)
<1>1. /\ IsoZ(s) \in Nat /\ Whole(IsoZ(s)) /\ IsoZ(s) <= s
      /\ IsoZ(t) \in Nat /\ Whole(IsoZ(t)) /\ t < IsoZ(t) + Second
  BY IsoZLast
<1>2. ~(IsoZ(t) < IsoZ(s))
  <2> SUFFICES ASSUME IsoZ(t) < IsoZ(s) PROVE FALSE
    OBVIOUS
  <2>1. IsoZ(t) + Second <= IsoZ(s)
    BY <1>1, WholeApart
  <2> QED
    BY <1>1, <2>1, TimeAssumption
<1> QED
  BY <1>1, <1>2

LEMMA IsoZWhole ==
  ASSUME NEW t \in Nat, Whole(t)
  PROVE  IsoZ(t) = t
<1>1. IsoZ(t) \in Nat /\ Whole(IsoZ(t)) /\ IsoZ(t) <= t /\ t < IsoZ(t) + Second
  BY IsoZLast
<1> QED
  BY <1>1, WholeApart, TimeAssumption

LEMMA Swap ==
  ASSUME NEW k \in Nat, NEW s \in Nat, NEW d \in Nat
  PROVE  k * (s * d) = s * (k * d)
OBVIOUS

\* Midnights are whole seconds.
LEMMA DaysWhole ==
  ASSUME NEW k \in Nat
  PROVE  k * Day \in Nat /\ Whole(k * Day)
<1>1. Day \in Nat /\ Day \div Second \in Nat /\ Day = Second * (Day \div Second)
  <2>1. Day \in Nat /\ Second \in Nat \ {0} /\ Day % Second = 0
    BY TimeAssumption
  <2>2. Day \div Second \in Nat /\ Day = Second * (Day \div Second) + (Day % Second)
    BY <2>1, DivMod
  <2>3. Second * (Day \div Second) \in Nat
    BY <2>1, <2>2
  <2> QED
    BY <2>1, <2>2, <2>3
<1>2. k * Day = Second * (k * (Day \div Second)) /\ k * (Day \div Second) \in Nat
  <2> DEFINE d == Day \div Second
  <2>1. d \in Nat /\ k * d \in Nat /\ Second \in Nat
    BY <1>1, TimeAssumption
  <2>2. k * (Second * d) = Second * (k * d)
    BY <2>1, Swap
  <2> QED
    BY <1>1, <2>1, <2>2
<1>3. k * Day \in Nat
  BY <1>1
<1> QED
  BY <1>2, <1>3 DEF Whole

-----------------------------------------------------------------------------
(* Slices.                                                                 *)

\* Slices one after another, each end the next start, tile what they span, and
\* they still do when all the ends are rounded down.
LEMMA ChainTiles ==
  ASSUME NEW m \in Nat, NEW p \in [0..(m + 1) -> Nat],
         \A i, j \in 0..(m + 1) : i <= j => p[i] <= p[j]
  PROVE  LET P == {Wire([start |-> p[k], end |-> p[k + 1]]) : k \in 0..m}
         IN  Tiling(P, P, IsoZ(p[0]), IsoZ(p[m + 1]))
<1> DEFINE r(i) == IsoZ(p[i])
           S(k) == [start |-> r(k), end |-> r(k + 1)]
           P == {S(k) : k \in 0..m}
<1>1. {Wire([start |-> p[k], end |-> p[k + 1]]) : k \in 0..m} = P
  BY DEF Wire
<1>2. \A i \in 0..(m + 1) : r(i) \in Nat /\ Whole(r(i))
  BY IsoZLast
<1>3. \A i, j \in 0..(m + 1) : i <= j => r(i) <= r(j)
  BY IsoZMonotone
<1>4. \A k \in 0..m : k \in 0..(m + 1) /\ k + 1 \in 0..(m + 1)
  OBVIOUS
<1>5. P \subseteq Slice
  BY <1>2, <1>4 DEF Slice
<1>6. \A sl \in P : /\ r(0) <= sl.start /\ sl.start <= sl.end /\ sl.end <= r(m + 1)
                    /\ Whole(sl.start) /\ Whole(sl.end)
  <2> SUFFICES ASSUME NEW k \in 0..m
               PROVE  /\ r(0) <= r(k) /\ r(k) <= r(k + 1) /\ r(k + 1) <= r(m + 1)
                      /\ Whole(r(k)) /\ Whole(r(k + 1))
    OBVIOUS
  <2> HIDE DEF r
  <2> QED
    BY <1>2, <1>3, <1>4
<1>7. ASSUME NEW t \in r(0)..(r(m + 1) - 1) PROVE \E sl \in P : In(t, sl)
  <2> DEFINE K == {k \in 0..(m + 1) : r(k) <= t}
  <2> HIDE DEF r
  <2>0. 0 \in 0..(m + 1) /\ m + 1 \in 0..(m + 1) /\ r(0) \in Nat /\ r(m + 1) \in Nat
    BY <1>2
  <2>1. K \in SUBSET Int /\ 0 \in K /\ m + 1 \notin K
    BY <2>0
  <2>2. IsFiniteSet(K)
    <3>1. IsFiniteSet(0..(m + 1))
      BY FS_Interval
    <3> QED
      BY <3>1, FS_Subset
  <2>3. Max(K) \in K /\ \A y \in K : Max(K) >= y
    <3> HIDE DEF K
    <3> QED BY <2>1, <2>2, MaxExists
  <2>4. PICK k \in 0..m : k \in K /\ k + 1 \notin K
    <3>1. Max(K) \in 0..m
      <4>1. Max(K) \in 0..(m + 1) /\ Max(K) # m + 1
        BY <2>1, <2>3
      <4> QED
        BY <4>1
    <3>2. Max(K) + 1 \notin K
      <4> HIDE DEF K
      <4> QED BY <2>3, <3>1
    <3> QED
      BY <2>3, <3>1, <3>2
  <2>5. r(k) <= t /\ t < r(k + 1)
    BY <1>2, <1>4, <2>4
  <2>6. In(t, S(k)) /\ S(k) \in P
    BY <2>5 DEF In
  <2> QED
    BY <2>6
<1>8. ASSUME NEW i \in 0..m, NEW j \in 0..m PROVE S(i) = S(j) \/ Apart(S(i), S(j))
  <2> HIDE DEF r
  <2>1. CASE i < j
    <3>1. r(i + 1) <= r(j)
      BY <1>3, <1>4, <2>1
    <3> QED
      BY <3>1 DEF Apart
  <2>2. CASE j < i
    <3>1. r(j + 1) <= r(i)
      BY <1>3, <1>4, <2>2
    <3> QED
      BY <3>1 DEF Apart
  <2>3. CASE i = j
    BY <2>3
  <2> QED
    BY <2>1, <2>2, <2>3
<1>9. \A sl \in P : \A t \in sl.start..(sl.end - 1) :
        \E l \in P : In(t, l) /\ sl.start <= l.start /\ l.end <= sl.end
  <2> SUFFICES ASSUME NEW sl \in P, NEW t \in sl.start..(sl.end - 1)
               PROVE  In(t, sl) /\ sl.start <= sl.start /\ sl.end <= sl.end
    OBVIOUS
  <2>1. sl.start \in Nat /\ sl.end \in Nat
    BY <1>5 DEF Slice
  <2> QED
    BY <2>1 DEF In
<1>10. \A l, n \in P : l = n \/ Apart(l, n)
  BY <1>8
<1> QED
  <2> HIDE DEF P, r
  <2>1. Tiling(P, P, r(0), r(m + 1))
    BY <1>5, <1>6, <1>7, <1>9, <1>10 DEF Tiling
  <2> QED
    BY <1>1, <2>1 DEF r

LEMMA Multiple ==
  ASSUME NEW d \in Nat \ {0}, NEW n \in Nat \ {0}
  PROVE  n * d \in Nat \ {0} /\ d <= n * d
<1>1. n = (n - 1) + 1 /\ n - 1 \in Nat
  OBVIOUS
<1>2. (n - 1) * d \in Nat
  BY <1>1
<1>3. n * d = (n - 1) * d + d
  BY <1>1
<1> QED
  BY <1>2, <1>3

\* The days that plan() cuts a window into tile it, down to the second, wherever
\* the window begins and ends and however many days a slice has.
THEOREM DaySlicesTile ==
  ASSUME NEW start \in Nat, NEW end \in Nat, NEW days \in Nat \ {0}, start < end
  PROVE  LET P == {Wire(sl) : sl \in DaySlices(start, end, days)}
         IN  Tiling(P, P, IsoZ(start), IsoZ(end))
<1> DEFINE step == days * Day
           c0 == FloorDay(start)
           m == (end - 1 - c0) \div step
           c(k) == c0 + k * step
           p == [k \in 0..(m + 1) |-> IF k = 0 THEN start ELSE IF k = m + 1 THEN end ELSE c(k)]
<1>1. step \in Nat \ {0} /\ Day \in Nat \ {0} /\ Day <= step
  <2>1. Day \in Nat \ {0}
    BY TimeAssumption
  <2> QED
    BY <2>1, Multiple
<1>2. c0 \in Nat /\ c0 <= start /\ start < c0 + Day
  <2>1. start % Day \in 0..(Day - 1) /\ start = Day * (start \div Day) + (start % Day)
        /\ start \div Day \in Nat
    BY <1>1, DivMod
  <2>2. Day * (start \div Day) \in Nat
    BY <1>1, <2>1
  <2>3. \A n \in Nat, x \in 0..(Day - 1) : start = n + x => start - x \in Nat /\ start - x <= start
                                                        /\ start < start - x + Day
    BY <1>1
  <2> QED
    BY <2>1, <2>2, <2>3 DEF FloorDay
<1>3. m \in Nat /\ m * step <= end - 1 - c0 /\ end - 1 - c0 < (m + 1) * step
  <2> DEFINE x == end - 1 - c0
  <2>1. x \in Nat
    BY <1>2
  <2>2. m \in Nat /\ x % step \in 0..(step - 1) /\ x = step * m + (x % step)
    <3>1. \A t \in Nat, d \in Nat \ {0} : t \div d \in Nat /\ t % d \in 0..(d - 1)
                                          /\ t = d * (t \div d) + (t % d)
      BY DivMod
    <3>2. m = x \div step
      OBVIOUS
    <3> HIDE DEF x, step, m
    <3> QED BY <1>1, <2>1, <3>1, <3>2
  <2>3. m * step \in Nat /\ (m + 1) * step = m * step + step /\ step * m = m * step
    <3> HIDE DEF m, step, x
    <3> QED BY <1>1, <2>2
  <2> HIDE DEF x, m, step
  <2> QED BY <1>1, <2>1, <2>2, <2>3 DEF x
<1>4. \A i, j \in Nat : i <= j => c(i) \in Nat /\ c(i) <= c(j)
  <2> HIDE DEF step, c0
  <2> SUFFICES ASSUME NEW i \in Nat, NEW j \in Nat, i <= j
               PROVE  c(i) \in Nat /\ c(i) <= c(j)
    OBVIOUS
  <2>1. i * step \in Nat /\ i * step <= j * step /\ j * step \in Nat
    BY <1>1
  <2> QED
    BY <1>2, <2>1
<1>5. c(m) < end /\ end <= c(m + 1) /\ c(0) = c0 /\ start < c(1)
  <2>1. 1 * step = step /\ 0 * step = 0 /\ m * step \in Nat /\ (m + 1) * step \in Nat
    <3> HIDE DEF step, m
    <3> QED BY <1>1, <1>3
  <2> HIDE DEF step, m, c0
  <2> QED BY <1>1, <1>2, <1>3, <2>1
<1>6. \A k \in Nat : c(k + 1) = c(k) + step
  <2> HIDE DEF step, c0
  <2> QED BY <1>1, <1>2
<1>7. p \in [0..(m + 1) -> Nat]
  <2> HIDE DEF c, m
  <2> QED BY <1>3, <1>4
<1>8. \A k \in 0..(m + 1) : p[k] = IF k = 0 THEN start ELSE IF k = m + 1 THEN end ELSE c(k)
  OBVIOUS
<1> HIDE DEF c, m, p
<1>9. ASSUME NEW i \in 0..(m + 1), NEW j \in 0..(m + 1), i <= j PROVE p[i] <= p[j]
  <2>0. i \in Nat /\ j \in Nat /\ 1 \in Nat /\ m \in Nat /\ p[i] \in Nat /\ p[j] \in Nat
    BY <1>3, <1>7
  <2>1. CASE i = j
    BY <2>0, <2>1
  <2>2. CASE i < j /\ i = 0 /\ j = m + 1
    <3>1. p[i] = start /\ p[j] = end
      BY <1>8, <2>0, <2>2
    <3> QED
      BY <3>1
  <2>3. CASE i < j /\ i = 0 /\ j # m + 1
    <3>1. c(1) <= c(j) /\ c(1) \in Nat /\ c(j) \in Nat
      BY <1>4, <2>0, <2>3
    <3>2. p[i] = start /\ p[j] = c(j)
      BY <1>8, <2>0, <2>3
    <3> QED
      BY <1>5, <3>1, <3>2
  <2>4. CASE i < j /\ i # 0 /\ j = m + 1
    <3>1. i <= m
      BY <2>0, <2>4
    <3>2. c(i) <= c(m) /\ c(i) \in Nat /\ c(m) \in Nat
      BY <1>4, <2>0, <3>1
    <3>3. p[i] = c(i) /\ p[j] = end
      BY <1>8, <2>0, <2>4, <3>1
    <3> QED
      BY <1>5, <3>2, <3>3
  <2>5. CASE i < j /\ i # 0 /\ j # m + 1
    <3>1. c(i) <= c(j)
      BY <1>4, <2>0, <2>5
    <3>2. i # m + 1
      BY <2>0, <2>5
    <3>3. p[i] = c(i) /\ p[j] = c(j)
      BY <1>8, <2>0, <2>5, <3>2
    <3> QED
      BY <3>1, <3>3
  <2> QED
    BY <1>9, <2>0, <2>1, <2>2, <2>3, <2>4, <2>5
<1>10. ASSUME NEW k \in 0..m
       PROVE  Later(c(k), start) = p[k] /\ Earlier(c(k + 1), end) = p[k + 1]
  <2>0. /\ k \in Nat /\ k + 1 \in Nat /\ m \in Nat /\ k <= m /\ k # m + 1 /\ k + 1 # 0
        /\ k \in 0..(m + 1) /\ k + 1 \in 0..(m + 1)
    BY <1>3
  <2>1. Later(c(k), start) = p[k]
    <3>1. CASE k = 0
      <4>1. p[k] = start
        BY <1>8, <2>0, <3>1
      <4>2. c(k) <= start /\ c(k) \in Nat
        BY <1>2, <1>4, <1>5, <3>1
      <4> QED
        BY <4>1, <4>2 DEF Later
    <3>2. CASE k # 0
      <4>1. p[k] = c(k)
        BY <1>8, <2>0, <3>2
      <4>2. c(1) <= c(k) /\ c(1) \in Nat /\ c(k) \in Nat
        BY <1>4, <2>0, <3>2
      <4>3. c(k) > start
        BY <1>5, <4>2
      <4> QED
        BY <4>1, <4>3 DEF Later
    <3> QED
      BY <3>1, <3>2
  <2>2. Earlier(c(k + 1), end) = p[k + 1]
    <3>1. CASE k = m
      <4>1. p[k + 1] = end
        BY <1>8, <2>0, <3>1
      <4>2. end <= c(k + 1) /\ c(k + 1) \in Nat
        BY <1>4, <1>5, <2>0, <3>1
      <4> QED
        BY <4>1, <4>2 DEF Earlier
    <3>2. CASE k # m
      <4>1. p[k + 1] = c(k + 1)
        BY <1>8, <2>0, <3>2
      <4>2. c(k + 1) <= c(m) /\ c(k + 1) \in Nat /\ c(m) \in Nat
        BY <1>4, <2>0, <3>2
      <4>3. c(k + 1) < end
        BY <1>5, <4>2
      <4> QED
        BY <4>1, <4>3 DEF Earlier
    <3> QED
      BY <3>1, <3>2
  <2> QED
    BY <2>1, <2>2
<1>11. DaySlices(start, end, days) = {[start |-> p[k], end |-> p[k + 1]] : k \in 0..m}
  <2>1. DaySlices(start, end, days) =
          {[start |-> Later(x, start), end |-> Earlier(x + step, end)] : x \in {c(k) : k \in 0..m}}
    BY DEF DaySlices, Cursors, c, m
  <2>2. {[start |-> Later(x, start), end |-> Earlier(x + step, end)] : x \in {c(k) : k \in 0..m}}
          = {[start |-> Later(c(k), start), end |-> Earlier(c(k) + step, end)] : k \in 0..m}
    OBVIOUS
  <2>3. \A k \in 0..m : c(k) + step = c(k + 1)
    BY <1>3, <1>6
  <2> QED
    BY <1>10, <2>1, <2>2, <2>3
<1>12. {Wire(sl) : sl \in DaySlices(start, end, days)}
         = {Wire([start |-> p[k], end |-> p[k + 1]]) : k \in 0..m}
  BY <1>11
<1>13. p[0] = start /\ p[m + 1] = end
  BY <1>3, <1>8
<1> QED
  BY <1>3, <1>7, <1>9, <1>12, <1>13, ChainTiles

\* The parts that subdivide() cuts a slice into tile it, down to the second; all
\* of them have length, and none is the slice.
THEOREM SubdivideTiles ==
  ASSUME NEW sl \in Slice, Whole(sl.start), Whole(sl.end), Subdivide(sl) # {sl}
  PROVE  LET P == {Wire(x) : x \in Subdivide(sl)}
         IN  /\ Tiling(P, P, sl.start, sl.end)
             /\ \A x \in P : x.start < x.end /\ x # sl
<1> DEFINE a == sl.start
           b == sl.end
           step == (b - a) \div Factor
           m == Factor - 1
           p == [i \in 0..(m + 1) |-> IF i = Factor THEN b ELSE a + step * i]
<1>1. /\ a \in Nat /\ b \in Nat /\ b - a > Floor /\ Floor >= 4 * Second /\ Floor \in Nat
      /\ Second \in Nat \ {0}
  <2>1. b - a > Floor
    <3>1. ~(b - a <= Floor)
      BY DEF Subdivide
    <3> QED
      BY <3>1, TimeAssumption DEF Slice
  <2> QED
    BY <2>1, TimeAssumption DEF Slice, Factor
<1>2. /\ step \in Nat /\ Second <= step
      /\ b >= a + 4 * step /\ b < a + 4 * step + 4
  BY <1>1 DEF Factor
<1>3. m = 3 /\ m + 1 = 4 /\ Factor = 4
  BY DEF Factor
<1>4. /\ DOMAIN p = 0..4
      /\ p[0] = a /\ p[1] = a + step /\ p[2] = a + 2 * step /\ p[3] = a + 3 * step /\ p[4] = b
  <2> HIDE DEF step
  <2> QED BY <1>1, <1>2, <1>3
<1>5. Subdivide(sl) = {[start |-> p[i], end |-> p[i + 1]] : i \in 0..m}
  <2>1. Subdivide(sl) = {[start |-> a + step * i,
                          end |-> IF i = Factor - 1 THEN b ELSE a + step * (i + 1)] : i \in 0..m}
    BY <1>1 DEF Subdivide
  <2>2. \A i \in 0..m : /\ p[i] = a + step * i
                        /\ p[i + 1] = IF i = Factor - 1 THEN b ELSE a + step * (i + 1)
    BY <1>3
  <2> HIDE DEF p, m, step
  <2> QED BY <2>1, <2>2
<1> HIDE DEF p, step, m
<1>6. p \in [0..(m + 1) -> Nat]
  <2>1. \A i \in 0..4 : p[i] \in Nat
    <3>1. \A i \in 0..4 : i = 0 \/ i = 1 \/ i = 2 \/ i = 3 \/ i = 4
      OBVIOUS
    <3> QED
      BY <1>1, <1>2, <1>4, <3>1
  <2>2. p = [i \in 0..4 |-> p[i]]
    BY <1>3 DEF p
  <2> QED
    BY <1>3, <2>1, <2>2
\* Every two ends are more than a second apart, so that they stay apart.
<1>7. \A i, j \in 0..(m + 1) : i < j => p[i] + Second <= p[j]
  <2>1. \A i \in 0..4 : i = 0 \/ i = 1 \/ i = 2 \/ i = 3 \/ i = 4
    OBVIOUS
  <2> QED
    BY <1>1, <1>2, <1>3, <1>4, <2>1
<1>8. \A i, j \in 0..(m + 1) : i <= j => p[i] <= p[j]
  BY <1>1, <1>3, <1>6, <1>7
<1>9. IsoZ(p[0]) = a /\ IsoZ(p[m + 1]) = b
  BY <1>1, <1>3, <1>4, IsoZWhole
<1>10. {Wire(x) : x \in Subdivide(sl)} = {Wire([start |-> p[k], end |-> p[k + 1]]) : k \in 0..m}
  BY <1>5
<1>11. m \in Nat
  BY <1>3
<1>12. LET P == {Wire(x) : x \in Subdivide(sl)} IN Tiling(P, P, a, b)
  BY <1>6, <1>8, <1>9, <1>10, <1>11, ChainTiles
<1>13. \A i, j \in 0..(m + 1) : i < j => IsoZ(p[i]) < IsoZ(p[j])
  <2> SUFFICES ASSUME NEW i \in 0..(m + 1), NEW j \in 0..(m + 1), i < j
               PROVE  IsoZ(p[i]) < IsoZ(p[j])
    OBVIOUS
  <2>1. /\ p[i] \in Nat /\ p[j] \in Nat /\ p[i] + Second <= p[j]
        /\ IsoZ(p[i]) \in Nat /\ IsoZ(p[i]) <= p[i]
        /\ IsoZ(p[j]) \in Nat /\ p[j] < IsoZ(p[j]) + Second
    BY <1>6, <1>7, IsoZLast
  <2> QED
    BY <1>1, <2>1
<1>14. \A x \in {Wire(y) : y \in Subdivide(sl)} : x.start < x.end /\ x # sl
  <2> SUFFICES ASSUME NEW k \in 0..m
               PROVE  IsoZ(p[k]) < IsoZ(p[k + 1]) /\ (IsoZ(p[k]) # a \/ IsoZ(p[k + 1]) # b)
    BY <1>10 DEF Wire
  <2>1. IsoZ(p[k]) < IsoZ(p[k + 1])
    BY <1>3, <1>13
  <2>2. CASE k = 0
    <3>1. k + 1 < m + 1 /\ k + 1 \in 0..(m + 1) /\ m + 1 \in 0..(m + 1)
      BY <1>3, <2>2
    <3>2. IsoZ(p[k + 1]) < b /\ IsoZ(p[k + 1]) \in Nat
      BY <1>6, <1>9, <1>13, <3>1, IsoZLast
    <3> QED
      BY <1>1, <2>1, <3>2
  <2>3. CASE k # 0
    <3>1. 0 < k /\ k \in 0..(m + 1) /\ 0 \in 0..(m + 1)
      BY <1>3, <2>3
    <3>2. a < IsoZ(p[k]) /\ IsoZ(p[k]) \in Nat
      BY <1>6, <1>9, <1>13, <3>1, IsoZLast
    <3> QED
      BY <1>1, <2>1, <3>2
  <2> QED
    BY <2>2, <2>3
<1> QED
  BY <1>12, <1>14

\* P cuts the slice sl into pieces that are neither empty nor sl again.
Cuts(P, sl) == Tiling(P, P, sl.start, sl.end) /\ \A x \in P : x.start < x.end /\ x # sl

\* A slice that is replaced by its parts leaves a tiling; the parts are new rows.
LEMMA SplitTiles ==
  ASSUME NEW R, NEW L, NEW a \in Nat, NEW b \in Nat, Tiling(R, L, a, b),
         NEW sl \in L, NEW P, Cuts(P, sl)
  PROVE  Tiling(R \cup P, (L \ {sl}) \cup P, a, b) /\ P \cap R = {}
<1> USE DEF Cuts
<1>0. /\ L \subseteq R /\ R \subseteq Slice /\ P \subseteq Slice /\ sl \in Slice
      /\ a <= sl.start /\ sl.end <= b
  BY DEF Tiling
<1>1. \A x \in P : sl.start <= x.start /\ x.end <= sl.end /\ Whole(x.start) /\ Whole(x.end)
  BY DEF Tiling
<1>2. P \cap R = {}
  <2> SUFFICES ASSUME NEW x \in P, x \in R PROVE FALSE
    OBVIOUS
  <2>1. x \in Slice /\ x.start \in Nat /\ x.end \in Nat /\ x.start < x.end
    BY <1>0 DEF Slice
  <2>2. PICK l \in L : In(x.start, l) /\ x.start <= l.start /\ l.end <= x.end
    BY <2>1 DEF Tiling
  <2>3. l \in Slice /\ l.start \in Nat /\ l.end \in Nat /\ sl.start \in Nat /\ sl.end \in Nat
    BY <1>0 DEF Slice
  <2>4. l = sl
    <3>1. l = sl \/ Apart(l, sl)
      BY DEF Tiling
    <3> QED
      BY <1>1, <2>1, <2>2, <2>3, <3>1 DEF Apart, In
  <2>5. x.start = sl.start /\ x.end = sl.end
    BY <1>1, <2>1, <2>2, <2>3, <2>4
  <2>6. x = sl
    BY <1>0, <2>5 DEF Slice
  <2> QED
    BY <2>6
<1>3. \A x \in R \cup P : /\ a <= x.start /\ x.start <= x.end /\ x.end <= b
                          /\ Whole(x.start) /\ Whole(x.end)
  <2> SUFFICES ASSUME NEW x \in P PROVE a <= x.start /\ x.start <= x.end /\ x.end <= b
    BY <1>1 DEF Tiling
  <2> QED
    BY <1>0, <1>1 DEF Slice
\* What the slice held is in one of its parts.
<1>4. ASSUME NEW t \in Nat, NEW l \in L, In(t, l), NEW x \in Slice, x.start <= l.start, l.end <= x.end
      PROVE  \E n \in (L \ {sl}) \cup P : In(t, n) /\ x.start <= n.start /\ n.end <= x.end
  <2>1. CASE l # sl
    BY <1>4, <2>1
  <2>2. CASE l = sl
    <3>1. t \in sl.start..(sl.end - 1)
      BY <1>0, <1>4, <2>2 DEF In, Slice
    <3>2. PICK n \in P : In(t, n)
      BY <3>1 DEF Tiling
    <3>3. sl.start <= n.start /\ n.end <= sl.end
      BY <1>1
    <3>4. x.start <= n.start /\ n.end <= x.end
      BY <1>0, <1>4, <2>2, <3>3 DEF Slice
    <3> QED
      BY <3>2, <3>4
  <2> QED
    BY <2>1, <2>2
<1>5. \A t \in a..(b - 1) : \E l \in (L \ {sl}) \cup P : In(t, l)
  <2> SUFFICES ASSUME NEW t \in a..(b - 1) PROVE \E n \in (L \ {sl}) \cup P : In(t, n)
    OBVIOUS
  <2>1. PICK l \in L : In(t, l)
    BY DEF Tiling
  <2>2. t \in Nat /\ l \in Slice /\ l.start <= l.start /\ l.end <= l.end
    BY <1>0 DEF Slice
  <2> QED
    BY <1>4, <2>1, <2>2
<1>6. ASSUME NEW x \in (L \ {sl}) \cup P, NEW y \in (L \ {sl}) \cup P PROVE x = y \/ Apart(x, y)
  <2>1. CASE x \in P /\ y \in P
    BY <2>1 DEF Tiling
  <2>2. CASE x \in L \ {sl} /\ y \in L \ {sl}
    BY <2>2 DEF Tiling
  <2>3. CASE x \in L \ {sl} /\ y \in P
    <3>1. Apart(x, sl)
      BY <2>3 DEF Tiling
    <3> QED
      BY <1>0, <1>1, <2>3, <3>1 DEF Apart, Slice
  <2>4. CASE x \in P /\ y \in L \ {sl}
    <3>1. Apart(sl, y)
      BY <2>4 DEF Tiling
    <3> QED
      BY <1>0, <1>1, <2>4, <3>1 DEF Apart, Slice
  <2> QED
    BY <1>6, <2>1, <2>2, <2>3, <2>4
<1>7. ASSUME NEW x \in R \cup P, NEW t \in x.start..(x.end - 1)
      PROVE  \E n \in (L \ {sl}) \cup P : In(t, n) /\ x.start <= n.start /\ n.end <= x.end
  <2>1. x \in Slice /\ t \in Nat
    BY <1>0 DEF Slice
  <2>2. CASE x \in P
    <3>1. In(t, x) /\ x.start <= x.start /\ x.end <= x.end
      BY <2>1 DEF In, Slice
    <3> QED
      BY <2>2, <3>1
  <2>3. CASE x \in R
    <3>1. PICK l \in L : In(t, l) /\ x.start <= l.start /\ l.end <= x.end
      BY <2>3 DEF Tiling
    <3> QED
      BY <1>4, <2>1, <3>1
  <2> QED
    BY <2>2, <2>3
<1>8. (L \ {sl}) \cup P \subseteq R \cup P /\ R \cup P \subseteq Slice
  BY <1>0
<1> QED
  BY <1>2, <1>3, <1>5, <1>6, <1>7, <1>8 DEF Tiling

-----------------------------------------------------------------------------
(* The ledger.                                                             *)

LEMMA RequestType ==
  ASSUME TypeOK
  PROVE  /\ request.start \in Nat /\ request.end \in Nat /\ request.days \in Nat \ {0}
         /\ From \in Nat /\ Until \in Nat
         /\ request.vars \in Variables
         /\ \A q \in DOMAIN Catalog : Catalog[q] \in Query
BY RequestAssumption, IsoZLast DEF TypeOK, From, Until, Catalog

LEMMA PlannedTile ==
  ASSUME TypeOK
  PROVE  Planned = {} \/ Tiling(Planned, Planned, From, Until)
<1>1. CASE request.start < request.end
  BY <1>1, RequestType, DaySlicesTile DEF Planned, From, Until
<1>2. CASE ~(request.start < request.end)
  <2>1. request.end <= request.start
    BY <1>2, RequestType
  <2> QED
    BY <2>1 DEF Planned, DaySlices
<1> QED
  BY <1>1, <1>2

\* The rows of a query in a ledger, and those that are not subdivided, as slices.
RowsIn(ledger, q) == {j[2] : j \in {i \in DOMAIN ledger : i[1] = q}}
LeavesIn(ledger, q) ==
  {j[2] : j \in {i \in {k \in DOMAIN ledger : k[1] = q} : ledger[i] # "subdivided"}}

LEMMA LedgerSlices ==
  ASSUME NEW C, NEW ledger, DOMAIN ledger \subseteq C \X Slice, NEW q
  PROVE  /\ RowsIn(ledger, q) = {sl \in Slice : <<q, sl>> \in DOMAIN ledger}
         /\ LeavesIn(ledger, q)
              = {sl \in Slice : <<q, sl>> \in DOMAIN ledger /\ ledger[<<q, sl>>] # "subdivided"}
         /\ {i \in DOMAIN ledger : i[1] = q} # {} <=> RowsIn(ledger, q) # {}
<1>1. \A j \in DOMAIN ledger : j = <<j[1], j[2]>> /\ j[2] \in Slice
  OBVIOUS
<1>2. \A j \in DOMAIN ledger : j[1] = q => <<q, j[2]>> \in DOMAIN ledger /\ j[2] \in Slice /\ j = <<q, j[2]>>
  BY <1>1
<1>3. \A sl : <<q, sl>>[1] = q /\ <<q, sl>>[2] = sl
  OBVIOUS
<1>4. RowsIn(ledger, q) = {sl \in Slice : <<q, sl>> \in DOMAIN ledger}
  BY <1>2, <1>3 DEF RowsIn
<1>5. LeavesIn(ledger, q)
        = {sl \in Slice : <<q, sl>> \in DOMAIN ledger /\ ledger[<<q, sl>>] # "subdivided"}
  BY <1>2, <1>3 DEF LeavesIn
<1>6. {i \in DOMAIN ledger : i[1] = q} # {} <=> RowsIn(ledger, q) # {}
  BY DEF RowsIn
<1> QED
  BY <1>4, <1>5, <1>6

LEMMA LedgerRows ==
  ASSUME TypeOK, NEW q
  PROVE  /\ Rows(q) = {sl \in Slice : <<q, sl>> \in DOMAIN jobs}
         /\ Leaves(q) = {sl \in Slice : <<q, sl>> \in DOMAIN jobs /\ jobs[<<q, sl>>] # "subdivided"}
         /\ JobsOf(q) # {} <=> Rows(q) # {}
<1>1. DOMAIN jobs \subseteq (DOMAIN Catalog) \X Slice
  BY DEF TypeOK
<1>2. Rows(q) = RowsIn(jobs, q) /\ Leaves(q) = LeavesIn(jobs, q) /\ JobsOf(q) = {i \in DOMAIN jobs : i[1] = q}
  BY DEF Rows, Leaves, RowsIn, LeavesIn, JobsOf
<1> QED
  BY <1>1, <1>2, LedgerSlices

LEMMA NextLedgerRows ==
  ASSUME TypeOK', NEW q
  PROVE  /\ Rows(q)' = {sl \in Slice : <<q, sl>> \in DOMAIN jobs'}
         /\ Leaves(q)' = {sl \in Slice : <<q, sl>> \in DOMAIN jobs' /\ jobs'[<<q, sl>>] # "subdivided"}
         /\ JobsOf(q)' # {} <=> Rows(q)' # {}
<1>1. DOMAIN jobs' \subseteq (DOMAIN Catalog') \X Slice
  BY DEF TypeOK
<1>2. /\ Rows(q)' = RowsIn(jobs', q) /\ Leaves(q)' = LeavesIn(jobs', q)
      /\ JobsOf(q)' = {i \in DOMAIN jobs' : i[1] = q}
  BY DEF Rows, Leaves, RowsIn, LeavesIn, JobsOf
<1> QED
  BY <1>1, <1>2, LedgerSlices

\* A job and the tiling that its slice belongs to.
LEMMA JobSlice ==
  ASSUME TypeOK, TileInv, NEW j \in DOMAIN jobs
  PROVE  /\ j = <<j[1], j[2]>> /\ j[1] \in DOMAIN Catalog /\ j[2] \in Slice
         /\ Tiling(Rows(j[1]), Leaves(j[1]), From, Until)
         /\ j[2] \in Rows(j[1])
         /\ jobs[j] # "subdivided" => j[2] \in Leaves(j[1])
         /\ Whole(j[2].start) /\ Whole(j[2].end)
<1>1. j = <<j[1], j[2]>> /\ j[1] \in DOMAIN Catalog /\ j[2] \in Slice
  BY DEF TypeOK
<1>2. j[2] \in Rows(j[1]) /\ JobsOf(j[1]) # {}
  BY <1>1, LedgerRows
<1>3. Tiling(Rows(j[1]), Leaves(j[1]), From, Until)
  BY <1>1, <1>2 DEF TileInv
<1>4. jobs[j] # "subdivided" => j[2] \in Leaves(j[1])
  BY <1>1, LedgerRows
<1>5. Whole(j[2].start) /\ Whole(j[2].end)
  BY <1>2, <1>3 DEF Tiling
<1> QED
  BY <1>1, <1>2, <1>3, <1>4, <1>5

\* The parts of a slice that is too slow.
Parts(j) == {Wire(sl) : sl \in Subdivide(j[2])}

LEMMA JobParts ==
  ASSUME TypeOK, TileInv, NEW j \in DOMAIN jobs, Subdivide(j[2]) # {j[2]}
  PROVE  /\ Tiling(Parts(j), Parts(j), j[2].start, j[2].end)
         /\ \A x \in Parts(j) : x.start < x.end /\ x # j[2]
         /\ Parts(j) \subseteq Slice
<1>1. j[2] \in Slice /\ Whole(j[2].start) /\ Whole(j[2].end)
  BY JobSlice
<1>2. LET P == {Wire(sl) : sl \in Subdivide(j[2])}
      IN  Tiling(P, P, j[2].start, j[2].end) /\ \A x \in P : x.start < x.end /\ x # j[2]
  BY <1>1, SubdivideTiles
<1> QED
  BY <1>2 DEF Parts, Tiling

-----------------------------------------------------------------------------
(* The steps of a run.                                                     *)

\* A step that only changes how the rows stand.
KeepsRows ==
  /\ UNCHANGED request
  /\ DOMAIN jobs' = DOMAIN jobs
  /\ \A j \in DOMAIN jobs : jobs'[j] = "subdivided" <=> jobs[j] = "subdivided"

\* A step that puts the parts of a slice in its place.
Splits(j) ==
  /\ UNCHANGED <<request, files, phase, tables, passed, resumes>>
  /\ phase = "run" /\ jobs[j] = "pending" /\ Subdivide(j[2]) # {j[2]}
  /\ DOMAIN jobs' = DOMAIN jobs \cup {<<j[1], sl>> : sl \in Parts(j)}
  /\ \A i \in DOMAIN jobs' : jobs'[i] = IF i = j THEN "subdivided"
                                        ELSE IF i \in DOMAIN jobs THEN jobs[i] ELSE "pending"

\* A step in which a pending job ends without an answer.
Loses(j) ==
  /\ UNCHANGED <<request, files, phase, tables, passed, resumes>>
  /\ phase = "run" /\ jobs[j] = "pending"
  /\ \E s \in {"failed", "permanent"} : jobs' = [jobs EXCEPT ![j] = s]

LEMMA JobSteps ==
  ASSUME NEW j \in DOMAIN jobs, TooSlow(j) \/ GiveUp(j)
  PROVE  Splits(j) \/ Loses(j)
<1>1. CASE GiveUp(j)
  BY <1>1 DEF GiveUp, Loses
<1>2. CASE TooSlow(j)
  <2> DEFINE split == [jobs EXCEPT ![j] = "subdivided"]
             new == {<<j[1], Wire(sl)>> : sl \in Subdivide(j[2])}
  <2>1. CASE jobs' = [jobs EXCEPT ![j] = "failed"]
    BY <1>2, <2>1 DEF TooSlow, Loses
  <2>2. CASE Subdivide(j[2]) # {j[2]} /\ jobs' = Upsert(split, new)
    <3>1. DOMAIN split = DOMAIN jobs /\ \A i \in DOMAIN jobs : split[i] = IF i = j THEN "subdivided" ELSE jobs[i]
      OBVIOUS
    <3>2. new = {<<j[1], sl>> : sl \in Parts(j)}
      BY DEF Parts
    <3>3. /\ DOMAIN jobs' = DOMAIN jobs \cup new
          /\ \A i \in DOMAIN jobs' : jobs'[i] = IF i \in DOMAIN jobs THEN split[i] ELSE "pending"
      <4> HIDE DEF split, new
      <4> QED BY <2>2, <3>1 DEF Upsert
    <3>4. \A i \in DOMAIN jobs' : jobs'[i] = IF i = j THEN "subdivided"
                                             ELSE IF i \in DOMAIN jobs THEN jobs[i] ELSE "pending"
      <4> HIDE DEF split, new
      <4> QED BY <3>1, <3>3
    <3> QED
      BY <1>2, <2>2, <3>2, <3>3, <3>4 DEF TooSlow, Splits
  <2>3. \/ jobs' = [jobs EXCEPT ![j] = "failed"]
        \/ Subdivide(j[2]) # {j[2]} /\ jobs' = Upsert(split, new)
    BY <1>2 DEF TooSlow
  <2> QED
    BY <2>1, <2>2, <2>3
<1> QED
  BY <1>1, <1>2

\* What planning does to the ledger.
LEMMA PlanStep ==
  ASSUME Plan
  PROVE  /\ DOMAIN jobs' = DOMAIN jobs \cup (Texts \X Planned)
         /\ \A j \in DOMAIN jobs' : jobs'[j] = IF j \in DOMAIN jobs /\ jobs[j] # "failed" THEN jobs[j]
                                               ELSE "pending"
<1> DEFINE old == [j \in DOMAIN jobs |-> IF jobs[j] = "failed" THEN "pending" ELSE jobs[j]]
           new == Texts \X Planned
<1>1. jobs' = Upsert(old, new)
  BY DEF Plan
<1>2. DOMAIN old = DOMAIN jobs /\ \A j \in DOMAIN jobs : old[j] = IF jobs[j] = "failed" THEN "pending" ELSE jobs[j]
  OBVIOUS
<1>3. /\ DOMAIN jobs' = DOMAIN jobs \cup new
      /\ \A j \in DOMAIN jobs' : jobs'[j] = IF j \in DOMAIN jobs THEN old[j] ELSE "pending"
  <2> HIDE DEF old, new
  <2> QED BY <1>1, <1>2 DEF Upsert
<1> QED
  <2> HIDE DEF old
  <2> QED BY <1>2, <1>3

\* Planning a resumed run finds all its rows there.
LEMMA ReplanStep ==
  ASSUME PlanInv, Plan, ~Fresh
  PROVE  /\ DOMAIN jobs' = DOMAIN jobs
         /\ \A j \in DOMAIN jobs : jobs'[j] = IF jobs[j] # "failed" THEN jobs[j] ELSE "pending"
<1>1. Texts \X Planned \subseteq DOMAIN jobs
  BY DEF PlanInv
<1> QED
  BY <1>1, PlanStep

LEMMA NextType ==
  ASSUME TypeOK, TileInv, [Next]_vars
  PROVE  TypeOK'
<1>1. CASE Plan
  <2>1. Texts \X Planned \subseteq (DOMAIN Catalog) \X Slice
    BY PlannedTile DEF Texts, Tiling
  <2>2. DOMAIN jobs' \subseteq (DOMAIN Catalog) \X Slice /\ \A j \in DOMAIN jobs' : jobs'[j] \in States
    BY <1>1, <2>1, PlanStep DEF TypeOK, States
  <2>3. {j \in DOMAIN jobs' : jobs'[j] = "done"} = {j \in DOMAIN jobs : jobs[j] = "done"}
    BY <1>1, PlanStep
  <2> QED
    BY <1>1, <2>2, <2>3 DEF Plan, TypeOK, Catalog
<1>2. ASSUME NEW j \in DOMAIN jobs, Fetch(j) PROVE TypeOK'
  <2>1. /\ DOMAIN jobs' = DOMAIN jobs
        /\ \A i \in DOMAIN jobs : jobs'[i] = IF i = j THEN "done" ELSE jobs[i]
        /\ DOMAIN files' = DOMAIN files \cup {j}
    BY <1>2 DEF Fetch
  <2>2. {i \in DOMAIN jobs' : jobs'[i] = "done"} = {i \in DOMAIN jobs : jobs[i] = "done"} \cup {j}
    BY <2>1
  <2> QED
    BY <1>2, <2>1, <2>2 DEF Fetch, TypeOK, Catalog, States
<1>3. ASSUME NEW j \in DOMAIN jobs, Splits(j) PROVE TypeOK'
  <2>1. {<<j[1], sl>> : sl \in Parts(j)} \subseteq (DOMAIN Catalog) \X Slice
    BY <1>3, JobParts DEF TypeOK, Splits
  <2>2. DOMAIN jobs' \subseteq (DOMAIN Catalog) \X Slice /\ \A i \in DOMAIN jobs' : jobs'[i] \in States
    BY <1>3, <2>1 DEF Splits, TypeOK, States
  <2>3. {i \in DOMAIN jobs' : jobs'[i] = "done"} = {i \in DOMAIN jobs : jobs[i] = "done"}
    BY <1>3 DEF Splits
  <2> QED
    BY <1>3, <2>2, <2>3 DEF Splits, TypeOK, Catalog
<1>4. ASSUME NEW j \in DOMAIN jobs, Loses(j) PROVE TypeOK'
  BY <1>4 DEF Loses, TypeOK, Catalog, States
<1>5. CASE Finish
  <2>1. DOMAIN tables' \subseteq DOMAIN Catalog
    BY <1>5 DEF Finish
  <2>2. passed' \in BOOLEAN
    BY <1>5 DEF Finish
  <2> QED
    BY <1>5, <2>1, <2>2 DEF Finish, TypeOK, Catalog
<1>6. CASE Resume
  <2>1. DOMAIN tables' = {}
    BY <1>6 DEF Resume
  <2>2. resumes' \in 0..MaxResumes
    BY <1>6, BoundAssumption DEF Resume, TypeOK
  <2> QED
    BY <1>6, <2>1, <2>2 DEF Resume, TypeOK, Catalog
<1>7. CASE UNCHANGED vars
  BY <1>7 DEF vars, TypeOK, Catalog
<1> QED
  BY <1>1, <1>2, <1>3, <1>4, <1>5, <1>6, <1>7, JobSteps DEF Next

-----------------------------------------------------------------------------
(* The slices of a query tile the window.                                  *)

LEMMA RowsKept ==
  ASSUME TypeOK, TypeOK', TileInv, KeepsRows
  PROVE  TileInv'
<1> SUFFICES ASSUME NEW q \in DOMAIN Catalog', JobsOf(q)' # {}
             PROVE  Tiling(Rows(q)', Leaves(q)', From', Until')
  BY DEF TileInv
<1>1. From' = From /\ Until' = Until /\ Catalog' = Catalog
  BY DEF KeepsRows, From, Until, Catalog
<1>2. Rows(q)' = Rows(q) /\ Leaves(q)' = Leaves(q)
  <2>1. ASSUME NEW sl
        PROVE  /\ sl \in Rows(q)' <=> sl \in Rows(q)
               /\ sl \in Leaves(q)' <=> sl \in Leaves(q)
    <3>1. /\ <<q, sl>> \in DOMAIN jobs' <=> <<q, sl>> \in DOMAIN jobs
          /\ <<q, sl>> \in DOMAIN jobs =>
               (jobs'[<<q, sl>>] # "subdivided" <=> jobs[<<q, sl>>] # "subdivided")
      BY DEF KeepsRows
    <3>2. /\ sl \in Rows(q) <=> sl \in Slice /\ <<q, sl>> \in DOMAIN jobs
          /\ sl \in Leaves(q) <=> sl \in Slice /\ <<q, sl>> \in DOMAIN jobs /\ jobs[<<q, sl>>] # "subdivided"
      BY LedgerRows
    <3>3. /\ sl \in Rows(q)' <=> sl \in Slice /\ <<q, sl>> \in DOMAIN jobs'
          /\ sl \in Leaves(q)' <=> sl \in Slice /\ <<q, sl>> \in DOMAIN jobs' /\ jobs'[<<q, sl>>] # "subdivided"
      BY NextLedgerRows
    <3> QED
      BY <3>1, <3>2, <3>3
  <2>2. Rows(q)' = Rows(q)
    BY <2>1, Zenon
  <2>3. Leaves(q)' = Leaves(q)
    BY <2>1, Zenon
  <2> QED
    BY <2>2, <2>3
<1>3. JobsOf(q) # {}
  BY <1>2, LedgerRows, NextLedgerRows
<1> QED
  BY <1>1, <1>2, <1>3 DEF TileInv

LEMMA FirstPlan ==
  ASSUME TypeOK, TypeOK', PlanInv, Fresh, Plan
  PROVE  TileInv'
<1> SUFFICES ASSUME NEW q \in DOMAIN Catalog', JobsOf(q)' # {}
             PROVE  Tiling(Rows(q)', Leaves(q)', From', Until')
  BY DEF TileInv
<1>1. From' = From /\ Until' = Until
  BY DEF Plan, From, Until
<1>2. DOMAIN jobs' = Texts \X Planned /\ \A j \in DOMAIN jobs' : jobs'[j] = "pending"
  BY PlanStep DEF PlanInv
<1>3. Planned \subseteq Slice
  BY PlannedTile DEF Tiling
<1>4. q \in Texts /\ Planned # {}
  BY <1>2, NextLedgerRows
<1>5. Rows(q)' = Planned /\ Leaves(q)' = Planned
  <2>1. \A sl \in Slice : <<q, sl>> \in DOMAIN jobs' <=> sl \in Planned
    BY <1>2, <1>4
  <2>2. \A sl \in Slice : <<q, sl>> \in DOMAIN jobs' => jobs'[<<q, sl>>] # "subdivided"
    BY <1>2
  <2>3. /\ Rows(q)' = {sl \in Slice : <<q, sl>> \in DOMAIN jobs'}
        /\ Leaves(q)' = {sl \in Slice : <<q, sl>> \in DOMAIN jobs' /\ jobs'[<<q, sl>>] # "subdivided"}
    BY NextLedgerRows
  <2> QED
    BY <1>3, <2>1, <2>2, <2>3
<1> QED
  BY <1>1, <1>4, <1>5, PlannedTile

LEMMA SplitKeepsTiles ==
  ASSUME TypeOK, TypeOK', TileInv, NEW j \in DOMAIN jobs, Splits(j)
  PROVE  TileInv'
<1> SUFFICES ASSUME NEW q \in DOMAIN Catalog', JobsOf(q)' # {}
             PROVE  Tiling(Rows(q)', Leaves(q)', From', Until')
  BY DEF TileInv
<1>1. From' = From /\ Until' = Until /\ Catalog' = Catalog /\ From \in Nat /\ Until \in Nat
  BY RequestType DEF Splits, From, Until, Catalog
<1>2. /\ DOMAIN jobs' = DOMAIN jobs \cup {<<j[1], sl>> : sl \in Parts(j)}
      /\ \A i \in DOMAIN jobs' : jobs'[i] = IF i = j THEN "subdivided"
                                            ELSE IF i \in DOMAIN jobs THEN jobs[i] ELSE "pending"
  BY DEF Splits
<1>3. j = <<j[1], j[2]>> /\ j[2] \in Slice /\ j[2] \in Leaves(j[1])
  BY JobSlice DEF Splits
<1>4. /\ Tiling(Parts(j), Parts(j), j[2].start, j[2].end)
      /\ \A x \in Parts(j) : x.start < x.end /\ x # j[2]
      /\ Parts(j) \subseteq Slice
  BY JobParts DEF Splits
<1>5. CASE q # j[1]
  <2>1. \A sl : <<q, sl>> \in DOMAIN jobs' <=> <<q, sl>> \in DOMAIN jobs
    BY <1>2, <1>5
  <2>2. \A sl : <<q, sl>> \in DOMAIN jobs => jobs'[<<q, sl>>] = jobs[<<q, sl>>]
    BY <1>2, <1>3, <1>5
  <2>3. Rows(q)' = Rows(q) /\ Leaves(q)' = Leaves(q)
    <3>1. /\ Rows(q)' = {sl \in Slice : <<q, sl>> \in DOMAIN jobs'}
          /\ Leaves(q)' = {sl \in Slice : <<q, sl>> \in DOMAIN jobs' /\ jobs'[<<q, sl>>] # "subdivided"}
      BY NextLedgerRows
    <3>2. /\ Rows(q) = {sl \in Slice : <<q, sl>> \in DOMAIN jobs}
          /\ Leaves(q) = {sl \in Slice : <<q, sl>> \in DOMAIN jobs /\ jobs[<<q, sl>>] # "subdivided"}
      BY LedgerRows
    <3> QED
      BY <2>1, <2>2, <3>1, <3>2
  <2>4. JobsOf(q) # {}
    BY <2>3, LedgerRows, NextLedgerRows
  <2> QED
    BY <1>1, <2>3, <2>4 DEF TileInv
<1>6. CASE q = j[1]
  <2>1. Tiling(Rows(q), Leaves(q), From, Until)
    BY <1>6, JobSlice
  <2>2. /\ Tiling(Rows(q) \cup Parts(j), (Leaves(q) \ {j[2]}) \cup Parts(j), From, Until)
        /\ Parts(j) \cap Rows(q) = {}
    <3>1. From \in Nat /\ Until \in Nat /\ j[2] \in Leaves(q)
      BY <1>1, <1>3, <1>6
    <3>2. Cuts(Parts(j), j[2])
      BY <1>4 DEF Cuts
    <3> QED
      BY <2>1, <3>1, <3>2, SplitTiles
  <2>3. \A sl : <<q, sl>> \in DOMAIN jobs' <=> <<q, sl>> \in DOMAIN jobs \/ sl \in Parts(j)
    BY <1>2, <1>6
  <2> DEFINE rows == {sl \in Slice : <<q, sl>> \in DOMAIN jobs}
             leaves == {sl \in Slice : <<q, sl>> \in DOMAIN jobs /\ jobs[<<q, sl>>] # "subdivided"}
  <2>8. Rows(q) = rows /\ Leaves(q) = leaves
    BY LedgerRows
  <2>9. /\ Rows(q)' = {sl \in Slice : <<q, sl>> \in DOMAIN jobs'}
        /\ Leaves(q)' = {sl \in Slice : <<q, sl>> \in DOMAIN jobs' /\ jobs'[<<q, sl>>] # "subdivided"}
    BY NextLedgerRows
  <2>4. Rows(q)' = Rows(q) \cup Parts(j)
    BY <1>4, <2>3, <2>8, <2>9
  <2>5. \A sl \in Slice : sl \in Parts(j) => <<q, sl>> \notin DOMAIN jobs
    BY <2>2, <2>8
  <2>6. \A sl \in Slice : <<q, sl>> \in DOMAIN jobs' =>
          (jobs'[<<q, sl>>] # "subdivided" <=>
             sl \in Parts(j) \/ (sl # j[2] /\ jobs[<<q, sl>>] # "subdivided"))
    BY <1>2, <1>3, <1>4, <1>6, <2>3, <2>5
  <2>7. Leaves(q)' = (Leaves(q) \ {j[2]}) \cup Parts(j)
    BY <1>4, <2>3, <2>5, <2>6, <2>8, <2>9
  <2> QED
    BY <1>1, <2>2, <2>4, <2>7
<1> QED
  BY <1>5, <1>6

LEMMA NextTile ==
  ASSUME TypeOK, TypeOK', TileInv, PlanInv, [Next]_vars
  PROVE  TileInv'
<1>1. CASE Plan
  <2>1. CASE Fresh
    BY <1>1, <2>1, FirstPlan
  <2>2. CASE ~Fresh
    <3>1. KeepsRows
      BY <1>1, <2>2, ReplanStep DEF Plan, KeepsRows
    <3> QED
      BY <3>1, RowsKept
  <2> QED
    BY <2>1, <2>2
<1>2. ASSUME NEW j \in DOMAIN jobs, Fetch(j) \/ Loses(j) PROVE TileInv'
  <2>1. KeepsRows
    BY <1>2 DEF Fetch, Loses, KeepsRows
  <2> QED
    BY <2>1, RowsKept
<1>3. ASSUME NEW j \in DOMAIN jobs, Splits(j) PROVE TileInv'
  BY <1>3, SplitKeepsTiles
<1>4. CASE Finish \/ Resume \/ UNCHANGED vars
  <2>1. KeepsRows
    BY <1>4 DEF Finish, Resume, vars, KeepsRows
  <2> QED
    BY <2>1, RowsKept
<1> QED
  BY <1>1, <1>2, <1>3, <1>4, JobSteps DEF Next

-----------------------------------------------------------------------------
(* What is planned, answered and judged.                                   *)

LEMMA NextPlan ==
  ASSUME TypeOK, TileInv, PlanInv, [Next]_vars
  PROVE  PlanInv'
<1>0. request' = request /\ Texts' = Texts /\ Planned' = Planned
  <2>1. request' = request
    BY DEF Next, Plan, Fetch, TooSlow, GiveUp, Finish, Resume, vars
  <2> QED
    BY <2>1 DEF Texts, Planned, Catalog
<1>1. CASE Plan
  <2>1. DOMAIN jobs' = DOMAIN jobs \cup (Texts \X Planned) /\ phase' = "run"
    BY <1>1, PlanStep DEF Plan
  <2> QED
    BY <1>0, <2>1 DEF PlanInv, Fresh
<1>2. ASSUME NEW j \in DOMAIN jobs, Fetch(j) \/ Loses(j) PROVE PlanInv'
  BY <1>0, <1>2 DEF Fetch, Loses, PlanInv, Fresh
<1>3. ASSUME NEW j \in DOMAIN jobs, Splits(j) PROVE PlanInv'
  <2>1. /\ DOMAIN jobs' = DOMAIN jobs \cup {<<j[1], sl>> : sl \in Parts(j)}
        /\ phase = "run" /\ phase' = "run"
    BY <1>3 DEF Splits
  <2>2. j[1] \in Texts
    BY DEF PlanInv
  <2> QED
    BY <1>0, <2>1, <2>2 DEF PlanInv, Fresh
<1>4. CASE Finish \/ UNCHANGED vars
  BY <1>0, <1>4 DEF Finish, vars, PlanInv, Fresh
<1>5. CASE Resume
  <2>1. resumes \in Nat /\ resumes' = resumes + 1 /\ jobs' = jobs /\ phase = "over"
    BY <1>5, BoundAssumption DEF Resume, TypeOK
  <2> QED
    BY <1>0, <2>1 DEF PlanInv, Fresh
<1> QED
  BY <1>1, <1>2, <1>3, <1>4, <1>5, JobSteps DEF Next

LEMMA NextResult ==
  ASSUME TypeOK, PlanInv, ResultInv, [Next]_vars
  PROVE  ResultInv'
<1>0. request' = request /\ \A sl : Answer(sl)' = Answer(sl)
  <2>1. request' = request
    BY DEF Next, Plan, Fetch, TooSlow, GiveUp, Finish, Resume, vars
  <2> QED
    BY <2>1 DEF Answer, EventsIn
<1>1. CASE Plan
  <2>1. files' = files /\ \A j \in DOMAIN jobs' : jobs'[j] = "done" => j \in DOMAIN jobs /\ jobs[j] = "done"
    BY <1>1, PlanStep DEF Plan
  <2> QED
    BY <1>0, <2>1 DEF ResultInv
<1>2. ASSUME NEW j \in DOMAIN jobs, Fetch(j) PROVE ResultInv'
  <2>1. /\ DOMAIN jobs' = DOMAIN jobs
        /\ \A i \in DOMAIN jobs : i # j => jobs'[i] = jobs[i]
        /\ files'[j] = Answer(j[2])
        /\ \A i \in DOMAIN files : i # j => files'[i] = files[i]
    BY <1>2 DEF Fetch
  <2>2. \A i \in DOMAIN jobs : jobs[i] = "done" => i \in DOMAIN files
    BY DEF TypeOK
  <2> QED
    BY <1>0, <2>1, <2>2 DEF ResultInv
<1>3. ASSUME NEW j \in DOMAIN jobs, Splits(j) \/ Loses(j) PROVE ResultInv'
  <2>1. files' = files /\ \A i \in DOMAIN jobs' : jobs'[i] = "done" => i \in DOMAIN jobs /\ jobs[i] = "done"
    BY <1>3 DEF Splits, Loses
  <2> QED
    BY <1>0, <2>1 DEF ResultInv
<1>4. CASE Finish \/ Resume \/ UNCHANGED vars
  BY <1>0, <1>4 DEF Finish, Resume, vars, ResultInv
<1> QED
  BY <1>1, <1>2, <1>3, <1>4, JobSteps DEF Next

LEMMA NextVerdict ==
  ASSUME TypeOK, VerdictInv, [Next]_vars
  PROVE  VerdictInv'
<1>1. CASE Finish
  <2>1. /\ jobs' = jobs /\ files' = files /\ request' = request /\ phase' = "over"
        /\ tables' = [q \in Ran |-> Table(q)]
    BY <1>1 DEF Finish, Ran
  <2>2. Ran' = Ran /\ \A q : Table(q)' = Table(q)
    BY <2>1 DEF Ran, Table, JobsOf, InState, Catalog
  <2>3. tables' = [q \in Ran' |-> Table(q)']
    BY <2>1, <2>2
  <2>4. ASSUME passed' = TRUE, NEW j \in DOMAIN jobs PROVE jobs[j] \in {"done", "subdivided"}
    <3>1. j[1] \in DOMAIN Catalog /\ j \in JobsOf(j[1]) /\ jobs[j] \in States
      BY DEF TypeOK, JobsOf
    <3>2. Status(j[1]) # "skipped"
      BY <3>1 DEF Status
    <3>3. Status(j[1]) = "pass"
      BY <1>1, <2>4, <3>1, <3>2 DEF Finish
    <3>4. /\ InState(JobsOf(j[1]), "failed") = {} /\ InState(JobsOf(j[1]), "permanent") = {}
          /\ InState(JobsOf(j[1]), "pending") = {}
      BY <3>1, <3>3 DEF Status
    <3> QED
      BY <3>1, <3>4 DEF InState, States
  <2> QED
    BY <2>1, <2>3, <2>4 DEF VerdictInv
<1>2. CASE Resume
  BY <1>2 DEF Resume, VerdictInv
<1>3. CASE Plan \/ \E j \in DOMAIN jobs : Fetch(j) \/ TooSlow(j) \/ GiveUp(j)
  <2>1. phase # "over" /\ phase' # "over" /\ tables' = tables /\ passed' = passed
    BY <1>3 DEF Plan, Fetch, TooSlow, GiveUp
  <2> QED
    BY <2>1 DEF VerdictInv
<1>4. CASE UNCHANGED vars
  <2>1. Ran' = Ran /\ \A q : Table(q)' = Table(q)
    BY <1>4 DEF vars, Ran, Table, JobsOf, InState, Catalog
  <2> QED
    BY <1>4, <2>1 DEF vars, VerdictInv
<1> QED
  BY <1>1, <1>2, <1>3, <1>4 DEF Next

\* What holds in every reachable state.
LedgerInv == TypeOK /\ TileInv /\ PlanInv /\ ResultInv /\ VerdictInv

LEMMA LedgerInvariant == Spec => []LedgerInv
<1>1. Init => LedgerInv
  <2> SUFFICES ASSUME Init PROVE LedgerInv
    OBVIOUS
  <2>1. DOMAIN jobs = {} /\ DOMAIN files = {} /\ DOMAIN tables = {}
    BY DEF Init
  <2>2. TypeOK
    <3>1. request \in Requests /\ phase = "new" /\ passed = FALSE /\ resumes \in 0..MaxResumes
      BY BoundAssumption DEF Init
    <3> QED
      BY <2>1, <3>1 DEF TypeOK
  <2>3. TileInv /\ PlanInv /\ ResultInv
    BY <2>1 DEF Init, TileInv, PlanInv, ResultInv, Fresh, JobsOf
  <2>4. VerdictInv
    BY DEF Init, VerdictInv
  <2> QED
    BY <2>2, <2>3, <2>4 DEF LedgerInv
<1>2. LedgerInv /\ [Next]_vars => LedgerInv'
  BY NextType, NextTile, NextPlan, NextResult, NextVerdict DEF LedgerInv
<1> QED
  BY <1>1, <1>2, PTL DEF Spec

-----------------------------------------------------------------------------
(* Theorems about the ledger.                                              *)

\* Every reachable state is well-formed: the rows are slices of queries of the
\* catalog, and there is a result file exactly for what is done.
THEOREM TypeCorrect == Spec => []TypeOK
<1>1. LedgerInv => TypeOK
  BY DEF LedgerInv
<1> QED
  BY <1>1, LedgerInvariant, PTL

\* The rows of a query that are not subdivided tile the window: every second
\* is in exactly one, through clipping, rounding, any splits and any replans.
THEOREM TilingIsExact == Spec => []SlicesTile
<1>1. LedgerInv => SlicesTile
  <2> SUFFICES ASSUME LedgerInv, NEW q \in DOMAIN Catalog, JobsOf(q) # {}
               PROVE  /\ \A t \in From..(Until - 1) :
                           Cardinality({sl \in Leaves(q) : sl.start <= t /\ t < sl.end}) = 1
                      /\ \A sl \in Leaves(q) : From <= sl.start /\ sl.start <= sl.end /\ sl.end <= Until
    BY DEF SlicesTile
  <2>1. Tiling(Rows(q), Leaves(q), From, Until) /\ From \in Nat /\ Until \in Nat
    BY RequestType DEF LedgerInv, TileInv
  <2>2. ASSUME NEW t \in From..(Until - 1)
        PROVE  Cardinality({sl \in Leaves(q) : sl.start <= t /\ t < sl.end}) = 1
    <3>1. PICK l \in Leaves(q) : In(t, l)
      BY <2>1 DEF Tiling
    <3>2. t \in Nat /\ Leaves(q) \subseteq Slice
      BY <2>1 DEF Tiling
    <3>3. \A n \in Leaves(q) : In(t, n) => n = l
      BY <2>1, <3>1, <3>2 DEF Tiling, Apart, In, Slice
    <3>4. {sl \in Leaves(q) : sl.start <= t /\ t < sl.end} = {l}
      BY <3>1, <3>3 DEF In
    <3> QED
      BY <3>4, FS_Singleton
  <2> QED
    BY <2>1, <2>2 DEF Tiling
<1> QED
  BY <1>1, LedgerInvariant, PTL

\* No query about a subject or a pivot value is ever run over the whole tenant.
THEOREM ScopeIsKept == Spec => []NeverTenantWide
<1>1. LedgerInv => NeverTenantWide
  <2> SUFFICES ASSUME LedgerInv, NEW q \in DOMAIN Catalog, JobsOf(q) # {},
                      EffectiveScope(Catalog[q]) \in {"subject", "pivot"}
               PROVE  Render(Catalog[q], request.vars) \cap ScopeVars(EffectiveScope(Catalog[q])) # {}
    BY DEF NeverTenantWide
  <2>1. q \in Texts
    BY DEF LedgerInv, PlanInv, JobsOf
  <2>2. Gate(Catalog[q], request.vars)
    BY <2>1 DEF Texts, Runnable
  <2> QED
    BY <2>2 DEF Gate, Render, Referenced
<1> QED
  BY <1>1, LedgerInvariant, PTL

\* Whatever has rows was counted by the preview.
THEOREM PreviewIsSafe == Spec => []PreviewIsBound
<1>1. LedgerInv => PreviewIsBound
  <2> SUFFICES ASSUME LedgerInv, NEW q \in DOMAIN Catalog, JobsOf(q) # {}
               PROVE  Previewed(Catalog[q], request.vars)
    BY DEF PreviewIsBound
  <2>1. q \in Texts
    BY DEF LedgerInv, PlanInv, JobsOf
  <2> QED
    BY <2>1 DEF Texts, Runnable, Provided, Previewed
<1> QED
  BY <1>1, LedgerInvariant, PTL

\* Planning a resumed run adds no row, takes none away and leaves what is done,
\* rejected or split as it is, although the slices are computed anew.
THEOREM ReplanIsIdempotent == Spec => ReplanAddsNothing
<1>1. LedgerInv /\ [Next]_vars =>
        [phase = "new" /\ resumes > 0 =>
           /\ DOMAIN jobs' = DOMAIN jobs
           /\ \A j \in DOMAIN jobs : jobs[j] # "failed" => jobs'[j] = jobs[j]]_vars
  <2> SUFFICES ASSUME LedgerInv, Next, phase = "new", resumes > 0
               PROVE  /\ DOMAIN jobs' = DOMAIN jobs
                      /\ \A j \in DOMAIN jobs : jobs[j] # "failed" => jobs'[j] = jobs[j]
    OBVIOUS
  <2>1. Plan
    BY DEF Next, Fetch, TooSlow, GiveUp, Finish, Resume
  <2>2. ~Fresh
    BY DEF Fresh
  <2> QED
    BY <2>1, <2>2, ReplanStep DEF LedgerInv
<1> QED
  BY <1>1, LedgerInvariant, PTL DEF Spec, ReplanAddsNothing

-----------------------------------------------------------------------------
(* Merging the answers over slices that share out the events.              *)

Keys(events) == {e.key : e \in events}
Group(events, key) == {e \in events : e.key = key}
Values(events, key) == {e.value : e \in Group(events, key)} \ {Missing}

\* Every event of all is in exactly one of the parts.
Partition(all, parts, eventsOf) ==
  /\ IsFiniteSet(all)
  /\ \A e \in all : e.value \in Int \cup {Missing}
  /\ \A s \in parts : eventsOf[s] \subseteq all
  /\ \A e \in all : \E s \in parts : e \in eventsOf[s]
  /\ \A r, s \in parts : r # s => eventsOf[r] \cap eventsOf[s] = {}

\* The parts with events of a group.
With(parts, eventsOf, key) == {s \in parts : Group(eventsOf[s], key) # {}}

LEMMA Aggregates ==
  ASSUME NEW events
  PROVE  /\ DOMAIN Aggregate(events) = Keys(events)
         /\ \A key : key \in DOMAIN Aggregate(events) <=> Group(events, key) # {}
         /\ \A key \in DOMAIN Aggregate(events) :
              /\ Aggregate(events)[key].sum = Cardinality(Group(events, key))
              /\ Aggregate(events)[key].distinct = Cardinality(Values(events, key))
              /\ Aggregate(events)[key].min = Extreme("min", Values(events, key))
              /\ Aggregate(events)[key].max = Extreme("max", Values(events, key))
<1> DEFINE row(key) == [sum |-> Cardinality(Group(events, key)),
                        distinct |-> Cardinality(Values(events, key)),
                        min |-> Extreme("min", Values(events, key)),
                        max |-> Extreme("max", Values(events, key))]
<1>1. Aggregate(events) = [key \in Keys(events) |-> row(key)]
  BY DEF Aggregate, Keys, Group, Values
<1>2. \A key : key \in Keys(events) <=> Group(events, key) # {}
  BY DEF Group, Keys
<1> QED
  BY <1>1, <1>2

\* Values of events that are finitely many are, too.
LEMMA ValuesFinite ==
  ASSUME NEW events, IsFiniteSet(events), NEW key
  PROVE  IsFiniteSet(Group(events, key)) /\ IsFiniteSet(Values(events, key))
<1> DEFINE T == {e.value : e \in Group(events, key)}
           f == [e \in Group(events, key) |-> e.value]
<1>1. IsFiniteSet(Group(events, key))
  BY FS_Subset DEF Group
<1>2. f \in Surjection(Group(events, key), T)
  BY DEF Surjection
<1>3. IsFiniteSet(T)
  <2> HIDE DEF T, f
  <2> QED BY <1>1, <1>2, FS_Surjection
<1>4. Values(events, key) \subseteq T
  BY DEF Values
<1> QED
  <2> HIDE DEF T
  <2> QED BY <1>1, <1>3, <1>4, FS_Subset

\* Finitely many events are in finitely many parts.
LEMMA PartsFinite ==
  ASSUME NEW all, NEW parts, NEW eventsOf, Partition(all, parts, eventsOf),
         NEW some \in SUBSET parts, \A s \in some : eventsOf[s] # {}
  PROVE  IsFiniteSet(some)
<1> DEFINE f == [s \in some |-> CHOOSE e \in eventsOf[s] : TRUE]
<1>1. \A s \in some : f[s] \in eventsOf[s] /\ f[s] \in all
  BY DEF Partition
<1>2. \A r, s \in some : f[r] = f[s] => r = s
  <2> HIDE DEF f
  <2> QED BY <1>1 DEF Partition
<1>3. f \in Injection(some, all)
  BY <1>1, <1>2 DEF Injection, IsInjective
<1> QED
  <2> HIDE DEF f
  <2> QED BY <1>3, FS_Injection DEF Partition

\* The groups of the parts make up the group.
LEMMA GroupsOfParts ==
  ASSUME NEW all, NEW parts, NEW eventsOf, Partition(all, parts, eventsOf), NEW key
  PROVE  /\ IsFiniteSet(With(parts, eventsOf, key))
         /\ \A s \in parts : IsFiniteSet(eventsOf[s]) /\ IsFiniteSet(Group(eventsOf[s], key))
                             /\ IsFiniteSet(Values(eventsOf[s], key))
         /\ UNION {Group(eventsOf[s], key) : s \in With(parts, eventsOf, key)} = Group(all, key)
         /\ UNION {Values(eventsOf[s], key) : s \in With(parts, eventsOf, key)} = Values(all, key)
         /\ \A r, s \in parts : r # s => Group(eventsOf[r], key) \cap Group(eventsOf[s], key) = {}
<1>1. IsFiniteSet(With(parts, eventsOf, key))
  <2>1. \A s \in With(parts, eventsOf, key) : eventsOf[s] # {}
    BY DEF With, Group
  <2> QED
    BY <2>1, PartsFinite DEF With
<1>2. \A s \in parts : IsFiniteSet(eventsOf[s])
  BY FS_Subset DEF Partition
<1>3. UNION {Group(eventsOf[s], key) : s \in With(parts, eventsOf, key)} = Group(all, key)
  <2>1. \A s \in parts : \A e : e \in Group(eventsOf[s], key) <=> e \in eventsOf[s] /\ e.key = key
    BY DEF Group
  <2>2. \A e : e \in Group(all, key) <=> e \in all /\ e.key = key
    BY DEF Group
  <2>3. ASSUME NEW e \in Group(all, key)
        PROVE  \E s \in With(parts, eventsOf, key) : e \in Group(eventsOf[s], key)
    <3>1. PICK s \in parts : e \in eventsOf[s]
      BY <2>2 DEF Partition
    <3>2. e \in Group(eventsOf[s], key)
      BY <2>1, <2>2, <3>1
    <3> QED
      BY <3>2 DEF With
  <2>4. \A s \in With(parts, eventsOf, key) : Group(eventsOf[s], key) \subseteq Group(all, key)
    BY <2>1, <2>2 DEF Partition, With
  <2> QED
    BY <2>3, <2>4
<1>4. UNION {Values(eventsOf[s], key) : s \in With(parts, eventsOf, key)} = Values(all, key)
  <2>1. \A v : v \in Values(all, key) <=> \E e \in Group(all, key) : v = e.value /\ v # Missing
    BY DEF Values
  <2>2. \A s, v : v \in Values(eventsOf[s], key) <=>
                    \E e \in Group(eventsOf[s], key) : v = e.value /\ v # Missing
    BY DEF Values
  <2>3. ASSUME NEW v, v \in Values(all, key)
        PROVE  \E s \in With(parts, eventsOf, key) : v \in Values(eventsOf[s], key)
    <3>1. PICK e \in Group(all, key) : v = e.value /\ v # Missing
      BY <2>1, <2>3
    <3>2. PICK s \in With(parts, eventsOf, key) : e \in Group(eventsOf[s], key)
      BY <1>3
    <3> QED
      BY <2>2, <3>1, <3>2
  <2>4. ASSUME NEW s \in With(parts, eventsOf, key), NEW v \in Values(eventsOf[s], key)
        PROVE  v \in Values(all, key)
    <3>1. PICK e \in Group(eventsOf[s], key) : v = e.value /\ v # Missing
      BY <2>2
    <3>2. e \in Group(all, key)
      BY <1>3
    <3> QED
      BY <2>1, <3>1, <3>2
  <2> QED
    BY <2>3, <2>4
<1>5. \A r, s \in parts : r # s => Group(eventsOf[r], key) \cap Group(eventsOf[s], key) = {}
  BY DEF Partition, Group
<1> QED
  BY <1>1, <1>2, <1>3, <1>4, <1>5, ValuesFinite

LEMMA NumberOfCount ==
  ASSUME NEW n \in Int
  PROVE  ToNumber(n) = n
BY MissingAssumption DEF ToNumber

MergedMax(results, rows, key) == Max({ToNumber(results[s][key].max) : s \in rows})

\* The merged table has the groups of the events; its rows reduce those of the
\* parts with events of the group.
LEMMA MergedKeys ==
  ASSUME NEW all, NEW parts, NEW eventsOf, Partition(all, parts, eventsOf),
         NEW results, \A s \in parts : results[s] = Aggregate(eventsOf[s])
  PROVE  DOMAIN MergeAggregate(results, parts) = Keys(all)
<1>1. \A s \in parts : DOMAIN results[s] = Keys(eventsOf[s])
  BY Aggregates
<1>2. KeysOf({results[s] : s \in parts}) = Keys(all)
  BY <1>1 DEF KeysOf, Partition, Keys
<1> QED
  BY <1>2 DEF MergeAggregate

LEMMA MergedRow ==
  ASSUME NEW all, NEW parts, NEW eventsOf, Partition(all, parts, eventsOf),
         NEW results, \A s \in parts : results[s] = Aggregate(eventsOf[s]),
         NEW key \in Keys(all)
  PROVE  LET row  == MergeAggregate(results, parts)[key]
             rows == With(parts, eventsOf, key)
         IN  /\ row.sum = MergedSum(results, rows, key)
             /\ row.min = MergedMin(results, rows, key)
             /\ row.max = MergedMax(results, rows, key)
             /\ row.distinct = MergedDistinct(results, rows, key)
<1>1. key \in DOMAIN MergeAggregate(results, parts)
  BY MergedKeys
<1>2. RowsOf(results, parts, key) = With(parts, eventsOf, key)
  <2>1. \A s \in parts : key \in DOMAIN results[s] <=> Group(eventsOf[s], key) # {}
    BY Aggregates
  <2> QED
    BY <2>1 DEF RowsOf, With
<1> QED
  BY <1>1, <1>2 DEF MergeAggregate, MergedMax

\* A sum of counts over slices is the count over the window.
LEMMA SumIsExact ==
  ASSUME NEW all, NEW parts, NEW eventsOf, Partition(all, parts, eventsOf),
         NEW results, \A s \in parts : results[s] = Aggregate(eventsOf[s]),
         NEW key \in Keys(all)
  PROVE  MergedSum(results, With(parts, eventsOf, key), key) = Aggregate(all)[key].sum
<1> DEFINE rows == With(parts, eventsOf, key)
           groups == [s \in rows |-> Group(eventsOf[s], key)]
           sizes == [s \in rows |-> Cardinality(Group(eventsOf[s], key))]
<1>1. /\ IsFiniteSet(rows) /\ rows \subseteq parts
      /\ \A s \in parts : IsFiniteSet(Group(eventsOf[s], key))
      /\ UNION {Group(eventsOf[s], key) : s \in rows} = Group(all, key)
      /\ \A r, s \in parts : r # s => Group(eventsOf[r], key) \cap Group(eventsOf[s], key) = {}
  <2>1. rows \subseteq parts
    BY DEF With
  <2> QED
    BY <2>1, GroupsOfParts
<1>2. ASSUME NEW s \in rows PROVE ToNumber(results[s][key].sum) = sizes[s] /\ sizes[s] \in Nat
  <2>1. key \in DOMAIN Aggregate(eventsOf[s])
    BY Aggregates DEF With
  <2>2. results[s][key].sum = Cardinality(Group(eventsOf[s], key))
    <3>1. results[s] = Aggregate(eventsOf[s])
      BY <1>1
    <3>2. Aggregate(eventsOf[s])[key].sum = Cardinality(Group(eventsOf[s], key))
      BY <2>1, Aggregates
    <3> QED
      BY <3>1, <3>2
  <2>3. Cardinality(Group(eventsOf[s], key)) \in Nat
    BY <1>1, FS_CardinalityType
  <2> QED
    BY <2>2, <2>3, NumberOfCount
<1>3. sizes \in [rows -> Nat] /\ \A s \in rows : IsFiniteSet(groups[s]) /\ sizes[s] = Cardinality(groups[s])
  BY <1>1, <1>2
<1>4. MergedSum(results, rows, key) = SumFunctionOnSet(sizes, rows)
  <2>1. [s \in rows |-> ToNumber(results[s][key].sum)] = sizes /\ DOMAIN sizes = rows
    BY <1>2
  <2> HIDE DEF sizes, rows
  <2> QED BY <2>1 DEF MergedSum, SumFunction
<1>5. AllOf(groups, rows) = Group(all, key)
  <2>1. \A s \in rows : groups[s] = Group(eventsOf[s], key)
    OBVIOUS
  <2> HIDE DEF groups, rows
  <2> QED BY <1>1, <2>1 DEF AllOf
<1>6. Disjoint(groups, rows)
  BY <1>1 DEF Disjoint
<1>7. SumFunctionOnSet(sizes, rows) = Cardinality(Group(all, key))
  <2> HIDE DEF sizes, rows, groups
  <2> QED BY <1>1, <1>3, <1>5, <1>6, SumOfSizes
<1> QED
  <2> HIDE DEF sizes
  <2> QED BY <1>4, <1>7, Aggregates

\* A sum of distinct counts is never too small, and right for a single slice.
LEMMA DistinctBounds ==
  ASSUME NEW all, NEW parts, NEW eventsOf, Partition(all, parts, eventsOf),
         NEW results, \A s \in parts : results[s] = Aggregate(eventsOf[s]),
         NEW key \in Keys(all)
  PROVE  /\ MergedDistinct(results, With(parts, eventsOf, key), key) >= Aggregate(all)[key].distinct
         /\ ~Approximate(results, parts) =>
              MergedDistinct(results, With(parts, eventsOf, key), key) = Aggregate(all)[key].distinct
<1> DEFINE rows == With(parts, eventsOf, key)
           values == [s \in rows |-> Values(eventsOf[s], key)]
           sizes == [s \in rows |-> Cardinality(Values(eventsOf[s], key))]
<1>1. /\ IsFiniteSet(rows) /\ rows \subseteq parts
      /\ \A s \in parts : IsFiniteSet(Values(eventsOf[s], key))
      /\ UNION {Values(eventsOf[s], key) : s \in rows} = Values(all, key)
  <2>1. rows \subseteq parts
    BY DEF With
  <2> QED
    BY <2>1, GroupsOfParts
<1>2. ASSUME NEW s \in rows PROVE ToNumber(results[s][key].distinct) = sizes[s] /\ sizes[s] \in Nat
  <2>1. key \in DOMAIN Aggregate(eventsOf[s])
    BY Aggregates DEF With
  <2>2. results[s][key].distinct = Cardinality(Values(eventsOf[s], key))
    <3>1. results[s] = Aggregate(eventsOf[s])
      BY <1>1
    <3>2. Aggregate(eventsOf[s])[key].distinct = Cardinality(Values(eventsOf[s], key))
      BY <2>1, Aggregates
    <3> QED
      BY <3>1, <3>2
  <2>3. Cardinality(Values(eventsOf[s], key)) \in Nat
    BY <1>1, FS_CardinalityType
  <2> QED
    BY <2>2, <2>3, NumberOfCount
<1>3. sizes \in [rows -> Nat] /\ \A s \in rows : IsFiniteSet(values[s]) /\ sizes[s] = Cardinality(values[s])
  BY <1>1, <1>2
<1>4. MergedDistinct(results, rows, key) = SumFunctionOnSet(sizes, rows)
  <2>1. [s \in rows |-> ToNumber(results[s][key].distinct)] = sizes /\ DOMAIN sizes = rows
    BY <1>2
  <2> HIDE DEF sizes, rows
  <2> QED BY <2>1 DEF MergedDistinct, SumFunction
<1>5. AllOf(values, rows) = Values(all, key)
  <2>1. \A s \in rows : values[s] = Values(eventsOf[s], key)
    OBVIOUS
  <2> HIDE DEF values, rows
  <2> QED BY <1>1, <2>1 DEF AllOf
<1>6. Cardinality(Values(all, key)) <= SumFunctionOnSet(sizes, rows)
  <2> HIDE DEF sizes, rows, values
  <2> QED BY <1>1, <1>3, <1>5, SumOfSizes
<1>7. Aggregate(all)[key].distinct = Cardinality(Values(all, key))
  BY Aggregates
<1>8. ASSUME ~Approximate(results, parts)
      PROVE  SumFunctionOnSet(sizes, rows) = Cardinality(Values(all, key))
  <2> DEFINE some == {s \in parts : DOMAIN results[s] # {}}
  <2>1. ASSUME NEW s \in some PROVE eventsOf[s] # {}
    <3>1. DOMAIN Aggregate(eventsOf[s]) = Keys(eventsOf[s])
      BY Aggregates
    <3> QED
      BY <3>1 DEF Keys
  <2>2. IsFiniteSet(some)
    <3> HIDE DEF some
    <3>1. some \in SUBSET parts
      BY DEF some
    <3> QED
      BY <2>1, <3>1, PartsFinite
  <2>3. rows \subseteq some
    BY <1>1, Aggregates DEF With
  <2>4. rows # {}
    <3>1. Group(all, key) # {}
      BY DEF Group, Keys
    <3>2. UNION {Group(eventsOf[s], key) : s \in rows} = Group(all, key)
      BY GroupsOfParts
    <3> QED
      BY <3>1, <3>2
  <2>5. ~(Cardinality(some) > 1)
    BY <1>8 DEF Approximate
  <2>6. PICK s \in rows : rows = {s}
    <3>1. PICK s \in rows : TRUE
      BY <2>4
    <3>2. ASSUME NEW r \in rows, r # s PROVE FALSE
      <4>1. {r, s} \in SUBSET some
        BY <2>3
      <4>2. IsFiniteSet({r, s}) /\ Cardinality({r, s}) = 2
        <5>1. IsFiniteSet({s}) /\ Cardinality({s}) = 1 /\ {s} \cup {r} = {r, s} /\ r \notin {s}
          BY <3>2, FS_Singleton
        <5>2. /\ IsFiniteSet({s} \cup {r})
              /\ Cardinality({s} \cup {r}) = IF r \in {s} THEN Cardinality({s}) ELSE Cardinality({s}) + 1
          <6> HIDE DEF rows
          <6> QED BY <5>1, FS_AddElement
        <5> QED
          BY <5>1, <5>2
      <4>3. Cardinality({r, s}) <= Cardinality(some) /\ Cardinality(some) \in Nat
        <5> HIDE DEF some
        <5> QED BY <2>2, <4>1, FS_Subset, FS_CardinalityType
      <4> QED
        <5> HIDE DEF some
        <5> QED BY <2>5, <4>2, <4>3
    <3> QED
      BY <3>1, <3>2
  <2>7. SumFunctionOnSet(sizes, rows) = sizes[s]
    <3>1. sizes \in [{s} -> Nat]
      BY <1>3, <2>6
    <3> HIDE DEF sizes, rows
    <3> QED BY <2>6, <3>1, SumOfOne
  <2>8. sizes[s] = Cardinality(Values(eventsOf[s], key))
    OBVIOUS
  <2>9. Values(all, key) = Values(eventsOf[s], key)
    BY <1>1, <2>6
  <2> QED
    <3> HIDE DEF sizes, rows
    <3> QED BY <2>7, <2>8, <2>9
<1>9. SumFunctionOnSet(sizes, rows) >= Cardinality(Values(all, key))
  <2>1. Cardinality(Values(all, key)) \in Nat
    BY ValuesFinite, FS_CardinalityType DEF Partition
  <2> HIDE DEF sizes, rows
  <2> QED BY <1>6, <2>1
<1> QED
  <2> HIDE DEF sizes
  <2> QED BY <1>4, <1>7, <1>8, <1>9

\* A least and a greatest value.
LEMMA ExtremeIs ==
  ASSUME NEW values \in SUBSET Int, IsFiniteSet(values), values # {}
  PROVE  /\ Extreme("min", values) \in values /\ \A w \in values : Extreme("min", values) <= w
         /\ Extreme("max", values) \in values /\ \A w \in values : Extreme("max", values) >= w
<1>1. \E v \in values : \A w \in values : v <= w
  BY MinExists
<1>2. \E v \in values : \A w \in values : v >= w
  BY MaxExists
<1>3. Extreme("min", values) = CHOOSE v \in values : \A w \in values : v <= w
  BY DEF Extreme
<1>4. Extreme("max", values) = CHOOSE v \in values : \A w \in values : v >= w
  BY DEF Extreme
<1> QED
  BY <1>1, <1>2, <1>3, <1>4

\* Values of a function on a finite set.
LEMMA ValuesOfFunction ==
  ASSUME NEW S, IsFiniteSet(S), NEW f \in [S -> Int]
  PROVE  IsFiniteSet({f[s] : s \in S}) /\ {f[s] : s \in S} \in SUBSET Int
<1> DEFINE T == {f[s] : s \in S}
<1>1. f \in Surjection(S, T) /\ T \in SUBSET Int
  BY DEF Surjection
<1> QED
  <2> HIDE DEF T
  <2>1. IsFiniteSet(T)
    BY <1>1, FS_Surjection
  <2> QED
    BY <1>1, <2>1 DEF T

\* What there is to reduce when no value of the group is missing.
LEMMA PartValues ==
  ASSUME NEW all, NEW parts, NEW eventsOf, Partition(all, parts, eventsOf),
         NEW results, \A s \in parts : results[s] = Aggregate(eventsOf[s]),
         NEW key \in Keys(all), \A e \in all : e.key = key => e.value # Missing
  PROVE  /\ IsFiniteSet(With(parts, eventsOf, key)) /\ With(parts, eventsOf, key) # {}
         /\ IsFiniteSet(Values(all, key)) /\ Values(all, key) # {} /\ Values(all, key) \in SUBSET Int
         /\ \A v \in Values(all, key) : \E s \in With(parts, eventsOf, key) : v \in Values(eventsOf[s], key)
         /\ \A s \in With(parts, eventsOf, key) :
              /\ Values(eventsOf[s], key) \subseteq Values(all, key)
              /\ IsFiniteSet(Values(eventsOf[s], key)) /\ Values(eventsOf[s], key) # {}
              /\ ToNumber(results[s][key].min) = Extreme("min", Values(eventsOf[s], key))
              /\ ToNumber(results[s][key].max) = Extreme("max", Values(eventsOf[s], key))
<1> DEFINE rows == With(parts, eventsOf, key)
<1>1. /\ IsFiniteSet(rows)
      /\ UNION {Group(eventsOf[s], key) : s \in rows} = Group(all, key)
      /\ UNION {Values(eventsOf[s], key) : s \in rows} = Values(all, key)
      /\ \A s \in parts : IsFiniteSet(Values(eventsOf[s], key))
  BY GroupsOfParts
<1>2. Values(all, key) \in SUBSET Int /\ IsFiniteSet(Values(all, key))
  <2>1. IsFiniteSet(Values(all, key))
    BY ValuesFinite DEF Partition
  <2> QED
    BY <2>1 DEF Partition, Values, Group
<1>3. rows # {}
  <2>1. Group(all, key) # {}
    BY DEF Group, Keys
  <2> QED
    BY <1>1, <2>1
<1>4. ASSUME NEW s \in rows PROVE Values(eventsOf[s], key) # {}
  <2>1. s \in parts /\ Group(eventsOf[s], key) # {} /\ eventsOf[s] \subseteq all
    BY DEF With, Partition
  <2>2. PICK e \in Group(eventsOf[s], key) : TRUE
    BY <2>1
  <2>3. e.value # Missing
    BY <2>1, <2>2 DEF Group
  <2> QED
    BY <2>2, <2>3 DEF Values
<1>5. Values(all, key) # {}
  BY <1>1, <1>3, <1>4
<1>6. ASSUME NEW s \in rows
      PROVE  /\ IsFiniteSet(Values(eventsOf[s], key))
             /\ Values(eventsOf[s], key) \subseteq Values(all, key)
             /\ ToNumber(results[s][key].min) = Extreme("min", Values(eventsOf[s], key))
             /\ ToNumber(results[s][key].max) = Extreme("max", Values(eventsOf[s], key))
  <2>1. s \in parts /\ key \in DOMAIN Aggregate(eventsOf[s])
    BY Aggregates DEF With
  <2>2. /\ IsFiniteSet(Values(eventsOf[s], key)) /\ Values(eventsOf[s], key) \subseteq Values(all, key)
        /\ Values(eventsOf[s], key) # {}
    BY <1>1, <1>4, <2>1
  <2>3. /\ Extreme("min", Values(eventsOf[s], key)) \in Int
        /\ Extreme("max", Values(eventsOf[s], key)) \in Int
    BY <1>2, <2>2, ExtremeIs
  <2>4. results[s] = Aggregate(eventsOf[s])
    BY <2>1
  <2>5. /\ Aggregate(eventsOf[s])[key].min = Extreme("min", Values(eventsOf[s], key))
        /\ Aggregate(eventsOf[s])[key].max = Extreme("max", Values(eventsOf[s], key))
    BY <2>1, Aggregates
  <2> QED
    BY <2>2, <2>3, <2>4, <2>5, NumberOfCount
<1>7. \A v \in Values(all, key) : \E s \in rows : v \in Values(eventsOf[s], key)
  BY <1>1
<1> QED
  BY <1>1, <1>2, <1>3, <1>4, <1>5, <1>6, <1>7

\* The least of the least values is the least value.
LEMMA MinIsExact ==
  ASSUME NEW all, NEW parts, NEW eventsOf, Partition(all, parts, eventsOf),
         NEW results, \A s \in parts : results[s] = Aggregate(eventsOf[s]),
         NEW key \in Keys(all), \A e \in all : e.key = key => e.value # Missing
  PROVE  MergedMin(results, With(parts, eventsOf, key), key) = Aggregate(all)[key].min
<1> DEFINE rows == With(parts, eventsOf, key)
           f == [s \in rows |-> ToNumber(results[s][key].min)]
           least == Extreme("min", Values(all, key))
<1>1. /\ IsFiniteSet(rows) /\ rows # {}
      /\ IsFiniteSet(Values(all, key)) /\ Values(all, key) # {} /\ Values(all, key) \in SUBSET Int
      /\ \A v \in Values(all, key) : \E s \in rows : v \in Values(eventsOf[s], key)
      /\ \A s \in rows : /\ Values(eventsOf[s], key) \subseteq Values(all, key)
                         /\ IsFiniteSet(Values(eventsOf[s], key)) /\ Values(eventsOf[s], key) # {}
                         /\ f[s] = Extreme("min", Values(eventsOf[s], key))
  BY PartValues
<1>2. least \in Values(all, key) /\ \A v \in Values(all, key) : least <= v
  BY <1>1, ExtremeIs
<1>3. ASSUME NEW s \in rows
      PROVE  f[s] \in Values(eventsOf[s], key) /\ \A v \in Values(eventsOf[s], key) : f[s] <= v
  <2>1. /\ Values(eventsOf[s], key) \in SUBSET Int /\ IsFiniteSet(Values(eventsOf[s], key))
        /\ Values(eventsOf[s], key) # {} /\ f[s] = Extreme("min", Values(eventsOf[s], key))
    BY <1>1
  <2> HIDE DEF f, rows
  <2> QED BY <2>1, ExtremeIs
<1>4. f \in [rows -> Int]
  <2>1. \A s \in rows : f[s] \in Int
    BY <1>1, <1>3
  <2> QED
    BY <2>1
<1>5. IsFiniteSet({f[s] : s \in rows}) /\ {f[s] : s \in rows} \in SUBSET Int /\ {f[s] : s \in rows} # {}
  <2> HIDE DEF f, rows
  <2> QED BY <1>1, <1>4, ValuesOfFunction
<1>6. Min({f[s] : s \in rows}) \in {f[s] : s \in rows} /\ \A s \in rows : Min({f[t] : t \in rows}) <= f[s]
  <2> DEFINE T == {f[s] : s \in rows}
  <2>1. Min(T) \in T /\ \A y \in T : Min(T) <= y
    <3> HIDE DEF T
    <3>1. IsFiniteSet(T) /\ T \in SUBSET Int /\ T # {}
      BY <1>5 DEF T
    <3> QED
      BY <3>1, MinExists
  <2> QED
    BY <2>1
<1>7. PICK s \in rows : Min({f[t] : t \in rows}) = f[s]
  BY <1>6
<1>8. least <= f[s]
  BY <1>1, <1>2, <1>3
<1>9. PICK r \in rows : least \in Values(eventsOf[r], key)
  BY <1>1, <1>2
<1>10. f[s] <= f[r] /\ f[r] <= least
  BY <1>3, <1>6, <1>7, <1>9
<1>11. f[s] = least
  <2>1. f[s] \in Int /\ f[r] \in Int /\ least \in Int
    BY <1>1, <1>2, <1>4
  <2> HIDE DEF f, least
  <2> QED BY <1>8, <1>10, <2>1
<1>12. {ToNumber(results[t][key].min) : t \in rows} = {f[t] : t \in rows}
  OBVIOUS
<1>13. Aggregate(all)[key].min = least
  BY Aggregates
<1> QED
  <2> HIDE DEF f, least
  <2> QED BY <1>7, <1>11, <1>12, <1>13 DEF MergedMin

\* The greatest of the greatest values is the greatest value.
LEMMA MaxIsExact ==
  ASSUME NEW all, NEW parts, NEW eventsOf, Partition(all, parts, eventsOf),
         NEW results, \A s \in parts : results[s] = Aggregate(eventsOf[s]),
         NEW key \in Keys(all), \A e \in all : e.key = key => e.value # Missing
  PROVE  MergedMax(results, With(parts, eventsOf, key), key) = Aggregate(all)[key].max
<1> DEFINE rows == With(parts, eventsOf, key)
           f == [s \in rows |-> ToNumber(results[s][key].max)]
           most == Extreme("max", Values(all, key))
<1>1. /\ IsFiniteSet(rows) /\ rows # {}
      /\ IsFiniteSet(Values(all, key)) /\ Values(all, key) # {} /\ Values(all, key) \in SUBSET Int
      /\ \A v \in Values(all, key) : \E s \in rows : v \in Values(eventsOf[s], key)
      /\ \A s \in rows : /\ Values(eventsOf[s], key) \subseteq Values(all, key)
                         /\ IsFiniteSet(Values(eventsOf[s], key)) /\ Values(eventsOf[s], key) # {}
                         /\ f[s] = Extreme("max", Values(eventsOf[s], key))
  BY PartValues
<1>2. most \in Values(all, key) /\ \A v \in Values(all, key) : most >= v
  BY <1>1, ExtremeIs
<1>3. ASSUME NEW s \in rows
      PROVE  f[s] \in Values(eventsOf[s], key) /\ \A v \in Values(eventsOf[s], key) : f[s] >= v
  <2>1. /\ Values(eventsOf[s], key) \in SUBSET Int /\ IsFiniteSet(Values(eventsOf[s], key))
        /\ Values(eventsOf[s], key) # {} /\ f[s] = Extreme("max", Values(eventsOf[s], key))
    BY <1>1
  <2> HIDE DEF f, rows
  <2> QED BY <2>1, ExtremeIs
<1>4. f \in [rows -> Int]
  <2>1. \A s \in rows : f[s] \in Int
    BY <1>1, <1>3
  <2> QED
    BY <2>1
<1>5. IsFiniteSet({f[s] : s \in rows}) /\ {f[s] : s \in rows} \in SUBSET Int /\ {f[s] : s \in rows} # {}
  <2> HIDE DEF f, rows
  <2> QED BY <1>1, <1>4, ValuesOfFunction
<1>6. Max({f[s] : s \in rows}) \in {f[s] : s \in rows} /\ \A s \in rows : Max({f[t] : t \in rows}) >= f[s]
  <2> DEFINE T == {f[s] : s \in rows}
  <2>1. Max(T) \in T /\ \A y \in T : Max(T) >= y
    <3> HIDE DEF T
    <3>1. IsFiniteSet(T) /\ T \in SUBSET Int /\ T # {}
      BY <1>5 DEF T
    <3> QED
      BY <3>1, MaxExists
  <2> QED
    BY <2>1
<1>7. PICK s \in rows : Max({f[t] : t \in rows}) = f[s]
  BY <1>6
<1>8. most >= f[s]
  BY <1>1, <1>2, <1>3
<1>9. PICK r \in rows : most \in Values(eventsOf[r], key)
  BY <1>1, <1>2
<1>10. f[s] >= f[r] /\ f[r] >= most
  BY <1>3, <1>6, <1>7, <1>9
<1>11. f[s] = most
  <2>1. f[s] \in Int /\ f[r] \in Int /\ most \in Int
    BY <1>1, <1>2, <1>4
  <2> HIDE DEF f, most
  <2> QED BY <1>8, <1>10, <2>1
<1>12. {ToNumber(results[t][key].max) : t \in rows} = {f[t] : t \in rows}
  OBVIOUS
<1>13. Aggregate(all)[key].max = most
  BY Aggregates
<1> QED
  <2> HIDE DEF f, most
  <2> QED BY <1>7, <1>11, <1>12, <1>13 DEF MergedMax

-----------------------------------------------------------------------------
(* Theorems about the tables.                                              *)

Done(q) == InState(JobsOf(q), "done")
EventsOf(q) == [j \in Done(q) |-> EventsIn(j[2].start, j[2].end)]
Window == EventsIn(From, Until)

\* When a run has passed, the slices of a table share out the events of the
\* window, and their files are what the backend has for each of them.
LEMMA PassedParts ==
  ASSUME LedgerInv, passed = TRUE, NEW q \in DOMAIN tables
  PROVE  /\ tables[q] = Table(q) /\ q \in DOMAIN Catalog /\ JobsOf(q) # {}
         /\ Partition(Window, Done(q), EventsOf(q))
         /\ \A j \in Done(q) : files[j] = IF request.kind = "aggregate"
                                          THEN Aggregate(EventsOf(q)[j]) ELSE EventsOf(q)[j]
<1>1. /\ tables = [p \in Ran |-> Table(p)]
      /\ \A j \in DOMAIN jobs : jobs[j] \in {"done", "subdivided"}
  BY DEF LedgerInv, VerdictInv
<1>2. tables[q] = Table(q) /\ q \in DOMAIN Catalog /\ JobsOf(q) # {}
  BY <1>1 DEF Ran
<1>3. TypeOK /\ TileInv /\ ResultInv
  BY DEF LedgerInv
<1>4. Tiling(Rows(q), Leaves(q), From, Until) /\ From \in Nat /\ Until \in Nat
  BY <1>2, <1>3, RequestType DEF TileInv
<1>5. /\ IsFiniteSet(request.events)
      /\ \A e \in request.events : e.at \in Nat /\ e.value \in Int \cup {Missing}
  BY <1>3, RequestAssumption DEF TypeOK
<1>6. \A j : j \in Done(q) <=> j \in DOMAIN jobs /\ j[1] = q /\ jobs[j] = "done"
  BY DEF Done, InState, JobsOf
<1>7. ASSUME NEW j \in Done(q) PROVE j = <<q, j[2]>> /\ j[2] \in Leaves(q)
  <2>1. j \in DOMAIN jobs /\ j[1] = q /\ jobs[j] # "subdivided"
    BY <1>6
  <2> QED
    BY <1>3, <2>1, JobSlice
<1>8. ASSUME NEW sl \in Leaves(q) PROVE <<q, sl>> \in Done(q)
  <2>1. <<q, sl>> \in DOMAIN jobs /\ jobs[<<q, sl>>] # "subdivided"
    BY <1>3, LedgerRows
  <2>2. <<q, sl>>[1] = q
    OBVIOUS
  <2> QED
    BY <1>1, <1>6, <2>1, <2>2
<1>9. \A sl \in Leaves(q) : /\ sl.start \in Nat /\ sl.end \in Nat
                            /\ From <= sl.start /\ sl.end <= Until
  BY <1>4 DEF Tiling, Slice
<1>10. \A j \in Done(q) : EventsOf(q)[j] = EventsIn(j[2].start, j[2].end)
  BY DEF EventsOf
<1>11. Partition(Window, Done(q), EventsOf(q))
  <2>1. IsFiniteSet(Window) /\ Window \subseteq request.events
    BY <1>5, FS_Subset DEF Window, EventsIn
  <2>2. ASSUME NEW j \in Done(q) PROVE EventsOf(q)[j] \subseteq Window
    BY <1>4, <1>5, <1>7, <1>9, <1>10 DEF Window, EventsIn
  <2>3. ASSUME NEW e \in Window PROVE \E j \in Done(q) : e \in EventsOf(q)[j]
    <3>1. e \in request.events /\ e.at \in Nat /\ From <= e.at /\ e.at < Until
      BY <1>5 DEF Window, EventsIn
    <3>2. e.at \in From..(Until - 1)
      BY <1>4, <3>1
    <3>3. PICK sl \in Leaves(q) : In(e.at, sl)
      BY <1>4, <3>2 DEF Tiling
    <3>4. <<q, sl>> \in Done(q) /\ <<q, sl>>[2] = sl
      BY <1>8
    <3>5. e \in EventsOf(q)[<<q, sl>>]
      BY <1>10, <3>1, <3>3, <3>4 DEF EventsIn, In
    <3> QED
      BY <3>4, <3>5
  <2>4. ASSUME NEW i \in Done(q), NEW j \in Done(q), i # j
        PROVE  EventsOf(q)[i] \cap EventsOf(q)[j] = {}
    <3>1. i[2] # j[2] /\ i[2] \in Leaves(q) /\ j[2] \in Leaves(q)
      BY <1>7, <2>4
    <3>2. Apart(i[2], j[2])
      BY <1>4, <3>1 DEF Tiling
    <3>3. ASSUME NEW e \in request.events, e \in EventsOf(q)[i], e \in EventsOf(q)[j] PROVE FALSE
      <4>1. e.at \in Nat /\ i[2].start <= e.at /\ e.at < i[2].end
                         /\ j[2].start <= e.at /\ e.at < j[2].end
        BY <1>5, <1>10, <3>3 DEF EventsIn
      <4> QED
        BY <1>9, <3>1, <3>2, <4>1 DEF Apart
    <3>4. EventsOf(q)[i] \subseteq request.events
      BY <1>10 DEF EventsIn
    <3> QED
      BY <3>3, <3>4
  <2> QED
    BY <1>5, <2>1, <2>2, <2>3, <2>4 DEF Partition
<1>12. ASSUME NEW j \in Done(q)
       PROVE  files[j] = IF request.kind = "aggregate"
                         THEN Aggregate(EventsOf(q)[j]) ELSE EventsOf(q)[j]
  <2>1. files[j] = Answer(j[2])
    BY <1>3, <1>6 DEF ResultInv
  <2> QED
    BY <1>10, <2>1 DEF Answer
<1> QED
  BY <1>2, <1>11, <1>12

\* The table of an aggregation that passed, and what the lemmas on merging
\* need of it.
LEMMA PassedAggregate ==
  ASSUME LedgerInv, passed = TRUE, NEW q \in DOMAIN tables, tables[q].kind = "aggregate"
  PROVE  /\ Partition(Window, Done(q), EventsOf(q))
         /\ \A j \in Done(q) : files[j] = Aggregate(EventsOf(q)[j])
         /\ tables[q].table = MergeAggregate(files, Done(q))
         /\ tables[q].warned = Approximate(files, Done(q))
<1>1. tables[q] = Table(q)
  BY PassedParts
<1>2. request.kind = "aggregate"
  BY <1>1 DEF Table
<1>3. tables[q].table = MergeAggregate(files, Done(q)) /\ tables[q].warned = Approximate(files, Done(q))
  BY <1>1, <1>2 DEF Table, Done
<1> QED
  BY <1>2, <1>3, PassedParts

\* Rows of slices that share out the events: every event is there once.
LEMMA RowsAreExact ==
  ASSUME NEW all, NEW parts, NEW eventsOf, Partition(all, parts, eventsOf),
         NEW results, \A s \in parts : results[s] = eventsOf[s]
  PROVE  /\ DOMAIN ConcatRows(results, parts) = all
         /\ \A e \in all : ConcatRows(results, parts)[e] = 1
<1>1. UNION {results[s] : s \in parts} = all
  BY DEF Partition
<1>2. ASSUME NEW e \in all PROVE Cardinality({s \in parts : e \in results[s]}) = 1
  <2>1. PICK s \in parts : e \in eventsOf[s]
    BY DEF Partition
  <2>2. {r \in parts : e \in results[r]} = {s}
    BY <2>1 DEF Partition
  <2> QED
    BY <2>2, FS_Singleton
<1> QED
  BY <1>1, <1>2 DEF ConcatRows

\* The tables of a run that passed count every event of the window once, over
\* whichever slices and in however many runs they were fetched.
THEOREM CountsAreRight == Spec => []CountsAreExact
<1>1. ASSUME LedgerInv, passed = TRUE, NEW q \in DOMAIN tables, tables[q].kind = "rows"
      PROVE  DOMAIN tables[q].table = Window /\ \A e \in Window : tables[q].table[e] = 1
  <2>1. tables[q] = Table(q)
    BY <1>1, PassedParts
  <2>2. request.kind # "aggregate"
    BY <1>1, <2>1 DEF Table
  <2>3. tables[q].table = ConcatRows(files, Done(q))
    BY <2>1, <2>2 DEF Table, Done
  <2>4. Partition(Window, Done(q), EventsOf(q)) /\ \A j \in Done(q) : files[j] = EventsOf(q)[j]
    BY <1>1, <2>2, PassedParts
  <2> QED
    BY <2>3, <2>4, RowsAreExact
<1>2. ASSUME LedgerInv, passed = TRUE, NEW q \in DOMAIN tables, tables[q].kind # "rows"
      PROVE  /\ DOMAIN tables[q].table = Keys(Window)
             /\ \A key \in DOMAIN tables[q].table :
                  tables[q].table[key].sum = Aggregate(Window)[key].sum
  <2>1. tables[q].kind = "aggregate"
    BY <1>2, PassedParts DEF Table
  <2>2. /\ Partition(Window, Done(q), EventsOf(q))
        /\ \A j \in Done(q) : files[j] = Aggregate(EventsOf(q)[j])
        /\ tables[q].table = MergeAggregate(files, Done(q))
    BY <1>2, <2>1, PassedAggregate
  <2>3. DOMAIN tables[q].table = Keys(Window)
    BY <2>2, MergedKeys
  <2>4. ASSUME NEW key \in DOMAIN tables[q].table
        PROVE  tables[q].table[key].sum = Aggregate(Window)[key].sum
    <3>1. tables[q].table[key].sum = MergedSum(files, With(Done(q), EventsOf(q), key), key)
      BY <2>2, <2>3, MergedRow
    <3>2. MergedSum(files, With(Done(q), EventsOf(q), key), key) = Aggregate(Window)[key].sum
      BY <2>2, <2>3, SumIsExact
    <3> QED
      BY <3>1, <3>2
  <2> QED
    BY <2>3, <2>4
<1>3. LedgerInv => CountsAreExact
  <2> SUFFICES ASSUME LedgerInv, passed, NEW q \in DOMAIN tables
               PROVE  IF tables[q].kind = "rows"
                      THEN /\ DOMAIN tables[q].table = Window
                           /\ \A e \in Window : tables[q].table[e] = 1
                      ELSE /\ DOMAIN tables[q].table = Keys(Window)
                           /\ \A key \in DOMAIN tables[q].table :
                                tables[q].table[key].sum = Aggregate(Window)[key].sum
    BY DEF CountsAreExact, Window, Keys
  <2>1. passed = TRUE
    BY DEF LedgerInv, TypeOK
  <2> QED
    BY <1>1, <1>2, <2>1
<1> QED
  BY <1>3, LedgerInvariant, PTL

\* The distinct counts of a run that passed are upper bounds, and exact where
\* the table does not warn.
THEOREM DistinctIsSafe == Spec => []DistinctIsBound
<1>1. LedgerInv => DistinctIsBound
  <2> SUFFICES ASSUME LedgerInv, passed, NEW q \in DOMAIN tables, tables[q].kind = "aggregate",
                      NEW key \in DOMAIN tables[q].table
               PROVE  /\ tables[q].table[key].distinct >= Aggregate(Window)[key].distinct
                      /\ tables[q].table[key].distinct > Aggregate(Window)[key].distinct
                           => tables[q].warned
    BY DEF DistinctIsBound, Window
  <2>1. passed = TRUE
    BY DEF LedgerInv, TypeOK
  <2> DEFINE merged == MergedDistinct(files, With(Done(q), EventsOf(q), key), key)
             true == Aggregate(Window)[key].distinct
  <2>2. /\ Partition(Window, Done(q), EventsOf(q))
        /\ \A j \in Done(q) : files[j] = Aggregate(EventsOf(q)[j])
        /\ tables[q].table = MergeAggregate(files, Done(q))
        /\ tables[q].warned = Approximate(files, Done(q))
    BY <2>1, PassedAggregate
  <2>3. key \in Keys(Window) /\ tables[q].table[key].distinct = merged
    <3>1. key \in Keys(Window)
      BY <2>2, MergedKeys
    <3> QED
      BY <2>2, <3>1, MergedRow
  <2>4. merged >= true /\ (~Approximate(files, Done(q)) => merged = true)
    <3> HIDE DEF LedgerInv
    <3> QED BY <2>2, <2>3, DistinctBounds
  <2>5. true \in Nat
    <3>1. true = Cardinality(Values(Window, key))
      BY <2>3, Aggregates
    <3> QED
      BY <2>2, <3>1, ValuesFinite, FS_CardinalityType DEF Partition
  <2> HIDE DEF merged, true
  <2>6. merged > true => merged # true
    BY <2>5
  <2> QED
    BY <2>2, <2>3, <2>4, <2>6 DEF true
<1> QED
  BY <1>1, LedgerInvariant, PTL

\* The extremes of a run that passed are the true ones, for the groups whose
\* events all have the value.
THEOREM ExtremesAreRight == Spec => []ExtremesAreExact
<1>1. LedgerInv => ExtremesAreExact
  <2> SUFFICES ASSUME LedgerInv, passed, NEW q \in DOMAIN tables, tables[q].kind = "aggregate",
                      NEW key \in DOMAIN tables[q].table,
                      \A e \in Window : e.key = key => e.value # Missing
               PROVE  /\ tables[q].table[key].min = Aggregate(Window)[key].min
                      /\ tables[q].table[key].max = Aggregate(Window)[key].max
    BY DEF ExtremesAreExact, Window
  <2>1. passed = TRUE
    BY DEF LedgerInv, TypeOK
  <2>2. /\ Partition(Window, Done(q), EventsOf(q))
        /\ \A j \in Done(q) : files[j] = Aggregate(EventsOf(q)[j])
        /\ tables[q].table = MergeAggregate(files, Done(q))
    BY <2>1, PassedAggregate
  <2>3. /\ key \in Keys(Window)
        /\ tables[q].table[key].min = MergedMin(files, With(Done(q), EventsOf(q), key), key)
        /\ tables[q].table[key].max = MergedMax(files, With(Done(q), EventsOf(q), key), key)
    <3>1. key \in Keys(Window)
      BY <2>2, MergedKeys
    <3> QED
      BY <2>2, <3>1, MergedRow
  <2>4. MergedMin(files, With(Done(q), EventsOf(q), key), key) = Aggregate(Window)[key].min
    BY <2>2, <2>3, MinIsExact
  <2>5. MergedMax(files, With(Done(q), EventsOf(q), key), key) = Aggregate(Window)[key].max
    BY <2>2, <2>3, MaxIsExact
  <2> QED
    BY <2>3, <2>4, <2>5
<1> QED
  BY <1>1, LedgerInvariant, PTL
=============================================================================
