--------------------------- MODULE SlotGridProofs ---------------------------
(***************************************************************************)
(* For every resource, time zone and unit of time: bookings lie in opening *)
(* hours from end to end, and what the agenda offers can be requested and  *)
(* is free, unless clocks are moved meanwhile; slots that join up cost     *)
(* what the agenda shows for them, also then.                              *)
(***************************************************************************)
EXTENDS SlotGrid, FiniteSetTheorems, WellFoundedInduction, TLAPS

(***************************************************************************)
(* Division.                                                               *)
(***************************************************************************)
LEMMA Division ==
  ASSUME NEW w \in Int, NEW d \in Nat \ {0}
  PROVE  w = d * (w \div d) + (w % d) /\ w % d \in 0..(d - 1) /\ w \div d \in Int
OBVIOUS

LEMMA DivisionUnique ==
  ASSUME NEW w \in Int, NEW d \in Nat \ {0}, NEW q \in Int, NEW r \in 0..(d - 1),
         w = d * q + r
  PROVE  w \div d = q /\ w % d = r
<1>1. w = d * (w \div d) + (w % d) /\ w % d \in 0..(d - 1) /\ w \div d \in Int
  BY Division
<1>. DEFINE k == w \div d
<1>2. d * (k - q) = r - (w % d)
  BY <1>1
<1>3. ~(k - q >= 1)
  BY <1>1, <1>2
<1>4. ~(k - q <= -1)
  BY <1>1, <1>2
<1>. QED
  BY <1>1, <1>2, <1>3, <1>4

LEMMA MultipleOf ==
  ASSUME NEW d \in Nat \ {0}, NEW m \in Int
  PROVE  m % d = 0 <=> \E k \in Int : m = d * k
<1>1. m % d = 0 => \E k \in Int : m = d * k
  <2>1. m = d * (m \div d) + (m % d) /\ m \div d \in Int
    BY Division
  <2>. DEFINE k == m \div d
              r == m % d
  <2>2. m = d * k + r /\ k \in Int
    BY <2>1
  <2>. HIDE DEF k, r
  <2>3. r = 0 => m = d * k
    BY <2>2
  <2>. QED
    BY <2>2, <2>3 DEF r
<1>2. ASSUME NEW k \in Int, m = d * k PROVE m % d = 0
  <2>1. m = d * k + 0 /\ 0 \in 0..(d - 1)
    BY <1>2
  <2>. QED
    BY <2>1, DivisionUnique
<1>. QED
  BY <1>1, <1>2

LEMMA SumOfMultiples ==
  ASSUME NEW d \in Nat \ {0}, NEW m \in Int, NEW n \in Int, NEW s \in Int,
         m % d = 0, n % d = 0, s = m + n
  PROVE  s % d = 0
<1>1. PICK j \in Int : m = d * j
  BY MultipleOf
<1>2. PICK k \in Int : n = d * k
  BY MultipleOf
<1>3. j + k \in Int /\ s = d * (j + k)
  BY <1>1, <1>2
<1>. QED
  BY <1>3, MultipleOf

\* Multiples of d are at least d apart.
LEMMA MultiplesApart ==
  ASSUME NEW d \in Nat \ {0}, NEW m \in Int, NEW n \in Int,
         m % d = 0, n % d = 0, m < n
  PROVE  m + d <= n
<1>1. PICK j \in Int : m = d * j
  BY MultipleOf
<1>2. PICK k \in Int : n = d * k
  BY MultipleOf
<1>3. j < k
  BY <1>1, <1>2
<1>4. d * (j + 1) <= d * k
  BY <1>3
<1>. QED
  BY <1>1, <1>2, <1>4

\* Of a number and what is left of it after a multiple of n * d, d divides both
\* or none.
LEMMA MultiplesInTurn ==
  ASSUME NEW d \in Nat \ {0}, NEW n \in Nat \ {0}, NEW e \in Nat \ {0}, e = n * d,
         NEW v \in Int
  PROVE  (v % e) % d = 0 <=> v % d = 0
<1>. DEFINE a == v \div e
            b == v % e
            f == d * (n * a)
            g == d * (n * (-a))
<1>1. v = e * a + b /\ b \in 0..(e - 1) /\ a \in Int
  <2>. QED
    BY Division
<1>2. b \in Int
  BY <1>1
<1>. HIDE DEF a, b
<1>3. -a \in Int /\ n * a \in Int /\ n * (-a) \in Int
  BY <1>1
<1>4. e * a = d * (n * a)
  BY <1>1
<1>5. d * (n * (-a)) = -(d * (n * a))
  BY <1>1
<1>6. f \in Int /\ g \in Int /\ v = b + f /\ b = v + g
  BY <1>1, <1>2, <1>3, <1>4, <1>5
<1>7. f % d = 0 /\ g % d = 0
  BY <1>3, <1>6, MultipleOf
<1>. HIDE DEF f, g
<1>8. b % d = 0 => v % d = 0
  BY <1>2, <1>6, <1>7, SumOfMultiples
<1>9. v % d = 0 => b % d = 0
  BY <1>2, <1>6, <1>7, SumOfMultiples
<1>. QED
  BY <1>8, <1>9 DEF b

(***************************************************************************)
(* The grid of slots on the wall clock.                                    *)
(***************************************************************************)

\* The slot of a resource divides the day.
LEMMA SlotsOfADay ==
  ASSUME resource \in Resources
  PROVE  /\ Fine \in Nat \ {0} /\ resource.slot \in Nat \ {0}
         /\ SlotLength \in Nat \ {0} /\ DayLength \in Nat \ {0}
         /\ SlotLength = resource.slot * Fine
         /\ \E n \in Nat \ {0} : n * resource.slot = 96 /\ DayLength = n * SlotLength
<1>1. Fine \in Nat \ {0} /\ resource.slot \in SlotDurations
  BY GridAssumption
<1>2. \E n \in Nat \ {0} : n * resource.slot = 96
  <2>1. \A s \in {2, 3, 4, 6, 8} : \E n \in {48, 32, 24, 16, 12} : n * s = 96
    OBVIOUS
  <2>2. resource.slot \in {2, 3, 4, 6, 8}
    BY <1>1 DEF SlotDurations
  <2>3. PICK n \in {48, 32, 24, 16, 12} : n * resource.slot = 96
    BY <2>1, <2>2
  <2>. QED
    BY <2>3
<1>. PICK n \in Nat \ {0} : n * resource.slot = 96
  BY <1>2
<1>3. resource.slot \in Nat \ {0}
  BY <1>1 DEF SlotDurations
<1>4. SlotLength = resource.slot * Fine /\ DayLength = 96 * Fine
  BY DEF SlotLength, DayLength
<1>5. DayLength = n * SlotLength
  BY <1>1, <1>3, <1>4
<1>6. SlotLength \in Nat \ {0} /\ DayLength \in Nat \ {0}
  BY <1>1, <1>3, <1>4
<1>. QED
  BY <1>1, <1>3, <1>4, <1>5, <1>6

\* A slot that begins on the grid lies in one day, and the time of day in it
\* runs from a multiple of the duration to the next.
LEMMA SlotTimes ==
  ASSUME resource \in Resources, NEW w \in Int, (w % DayLength) % SlotLength = 0
  PROVE  \E c \in Nat :
           \A r \in 0..(SlotLength - 1) :
             /\ Day(w + r) = Day(w) /\ Day(w) \in Weekdays
             /\ TimeOfDay(w + r) = resource.slot * c + (r \div Fine)
             /\ r \div Fine \in 0..(resource.slot - 1)
<1>. DEFINE s == resource.slot
            L == SlotLength
            D == DayLength
            a == w \div D
            b == w % D
            c == b \div L
<1>1. PICK n \in Nat \ {0} :
        /\ Fine \in Nat \ {0} /\ s \in Nat \ {0} /\ L \in Nat \ {0} /\ D \in Nat \ {0}
        /\ L = s * Fine /\ n * s = 96 /\ D = n * L
  BY SlotsOfADay
<1>2. w = D * a + b /\ b \in 0..(D - 1) /\ a \in Int
  <2>1. D \in Nat \ {0}
    BY <1>1
  <2>. HIDE DEF D
  <2>. QED
    BY <2>1, Division
<1>3. b = L * c /\ c \in Int
  <2>1. b = L * (b \div L) + (b % L) /\ b \div L \in Int
    <3>1. L \in Nat \ {0} /\ D \in Nat \ {0}
      BY <1>1
    <3>2. b \in Int
      BY <1>2, <3>1
    <3>. HIDE DEF L, b
    <3>. QED
      BY <3>1, <3>2, Division
  <2>2. b % L = 0
    OBVIOUS
  <2>. HIDE DEF b
  <2>. QED
    BY <1>1, <2>1, <2>2
<1>. HIDE DEF a, b, c, s, L, D
<1>4. c \in Nat /\ c < n
  <2>1. ~(c < 0)
    BY <1>1, <1>2, <1>3
  <2>2. L * c < L * n
    BY <1>1, <1>2, <1>3
  <2>3. c < n
    BY <1>1, <1>3, <2>2
  <2>. QED
    BY <1>3, <2>1, <2>3
<1>5. ASSUME NEW r \in 0..(L - 1)
      PROVE  /\ (w + r) \div D = a
             /\ (w + r) % D = L * c + r
  <2>. DEFINE rest == L * c + r
              here == w + r
  <2>1. L * (c + 1) <= L * n
    BY <1>1, <1>4
  <2>2. rest \in 0..(D - 1)
    BY <1>1, <1>4, <2>1
  <2>3. here = D * a + rest
    BY <1>2, <1>3, <1>4, <1>1
  <2>4. D \in Nat \ {0} /\ a \in Int /\ here \in Int
    BY <1>1, <1>2
  <2>5. here \div D = a /\ here % D = rest
    <3>. HIDE DEF here, rest
    <3>. QED
      BY <2>2, <2>3, <2>4, DivisionUnique
  <2>. QED
    BY <2>5
<1>6. ASSUME NEW r \in 0..(L - 1)
      PROVE  /\ (L * c + r) \div Fine = s * c + (r \div Fine)
             /\ r \div Fine \in 0..(s - 1)
  <2>. DEFINE q == r \div Fine
              t == r % Fine
  <2>1. r = Fine * q + t /\ t \in 0..(Fine - 1) /\ q \in Int /\ r \in Int
    BY <1>1, Division
  <2>. HIDE DEF q, t
  <2>2. q \in 0..(s - 1)
    <3>1. ~(q < 0)
      BY <1>1, <2>1
    <3>2. Fine * q < Fine * s
      BY <1>1, <2>1
    <3>3. q < s
      BY <1>1, <2>1, <3>2
    <3>. QED
      BY <1>1, <2>1, <3>1, <3>3
  <2>3. L * c + r = Fine * (s * c + q) + t
    BY <1>1, <1>4, <2>1
  <2>4. s * c + q \in Int /\ L * c + r \in Int
    BY <1>1, <1>4, <2>1
  <2>5. (L * c + r) \div Fine = s * c + q
    BY <1>1, <2>1, <2>3, <2>4, DivisionUnique
  <2>. QED
    BY <2>2, <2>5 DEF q
<1>7. w \div D = a
  BY DEF a
<1>8. (a % 7) + 1 \in Weekdays
  BY <1>2, GridAssumption
<1>9. ASSUME NEW r \in 0..(L - 1)
      PROVE  /\ Day(w + r) = Day(w) /\ Day(w) \in Weekdays
             /\ TimeOfDay(w + r) = s * c + (r \div Fine)
             /\ r \div Fine \in 0..(s - 1)
  BY <1>5, <1>6, <1>7, <1>8 DEF Day, TimeOfDay, D
<1>. QED
  BY <1>4, <1>9 DEF s, L

\* Every step of a walk that begins on the grid is a point of the grid.
LEMMA WalkOnGrid ==
  ASSUME resource \in Resources, NEW w \in Int, (w % DayLength) % SlotLength = 0,
         NEW m \in Int, m % SlotLength = 0, NEW c \in Int, c = w + m
  PROVE  (c % DayLength) % SlotLength = 0
<1>. DEFINE L == SlotLength
            D == DayLength
<1>1. PICK n \in Nat \ {0} : L \in Nat \ {0} /\ D \in Nat \ {0} /\ D = n * L
  BY SlotsOfADay
<1>2. (w % D) % L = 0 /\ m % L = 0
  OBVIOUS
<1>. SUFFICES (c % D) % L = 0
  OBVIOUS
<1>. HIDE DEF L, D
<1>3. w % L = 0
  BY <1>1, <1>2, MultiplesInTurn
<1>4. c % L = 0
  BY <1>1, <1>2, <1>3, SumOfMultiples
<1>. QED
  BY <1>1, <1>4, MultiplesInTurn

\* A slot that begins on the grid and in a window of the schedule is open to its
\* last moment.
LEMMA OpenToTheEnd ==
  ASSUME resource \in Resources, NEW w \in Int, (w % DayLength) % SlotLength = 0,
         OpenAt(w), NEW r \in 0..(SlotLength - 1)
  PROVE  OpenAt(w + r)
<1>. DEFINE s == resource.slot
            t == r \div Fine
<1>1. PICK c \in Nat :
        \A x \in 0..(SlotLength - 1) :
          /\ Day(w + x) = Day(w) /\ Day(w) \in Weekdays
          /\ TimeOfDay(w + x) = s * c + (x \div Fine)
          /\ x \div Fine \in 0..(s - 1)
  BY SlotTimes
<1>2. /\ Fine \in Nat \ {0} /\ s \in Nat \ {0} /\ SlotLength \in Nat \ {0}
  BY SlotsOfADay
<1>3. /\ Day(w + r) = Day(w) /\ Day(w) \in Weekdays
      /\ TimeOfDay(w + r) = s * c + t /\ t \in 0..(s - 1)
  BY <1>1
<1>4. TimeOfDay(w) = s * c
  <2>1. 0 \in 0..(SlotLength - 1) /\ w + 0 = w
    BY <1>2
  <2>2. 0 \div Fine = 0
    <3>1. 0 = Fine * 0 + 0 /\ 0 \in 0..(Fine - 1)
      BY <1>2
    <3>. QED
      BY <1>2, <3>1, DivisionUnique
  <2>3. TimeOfDay(w + 0) = s * c + (0 \div Fine)
    BY <1>1, <2>1
  <2>. QED
    BY <1>2, <2>1, <2>2, <2>3
<1>. PICK n \in DOMAIN resource.hours[Day(w)] :
       /\ resource.hours[Day(w)][n].start <= TimeOfDay(w)
       /\ TimeOfDay(w) < resource.hours[Day(w)][n].end
  BY DEF OpenAt, Open
<1>. DEFINE from == resource.hours[Day(w)][n].start
            to == resource.hours[Day(w)][n].end
<1>5. from \in Nat /\ to \in Nat /\ from % s = 0 /\ (to - from) % s = 0
  <2>1. ScheduleAccepted(resource.slot, resource.hours)
    BY GridAssumption
  <2>2. from \in Nat /\ to \in Nat
    <3>. DEFINE windows == resource.hours[Day(w)]
                Window == [start : Nat, end : Nat]
    <3>1. windows \in Seq(Window) /\ n \in DOMAIN windows
      BY <1>3, GridAssumption
    <3>2. windows[n] \in Window
      <4>. HIDE DEF windows, Window
      <4>. QED
        BY <3>1
    <3>. QED
      BY <3>2
  <2>. QED
    BY <1>3, <2>1, <2>2 DEF ScheduleAccepted, OnGrid
<1>. HIDE DEF from, to, s, t
<1>6. s * c \in Int /\ (s * c) % s = 0 /\ to \in Int /\ to % s = 0
  <2>1. s * c = s * c + 0 /\ s * c \in Int /\ 0 \in 0..(s - 1)
    BY <1>2
  <2>2. (s * c) % s = 0
    BY <1>2, <2>1, DivisionUnique
  <2>. DEFINE length == to - from
  <2>3. to = from + length /\ length \in Int /\ length % s = 0 /\ to \in Int /\ from \in Int
    BY <1>5
  <2>. HIDE DEF length
  <2>4. to % s = 0
    BY <1>2, <1>5, <2>3, SumOfMultiples
  <2>. QED
    BY <2>1, <2>2, <2>3, <2>4
<1>7. s * c < to /\ from <= s * c
  BY <1>4 DEF from, to
<1>8. s * c + s <= to
  BY <1>2, <1>6, <1>7, MultiplesApart
<1>9. from <= s * c + t /\ s * c + t < to
  BY <1>2, <1>3, <1>5, <1>6, <1>7, <1>8
<1>10. from <= TimeOfDay(w + r) /\ TimeOfDay(w + r) < to
  BY <1>3, <1>9
<1>. QED
  BY <1>3, <1>10 DEF OpenAt, Open, from, to

\* While clocks are not moved, wall clock and UTC advance together, and a time
\* on the wall is one instant.
LEMMA SteadyClock ==
  ASSUME zone \in Zones, NEW from \in Int, NEW to \in Int, Steady(from, to),
         NEW i \in from..to
  PROVE  /\ Wall(i) = Wall(from) + (i - from)
         /\ InstantOf(Wall(i), FALSE) = i
<1>1. zone.change \in Int /\ zone.jump \in Int
  BY GridAssumption
<1>2. /\ from <= to /\ i \in Int /\ from <= i /\ i <= to
  OBVIOUS
<1>3. /\ zone.jump = 0 \/ to < zone.change \/ zone.change <= from
      /\ zone.change <= from => zone.change <= from + zone.jump
  BY <1>1, <1>2 DEF Steady, Wall, Fold
<1>4. Wall(i) = Wall(from) + (i - from)
  BY <1>1, <1>2, <1>3 DEF Wall
<1>5. InstantOf(Wall(i), FALSE) = i
  BY <1>1, <1>2, <1>3 DEF Wall, InstantOf
<1>. QED
  BY <1>4, <1>5
(***************************************************************************)
(* Sums over finite sets.                                                  *)
(***************************************************************************)
One(s) == CHOOSE x \in s : TRUE

\* g sums F over every subset of S, in the order in which CHOOSE takes the
\* elements.
Adds(g, F, S) ==
  \A s \in SUBSET S : g[s] = IF s = {} THEN 0 ELSE F[One(s)] + g[s \ {One(s)}]

IsSum(g, F, S) ==
  g = [s \in SUBSET S |-> IF s = {} THEN 0 ELSE F[One(s)] + g[s \ {One(s)}]]

\* Induction on finite sets: of those there are, one contains no other.
LEMMA Smallest ==
  ASSUME NEW S, IsFiniteSet(S), NEW Bad \in SUBSET SUBSET S, Bad # {}
  PROVE  \E T \in Bad : \A U \in Bad : U \subseteq T => U = T
<1>1. Bad \subseteq FiniteSubsetsOf(S)
  BY FS_Subset DEF FiniteSubsetsOf
<1>2. PICK T \in Bad : \A U \in Bad : <<U, T>> \notin StrictSubsetOrdering(S)
  BY <1>1, FS_StrictSubsetOrderingWellFounded, WFMin
<1>3. \A U \in Bad : U \notin (SUBSET T) \ {T}
  BY <1>1, <1>2 DEF StrictSubsetOrdering
<1>. QED
  BY <1>3

LEMMA OneOf == ASSUME NEW s, s # {} PROVE One(s) \in s
BY DEF One

\* The recursive definition behind a sum has a solution.
LEMMA SumExists ==
  ASSUME NEW S, IsFiniteSet(S), NEW F
  PROVE  \E g : IsSum(g, F, S)
<1>. DEFINE Value(g, s) == IF s = {} THEN 0 ELSE F[One(s)] + g[s \ {One(s)}]
            UpTo(g, T) == \A s \in SUBSET S :
                            Cardinality(s) <= Cardinality(T) => g[s] = Value(g, s)
            Bad == {T \in SUBSET S : ~\E g : UpTo(g, T)}
<1>1. \A s \in SUBSET S : IsFiniteSet(s) /\ Cardinality(s) \in Nat
  BY FS_Subset, FS_CardinalityType
<1>2. \A s \in SUBSET S : s # {} =>
        /\ s \ {One(s)} \in SUBSET S
        /\ Cardinality(s \ {One(s)}) = Cardinality(s) - 1
  BY <1>1, OneOf, FS_RemoveElement
<1>3. \A s \in SUBSET S : Cardinality(s) <= 0 => s = {}
  BY <1>1, FS_EmptySet
<1>4. Bad = {}
  <2>. SUFFICES ASSUME Bad # {} PROVE FALSE
    OBVIOUS
  <2>1. PICK T \in Bad : \A U \in Bad : U \subseteq T => U = T
    <3>1. Bad \in SUBSET SUBSET S
      OBVIOUS
    <3>. HIDE DEF Bad
    <3>. QED
      BY <3>1, Smallest
  <2>2. CASE T = {}
    <3>. DEFINE g == [s \in SUBSET S |-> 0]
    <3>1. Cardinality({}) = 0
      BY FS_EmptySet
    <3>2. UpTo(g, T)
      BY <1>3, <2>2, <3>1
    <3>. QED
      BY <2>1, <3>2
  <2>3. CASE T # {}
    <3>. DEFINE U == T \ {One(T)}
                n == Cardinality(U)
    <3>1. U \in SUBSET S /\ U # T /\ n \in Nat /\ Cardinality(T) = n + 1
      <4>1. U \in SUBSET S /\ Cardinality(U) = Cardinality(T) - 1 /\ T \in SUBSET S
        BY <1>2, <2>1, <2>3
      <4>2. Cardinality(U) \in Nat /\ Cardinality(T) \in Nat
        BY <1>1, <4>1
      <4>. HIDE DEF U
      <4>3. n \in Nat /\ Cardinality(T) = n + 1
        BY <4>1, <4>2
      <4>4. U # T
        BY <4>1, <4>2
      <4>. QED
        BY <4>1, <4>3, <4>4
    <3>2. PICK g : UpTo(g, U)
      <4>1. U \notin Bad
        BY <2>1, <3>1
      <4>. HIDE DEF UpTo, U
      <4>. QED
        BY <3>1, <4>1
    <3>. DEFINE h == [s \in SUBSET S |-> IF Cardinality(s) <= n THEN g[s] ELSE Value(g, s)]
    <3>3. ASSUME NEW s \in SUBSET S, Cardinality(s) <= n + 1
          PROVE  h[s] = Value(h, s)
      <4>1. h[s] = Value(g, s)
        BY <3>2
      <4>2. CASE s = {}
        BY <4>1, <4>2
      <4>3. CASE s # {}
        <5>. DEFINE r == s \ {One(s)}
        <5>1. r \in SUBSET S /\ Cardinality(r) <= n
          BY <1>1, <1>2, <3>1, <3>3, <4>3
        <5>2. h[r] = g[r]
          BY <5>1
        <5>. HIDE DEF h
        <5>. QED
          BY <4>1, <4>3, <5>2
      <4>. QED
        BY <4>2, <4>3
    <3>. HIDE DEF h
    <3>4. UpTo(h, T)
      BY <3>1, <3>3
    <3>. QED
      BY <2>1, <3>4
  <2>. QED
    BY <2>2, <2>3
<1>5. PICK g : UpTo(g, S)
  BY <1>4
<1>6. \A s \in SUBSET S : Cardinality(s) <= Cardinality(S)
  BY FS_Subset
<1>. DEFINE h == [s \in SUBSET S |-> g[s]]
<1>7. \A s \in SUBSET S : h[s] = Value(h, s)
  BY <1>2, <1>5, <1>6
<1>8. h = [s \in SUBSET S |-> Value(h, s)]
  <2>1. h = [s \in SUBSET S |-> h[s]]
    OBVIOUS
  <2>. HIDE DEF h
  <2>. QED
    BY <1>7, <2>1
<1>. QED
  BY <1>8 DEF IsSum

\* The order does not matter.
LEMMA SumOfParts ==
  ASSUME NEW S, IsFiniteSet(S), NEW F, \A x \in S : F[x] \in Int, NEW g, Adds(g, F, S)
  PROVE  /\ g[{}] = 0
         /\ \A T \in SUBSET S : g[T] \in Int
         /\ \A T \in SUBSET S : \A x \in T : g[T] = F[x] + g[T \ {x}]
<1>1. \A s \in SUBSET S : /\ s = {} => g[s] = 0
                          /\ s # {} => /\ One(s) \in s
                                       /\ g[s] = F[One(s)] + g[s \ {One(s)}]
  BY OneOf DEF Adds
<1>. DEFINE Odd == {T \in SUBSET S : g[T] \notin Int}
            Bad == {T \in SUBSET S : \E x \in T : g[T] # F[x] + g[T \ {x}]}
<1>2. Odd = {}
  <2>. SUFFICES ASSUME Odd # {} PROVE FALSE
    OBVIOUS
  <2>1. PICK T \in Odd : \A U \in Odd : U \subseteq T => U = T
    <3>1. Odd \in SUBSET SUBSET S
      OBVIOUS
    <3>. HIDE DEF Odd
    <3>. QED
      BY <3>1, Smallest
  <2>2. T # {}
    <3>1. g[T] \notin Int
      BY <2>1
    <3>2. g[{}] = 0
      BY <1>1
    <3>. QED
      BY <3>1, <3>2
  <2>. DEFINE U == T \ {One(T)}
  <2>3. U \in SUBSET S /\ U \subseteq T /\ U # T /\ g[T] = F[One(T)] + g[U] /\ One(T) \in S
    BY <1>1, <2>1, <2>2
  <2>4. g[U] \in Int
    BY <2>1, <2>3
  <2>. QED
    BY <2>1, <2>3, <2>4
<1>3. Bad = {}
  <2>. SUFFICES ASSUME Bad # {} PROVE FALSE
    OBVIOUS
  <2>1. PICK T \in Bad : \A U \in Bad : U \subseteq T => U = T
    <3>1. Bad \in SUBSET SUBSET S
      OBVIOUS
    <3>. HIDE DEF Bad
    <3>. QED
      BY <3>1, Smallest
  <2>2. PICK x \in T : g[T] # F[x] + g[T \ {x}]
    BY <2>1
  <2>. DEFINE p == One(T)
  <2>3. p \in T /\ g[T] = F[p] + g[T \ {p}] /\ p # x /\ T \in SUBSET S
    BY <1>1, <2>1, <2>2
  <2>. HIDE DEF p
  <2>4. g[T \ {p}] = F[x] + g[(T \ {p}) \ {x}]
    <3>1. T \ {p} \in SUBSET S /\ T \ {p} # T /\ x \in T \ {p}
      BY <2>2, <2>3
    <3>. QED
      BY <2>1, <3>1
  <2>5. g[T \ {x}] = F[p] + g[(T \ {x}) \ {p}]
    <3>1. T \ {x} \in SUBSET S /\ T \ {x} # T /\ p \in T \ {x}
      BY <2>2, <2>3
    <3>. QED
      BY <2>1, <3>1
  <2>6. (T \ {x}) \ {p} = (T \ {p}) \ {x}
    OBVIOUS
  <2>. DEFINE a == g[(T \ {p}) \ {x}]
  <2>7. /\ F[x] \in Int /\ F[p] \in Int /\ a \in Int
        /\ g[T] = F[p] + (F[x] + a) /\ g[T \ {x}] = F[p] + a
    BY <1>2, <2>2, <2>3, <2>4, <2>5, <2>6
  <2>. HIDE DEF a
  <2>. QED
    BY <2>2, <2>7
<1>. QED
  BY <1>1, <1>2, <1>3

\* Nor does what else there is.
LEMMA SumsAgree ==
  ASSUME NEW S, IsFiniteSet(S), NEW F, NEW g, Adds(g, F, S),
         NEW T \in SUBSET S, NEW h, Adds(h, F, T)
  PROVE  h[T] = g[T]
<1>. DEFINE Bad == {U \in SUBSET T : h[U] # g[U]}
<1>1. Bad = {}
  <2>. SUFFICES ASSUME Bad # {} PROVE FALSE
    OBVIOUS
  <2>1. PICK U \in Bad : \A V \in Bad : V \subseteq U => V = U
    <3>1. Bad \in SUBSET SUBSET S
      OBVIOUS
    <3>. HIDE DEF Bad
    <3>. QED
      BY <3>1, Smallest
  <2>2. /\ U \in SUBSET T /\ U \in SUBSET S
        /\ h[U] = IF U = {} THEN 0 ELSE F[One(U)] + h[U \ {One(U)}]
        /\ g[U] = IF U = {} THEN 0 ELSE F[One(U)] + g[U \ {One(U)}]
    BY DEF Adds
  <2>3. U # {}
    BY <2>1, <2>2
  <2>4. h[U \ {One(U)}] = g[U \ {One(U)}]
    BY <2>1, <2>3, OneOf
  <2>. QED
    BY <2>1, <2>2, <2>4
<1>. QED
  BY <1>1

\* Less is summed, less is the sum.
LEMMA SumsGrow ==
  ASSUME NEW S, IsFiniteSet(S), NEW F, \A x \in S : F[x] \in Nat, NEW g, Adds(g, F, S),
         NEW T \in SUBSET S
  PROVE  g[T] <= g[S]
<1>. DEFINE Bad == {U \in SUBSET S : T \subseteq U /\ ~(g[T] <= g[U])}
<1>1. /\ \A U \in SUBSET S : g[U] \in Int
      /\ \A U \in SUBSET S : \A x \in U : g[U] = F[x] + g[U \ {x}]
  <2>1. \A x \in S : F[x] \in Int
    OBVIOUS
  <2>. QED
    BY <2>1, SumOfParts
<1>2. Bad = {}
  <2>. SUFFICES ASSUME Bad # {} PROVE FALSE
    OBVIOUS
  <2>1. PICK U \in Bad : \A V \in Bad : V \subseteq U => V = U
    <3>1. Bad \in SUBSET SUBSET S
      OBVIOUS
    <3>. HIDE DEF Bad
    <3>. QED
      BY <3>1, Smallest
  <2>2. U # T
    BY <1>1, <2>1
  <2>3. PICK x \in U : x \notin T
    BY <2>1, <2>2
  <2>. DEFINE V == U \ {x}
  <2>4. V \in SUBSET S /\ T \subseteq V /\ V # U
    BY <2>1, <2>3
  <2>5. g[T] <= g[V] /\ g[U] = F[x] + g[V]
    BY <1>1, <2>1, <2>4
  <2>. HIDE DEF V
  <2>6. F[x] \in Nat /\ g[T] \in Int /\ g[V] \in Int /\ g[U] \in Int /\ ~(g[T] <= g[U])
    BY <1>1, <2>1, <2>4
  <2>. QED
    BY <2>5, <2>6
<1>. QED
  BY <1>2

(***************************************************************************)
(* The invariant.                                                          *)
(***************************************************************************)
Fixed == resource \in Resources /\ zone \in Zones

\* What request_booking has found of every booking.
Checked ==
  \A b \in bookings :
    /\ b.start \in Nat /\ b.end \in Nat /\ b.start < b.end
    /\ b.status \in {"PENDING", "APPROVED"}
    /\ WalkOpen(b.start, b.end)

\* What the last agenda says of the bookings there are.
Told ==
  answer.call = "agenda" =>
    /\ answer.start \in Nat /\ answer.end \in Nat
    /\ \A o \in offers : \E slot \in SlotsOf(answer.start, answer.end) :
         /\ o.start = slot.start /\ o.end = slot.end
         /\ o.status = Status(slot, BookingsIn(answer.start, answer.end))

GridInv == Fixed /\ Checked /\ Told

LEMMA GridInit == Init => GridInv
BY DEF Init, GridInv, Fixed, Checked, Told

LEMMA AgendaKeeps ==
  ASSUME GridInv, NEW from \in Instants, NEW to \in Instants, GetAgenda(from, to)
  PROVE  GridInv'
<1>. DEFINE outcome == IF to - from > MaxRange THEN "refused"
                       ELSE IF \A slot \in SlotsOf(from, to) : Computable(slot) THEN "ok"
                       ELSE "crashed"
<1>1. /\ offers' = IF outcome = "ok" THEN Agenda(from, to) ELSE {}
      /\ answer' = [call |-> "agenda", start |-> from, end |-> to, outcome |-> outcome]
      /\ resource' = resource /\ zone' = zone /\ bookings' = bookings
  BY DEF GetAgenda
<1>. HIDE DEF outcome
<1>2. answer'.start = from /\ answer'.end = to
  BY <1>1
<1>3. from \in Nat /\ to \in Nat
  BY GridAssumption
<1>4. Fixed'
  BY <1>1 DEF GridInv, Fixed
<1>5. Checked'
  BY <1>1 DEF GridInv, Checked, WalkOpen, Walk, Wall, OpenAt, SlotLength
<1>6. /\ SlotsOf(from, to)' = SlotsOf(from, to)
      /\ BookingsIn(from, to)' = BookingsIn(from, to)
  BY <1>1 DEF SlotsOf, SlotAt, Walk, Offered, Leaves, Wall, Fold, InstantOf, SlotLength, BookingsIn
<1>7. \A o \in offers' : \E slot \in SlotsOf(from, to) :
         /\ o.start = slot.start /\ o.end = slot.end
         /\ o.status = Status(slot, BookingsIn(from, to))
  BY <1>1 DEF Agenda
<1>8. Told'
  BY <1>2, <1>3, <1>6, <1>7 DEF Told, Status
<1>. QED
  BY <1>4, <1>5, <1>8 DEF GridInv

LEMMA RequestKeeps ==
  ASSUME GridInv, NEW from \in Instants, NEW to \in Instants, Request(from, to)
  PROVE  GridInv'
<1>1. /\ answer'.call = "request"
      /\ resource' = resource /\ zone' = zone
      /\ \A b \in bookings' :
           \/ b \in bookings
           \/ /\ b = [start |-> from, end |-> to, status |-> "PENDING"]
              /\ from < to /\ WalkOpen(from, to)
  BY DEF Request, RangeAccepted
<1>2. from \in Nat /\ to \in Nat
  BY GridAssumption
<1>3. \A x, y : WalkOpen(x, y)' = WalkOpen(x, y)
  BY <1>1 DEF WalkOpen, Walk, Wall, OpenAt, SlotLength
<1>4. Checked'
  BY <1>1, <1>2, <1>3 DEF GridInv, Checked
<1>. QED
  BY <1>1, <1>4 DEF GridInv, Fixed, Told

LEMMA ApproveKeeps ==
  ASSUME GridInv, NEW b \in bookings, Approve(b)
  PROVE  GridInv'
<1>1. /\ answer'.call = "approve"
      /\ resource' = resource /\ zone' = zone
      /\ bookings' = (bookings \ {b}) \cup {[b EXCEPT !.status = "APPROVED"]}
  BY DEF Approve
<1>2. \A x, y : WalkOpen(x, y)' = WalkOpen(x, y)
  BY <1>1 DEF WalkOpen, Walk, Wall, OpenAt, SlotLength
<1>. DEFINE approved == [b EXCEPT !.status = "APPROVED"]
<1>3. approved.start = b.start /\ approved.end = b.end /\ approved.status = "APPROVED"
  OBVIOUS
<1>4. Checked'
  BY <1>1, <1>2, <1>3 DEF GridInv, Checked
<1>. QED
  BY <1>1, <1>4 DEF GridInv, Fixed, Told

LEMMA GridNext == GridInv /\ [Next]_vars => GridInv'
<1>. SUFFICES ASSUME GridInv, [Next]_vars PROVE GridInv'
  OBVIOUS
<1>1. ASSUME NEW from \in Instants, NEW to \in Instants, GetAgenda(from, to)
      PROVE  GridInv'
  BY <1>1, AgendaKeeps
<1>2. ASSUME NEW from \in Instants, NEW to \in Instants, Request(from, to)
      PROVE  GridInv'
  BY <1>2, RequestKeeps
<1>3. ASSUME NEW b \in bookings, Approve(b) PROVE GridInv'
  BY <1>3, ApproveKeeps
<1>4. CASE UNCHANGED vars
  BY <1>4 DEF vars, GridInv, Fixed, Checked, Told, WalkOpen, Walk, Wall, OpenAt, SlotLength,
              SlotsOf, SlotAt, Offered, Leaves, Fold, InstantOf, BookingsIn, Status
<1>. QED
  BY <1>1, <1>2, <1>3, <1>4 DEF Next

LEMMA GridInvariant == Spec => []GridInv
BY GridInit, GridNext, PTL DEF Spec

(***************************************************************************)
(* Bookings.                                                               *)
(***************************************************************************)
LEMMA OpenThroughout ==
  ASSUME resource \in Resources, zone \in Zones,
         NEW start \in Nat, NEW end \in Nat, WalkOpen(start, end),
         Steady(start, end), OnTheGrid(start), NEW i \in start..(end - 1)
  PROVE  OpenAt(Wall(i))
<1>. DEFINE L == SlotLength
            x == i - start
            q == x \div L
            r == x % L
            m == L * q
            w == Wall(start)
            c == w + m
<1>1. L \in Nat \ {0}
  BY SlotsOfADay
<1>2. x \in Nat /\ i \in Int /\ i \in start..end /\ end \in start..end /\ i < end
  OBVIOUS
<1>3. Wall(i) = w + x /\ Wall(end) = w + (end - start)
  <2>1. start \in Int /\ end \in Int
    OBVIOUS
  <2>2. Wall(i) = Wall(start) + (i - start)
    BY <1>2, <2>1, SteadyClock
  <2>3. Wall(end) = Wall(start) + (end - start)
    BY <1>2, <2>1, SteadyClock
  <2>. QED
    BY <2>2, <2>3
<1>4. w \in Int
  <2>1. zone.jump \in Int
    BY GridAssumption
  <2>. QED
    BY <2>1 DEF Wall
<1>5. x = L * q + r /\ r \in 0..(L - 1) /\ q \in Int
  <2>1. x \in Int
    BY <1>2
  <2>. HIDE DEF L, x
  <2>. QED
    BY <1>1, <2>1, Division
<1>6. x < end - start
  BY <1>2
<1>. HIDE DEF L, x, q, r, w
<1>7. q >= 0
  <2>. SUFFICES ASSUME q <= -1 PROVE FALSE
    BY <1>5
  <2>1. L * q <= -L
    BY <1>1, <1>5
  <2>. QED
    BY <1>1, <1>2, <1>5, <2>1
<1>8. m \in Nat /\ m <= x /\ x = m + r
  BY <1>1, <1>2, <1>5, <1>7
<1>9. m % L = 0
  BY <1>1, <1>5, <1>8, MultipleOf
<1>. HIDE DEF m
<1>10. c \in Int /\ c - w = m /\ w <= c /\ c < w + (end - start) /\ w + x = c + r
  BY <1>1, <1>2, <1>4, <1>5, <1>6, <1>8
<1>. HIDE DEF c
<1>11. c \in Walk(w, Wall(end))
  BY <1>1, <1>3, <1>4, <1>9, <1>10 DEF Walk, L
<1>12. OpenAt(c)
  BY <1>11 DEF WalkOpen, w
<1>13. (c % DayLength) % SlotLength = 0
  <2>1. (w % DayLength) % SlotLength = 0
    BY DEF OnTheGrid, w
  <2>2. m % SlotLength = 0 /\ c = w + m /\ m \in Int
    BY <1>8, <1>9 DEF L, c
  <2>. QED
    BY <1>4, <1>10, <2>1, <2>2, WalkOnGrid
<1>14. r \in 0..(SlotLength - 1)
  BY <1>5 DEF L
<1>15. OpenAt(c + r)
  BY <1>10, <1>12, <1>13, <1>14, OpenToTheEnd
<1>. QED
  BY <1>3, <1>10, <1>15

\* Whatever ranges are asked for: a booking lies in opening hours from its first
\* to its last moment, although request_booking looks at the first moment of
\* every slot only.
THEOREM OpenFromEndToEnd == Spec => []BookedIsOpen
<1>1. ASSUME GridInv PROVE BookedIsOpen
  <2>. SUFFICES ASSUME NEW b \in bookings, Steady(b.start, b.end), OnTheGrid(b.start),
                       NEW i \in b.start..(b.end - 1)
                PROVE  OpenAt(Wall(i))
    BY DEF BookedIsOpen
  <2>1. b.start \in Nat /\ b.end \in Nat /\ WalkOpen(b.start, b.end)
    BY <1>1 DEF GridInv, Checked
  <2>2. resource \in Resources /\ zone \in Zones
    BY <1>1 DEF GridInv, Fixed
  <2>. QED
    BY <2>1, <2>2, OpenThroughout
<1>. QED
  BY <1>1, GridInvariant, PTL
(***************************************************************************)
(* Offers.                                                                 *)
(***************************************************************************)

\* A walk between two instants has steps only if the first one is earlier: no
\* hour is repeated between them.
LEMMA WalkForward ==
  ASSUME zone \in Zones, NEW from \in Int, NEW to \in Int, ~Fold(from),
         Wall(from) < Wall(to)
  PROVE  from < to
<1>1. zone.change \in Int /\ zone.jump \in Int
  BY GridAssumption
<1>. QED
  BY <1>1 DEF Wall, Fold

\* What the agenda offers while clocks are not moved: a slot as long as it should
\* be, some slots after the beginning, which on the wall is its own time.
LEMMA OfferedSlot ==
  ASSUME resource \in Resources, zone \in Zones, NEW from \in Nat, NEW to \in Nat,
         Steady(from, to + SlotLength), NEW slot \in SlotsOf(from, to)
  PROVE  /\ slot.start \in Nat /\ slot.end = slot.start + SlotLength
         /\ from <= slot.start /\ slot.start < to
         /\ (slot.start - from) % SlotLength = 0
         /\ Wall(slot.start) = Wall(from) + (slot.start - from)
         /\ Wall(slot.end) = Wall(slot.start) + SlotLength
         /\ Offered(Wall(slot.start))
<1>. DEFINE L == SlotLength
            w == Wall(from)
            stop == to + L
<1>1. L \in Nat \ {0}
  BY SlotsOfADay
<1>2. PICK c \in Walk(Wall(from), Wall(to)) : Offered(c) /\ slot = SlotAt(c, from)
  BY DEF SlotsOf
<1>3. /\ w \in Int /\ Wall(to) \in Int
  <2>1. zone.jump \in Int
    BY GridAssumption
  <2>. QED
    BY <2>1 DEF Wall
<1>. DEFINE i == from + (c - w)
            j == i + L
<1>4. c \in Int /\ w <= c /\ c < Wall(to) /\ (c - w) % L = 0
  BY <1>2, <1>3 DEF Walk
<1>5. ~Fold(from)
  BY DEF Steady
<1>6. from < to
  BY <1>3, <1>4, <1>5, WalkForward
<1>7. from \in Int /\ to \in Int /\ stop \in Int /\ to \in from..stop
  BY <1>1, <1>6
<1>. HIDE DEF w, L
<1>8. Wall(to) = w + (to - from)
  <2>1. Steady(from, stop)
    BY DEF L
  <2>. HIDE DEF stop
  <2>. QED
    BY <1>7, <2>1, SteadyClock DEF w
<1>9. /\ i \in Int /\ j \in Int /\ from <= i /\ i < to
      /\ i \in from..stop /\ j \in from..stop /\ i - from = c - w
  BY <1>1, <1>3, <1>4, <1>7, <1>8
<1>10. /\ Wall(i) = w + (i - from) /\ InstantOf(Wall(i), FALSE) = i
       /\ Wall(j) = w + (j - from) /\ InstantOf(Wall(j), FALSE) = j
  <2>1. Steady(from, stop)
    BY DEF L
  <2>. HIDE DEF i, j, stop
  <2>. QED
    BY <1>7, <1>9, <2>1, SteadyClock DEF w
<1>11. Wall(i) = c /\ Wall(j) = c + L
  BY <1>1, <1>3, <1>4, <1>7, <1>10
<1>12. slot.start = i /\ slot.end = j
  <2>1. slot.start = InstantOf(c, FALSE) /\ slot.end = InstantOf(c + L, FALSE)
    BY <1>2, <1>5 DEF SlotAt, L
  <2>. QED
    BY <1>10, <1>11, <2>1
<1>. HIDE DEF i
<1>13. (i - from) % SlotLength = 0
  BY <1>4, <1>9 DEF L
<1>14. i \in Nat /\ Wall(j) = Wall(i) + L
  BY <1>9, <1>11
<1>. QED
  BY <1>2, <1>9, <1>10, <1>11, <1>12, <1>13, <1>14 DEF L, w

\* An offer begins on the grid if the agenda does: the slot passes both checks
\* of request_booking.
LEMMA OfferOnGrid ==
  ASSUME resource \in Resources, zone \in Zones, NEW from \in Nat, NEW to \in Nat,
         Steady(from, to + SlotLength), OnTheGrid(from), NEW slot \in SlotsOf(from, to)
  PROVE  Aligned(slot.start, slot.end) /\ WalkOpen(slot.start, slot.end)
<1>. DEFINE L == SlotLength
            s == resource.slot
            i == slot.start
            w == Wall(from)
            c == Wall(i)
            m == i - from
<1>1. /\ i \in Nat /\ slot.end = i + L /\ m % L = 0
      /\ c = w + m /\ Wall(slot.end) = c + L /\ Offered(c)
  BY OfferedSlot
<1>2. w \in Int
  <2>1. zone.jump \in Int
    BY GridAssumption
  <2>. QED
    BY <2>1 DEF Wall
<1>3. Fine \in Nat \ {0} /\ s \in Nat \ {0} /\ L \in Nat \ {0} /\ L = s * Fine
  BY SlotsOfADay
<1>4. m \in Int /\ c \in Int
  BY <1>1, <1>2
<1>. HIDE DEF w, m, c, i
<1>5. (c % DayLength) % SlotLength = 0
  <2>1. (w % DayLength) % SlotLength = 0
    BY DEF OnTheGrid, w
  <2>. QED
    BY <1>1, <1>2, <1>4, <2>1, WalkOnGrid
<1>6. OpenAt(c)
  BY <1>1 DEF Offered, OpenAt, Open
<1>7. TimeOfDay(c) % s = 0
  <2>1. PICK k \in Nat :
          \A x \in 0..(SlotLength - 1) : TimeOfDay(c + x) = s * k + (x \div Fine)
    BY <1>4, <1>5, SlotTimes
  <2>2. 0 \in 0..(SlotLength - 1) /\ c + 0 = c
    BY <1>3, <1>4
  <2>3. 0 \div Fine = 0
    <3>1. 0 = Fine * 0 + 0 /\ 0 \in 0..(Fine - 1)
      BY <1>3
    <3>. QED
      BY <1>3, <3>1, DivisionUnique
  <2>4. TimeOfDay(c) = s * k /\ s * k \in Int
    BY <1>3, <2>1, <2>2, <2>3
  <2>. DEFINE t == TimeOfDay(c)
  <2>5. t \in Int /\ \E x \in Int : t = s * x
    BY <2>4
  <2>. HIDE DEF t, s
  <2>6. t % s = 0
    BY <1>3, <2>5, MultipleOf
  <2>. QED
    BY <2>6 DEF t
<1>8. (L \div Fine) % s = 0
  <2>1. L = Fine * s + 0 /\ 0 \in 0..(Fine - 1) /\ L \in Int /\ s \in Int
    BY <1>3
  <2>. HIDE DEF L, s
  <2>2. L \div Fine = s
    BY <1>3, <2>1, DivisionUnique
  <2>3. s = s * 1 /\ 1 \in Int
    BY <1>3
  <2>4. s % s = 0
    BY <1>3, <2>1, <2>3, MultipleOf
  <2>. QED
    BY <2>2, <2>4
<1>9. slot.end - i = L
  BY <1>1, <1>3
<1>10. Aligned(slot.start, slot.end)
  BY <1>7, <1>8, <1>9 DEF Aligned, c, i
<1>11. ASSUME NEW x \in Walk(c, c + L) PROVE OpenAt(x)
  <2>. DEFINE r == x - c
  <2>1. r \in 0..(SlotLength - 1) /\ x = c + r
    BY <1>3, <1>4 DEF Walk
  <2>. HIDE DEF r
  <2>. QED
    BY <1>4, <1>5, <1>6, <2>1, OpenToTheEnd
<1>12. WalkOpen(slot.start, slot.end)
  BY <1>1, <1>11 DEF WalkOpen, c, i
<1>. QED
  BY <1>10, <1>12

\* get_agenda and request_booking agree: what the agenda offers can be requested,
\* for every schedule, time zone and range, unless clocks are moved meanwhile.
THEOREM OffersCanBeRequested == Spec => []OfferIsAccepted
<1>1. ASSUME GridInv PROVE OfferIsAccepted
  <2>. SUFFICES ASSUME answer.call = "agenda", Steady(answer.start, answer.end + SlotLength),
                       OnTheGrid(answer.start), NEW o \in offers
                PROVE  Aligned(o.start, o.end) /\ WalkOpen(o.start, o.end)
    BY DEF OfferIsAccepted
  <2>1. answer.start \in Nat /\ answer.end \in Nat
    BY <1>1 DEF GridInv, Told
  <2>2. PICK slot \in SlotsOf(answer.start, answer.end) :
          o.start = slot.start /\ o.end = slot.end
    BY <1>1 DEF GridInv, Told
  <2>3. resource \in Resources /\ zone \in Zones
    BY <1>1 DEF GridInv, Fixed
  <2>. DEFINE from == answer.start
              to == answer.end
  <2>4. /\ from \in Nat /\ to \in Nat /\ slot \in SlotsOf(from, to)
        /\ Steady(from, to + SlotLength) /\ OnTheGrid(from)
    BY <2>1
  <2>. HIDE DEF from, to
  <2>5. Aligned(slot.start, slot.end) /\ WalkOpen(slot.start, slot.end)
    BY <2>3, <2>4, OfferOnGrid
  <2>. QED
    BY <2>2, <2>5
<1>. QED
  BY <1>1, GridInvariant, PTL

\* An agenda up to the end of a slot knows every booking that overlaps one of its
\* slots: what it shows as available is free, and what it shows as pending is
\* approved for nobody.
THEOREM FreeAsShown == Spec => []AvailableIsFree
<1>1. ASSUME GridInv PROVE AvailableIsFree
  <2>. SUFFICES ASSUME answer.call = "agenda", Steady(answer.start, answer.end + SlotLength),
                       (answer.end - answer.start) % SlotLength = 0,
                       NEW o \in offers, NEW b \in BookingsIn(o.start, o.end)
                PROVE  /\ o.status # "AVAILABLE"
                       /\ b.status = "APPROVED" => o.status = "APPROVED"
    BY DEF AvailableIsFree
  <2>. DEFINE from == answer.start
              to == answer.end
              L == SlotLength
  <2>1. from \in Nat /\ to \in Nat
    BY <1>1 DEF GridInv, Told
  <2>2. PICK slot \in SlotsOf(from, to) :
          /\ o.start = slot.start /\ o.end = slot.end
          /\ o.status = Status(slot, BookingsIn(from, to))
    BY <1>1 DEF GridInv, Told
  <2>3. resource \in Resources /\ zone \in Zones
    BY <1>1 DEF GridInv, Fixed
  <2>4. /\ slot.start \in Nat /\ slot.end = slot.start + L
        /\ from <= slot.start /\ slot.start < to /\ (slot.start - from) % L = 0
    BY <2>1, <2>3, OfferedSlot
  <2>5. L \in Nat \ {0}
    BY <2>3, SlotsOfADay
  <2>6. slot.end <= to
    <3>. DEFINE m == slot.start - from
                n == to - from
    <3>1. m \in Int /\ n \in Int /\ m < n /\ m % L = 0 /\ n % L = 0
      BY <2>1, <2>4
    <3>. HIDE DEF L, m, n
    <3>2. m + L <= n
      BY <2>5, <3>1, MultiplesApart
    <3>. QED
      BY <2>1, <2>4, <2>5, <3>2 DEF m, n
  <2>7. /\ b \in bookings /\ b.start < slot.end /\ slot.start < b.end
        /\ b.start \in Nat /\ b.end \in Nat /\ b.status \in {"PENDING", "APPROVED"}
    BY <1>1, <2>2 DEF BookingsIn, GridInv, Checked
  <2>8. b \in BookingsIn(from, to)
    <3>1. b.start < to /\ from < b.end
      BY <2>1, <2>4, <2>5, <2>6, <2>7
    <3>. QED
      BY <2>7, <3>1 DEF BookingsIn
  <2>. DEFINE over == {y.status : y \in {x \in BookingsIn(from, to) :
                                           x.start < slot.end /\ slot.start < x.end}}
  <2>9. b.status \in over
    BY <2>7, <2>8
  <2>10. o.status = IF "APPROVED" \in over THEN "APPROVED"
                    ELSE IF "PENDING" \in over THEN "PENDING" ELSE "AVAILABLE"
    BY <2>2 DEF Status
  <2>. HIDE DEF over
  <2>. QED
    BY <2>7, <2>9, <2>10
<1>. QED
  BY <1>1, GridInvariant, PTL

(***************************************************************************)
(* Prices.                                                                 *)
(***************************************************************************)
LEMMA PricesAreAmounts ==
  ASSUME resource \in Resources, NEW d, NEW t
  PROVE  SlotPrice(resource.rules, resource.price, d, t) \in Nat
<1>. DEFINE rules == resource.rules
            Hits(n) == Matches(rules[n], d, t)
            Rules == [days : SUBSET Weekdays, window : [start : Nat, end : Nat],
                      price : 0..MaxCents]
<1>0. resource.price \in 0..MaxCents /\ MaxCents \in Nat
  BY GridAssumption
<1>1. rules \in Seq(Rules) /\ resource.price \in Nat
  <2>1. rules \in Seq(Rules)
    BY GridAssumption
  <2>2. resource.price \in Nat
    BY <1>0
  <2>. QED
    BY <2>1, <2>2
<1>. HIDE DEF rules, Rules
<1>2. DOMAIN rules = 1..Len(rules) /\ Len(rules) \in Nat
  BY <1>1
<1>3. \A n \in DOMAIN rules : rules[n].price \in Nat
  <2>. TAKE n \in DOMAIN rules
  <2>1. rules[n] \in Rules
    BY <1>1
  <2>2. rules[n].price \in 0..MaxCents
    BY <2>1 DEF Rules
  <2>. QED
    BY <1>0, <2>2
<1>4. ASSUME NEW k \in DOMAIN rules, Hits(k)
      PROVE  \E n \in DOMAIN rules : Hits(n) /\ \A m \in 1..(n - 1) : ~Hits(m)
  <2>. DEFINE S == 1..Len(rules)
              Bad == {1..n : n \in {m \in DOMAIN rules : Hits(m)}}
  <2>1. Bad \in SUBSET SUBSET S /\ Bad # {}
    BY <1>2, <1>4
  <2>2. IsFiniteSet(S)
    BY <1>2, FS_Interval
  <2>3. PICK T \in Bad : \A U \in Bad : U \subseteq T => U = T
    <3>. HIDE DEF Bad, S
    <3>. QED
      BY <2>1, <2>2, Smallest
  <2>4. PICK n \in DOMAIN rules : Hits(n) /\ T = 1..n
    BY <2>3
  <2>5. ASSUME NEW m \in 1..(n - 1), Hits(m) PROVE FALSE
    <3>1. m \in DOMAIN rules /\ 1..m \subseteq 1..n /\ n \in 1..n /\ n \notin 1..m
      BY <1>2, <2>4, <2>5
    <3>2. 1..m \in Bad
      BY <2>5, <3>1
    <3>. HIDE DEF Bad, Hits
    <3>. QED
      BY <2>3, <2>4, <3>1, <3>2
  <2>. QED
    BY <2>4, <2>5
<1>5. ASSUME NEW k \in DOMAIN rules, Hits(k)
      PROVE  SlotPrice(rules, resource.price, d, t) \in Nat
  <2>. DEFINE first == CHOOSE n \in DOMAIN rules : Hits(n) /\ \A m \in 1..(n - 1) : ~Hits(m)
  <2>1. first \in DOMAIN rules
    BY <1>4, <1>5
  <2>2. SlotPrice(rules, resource.price, d, t) = rules[first].price
    BY <1>5 DEF SlotPrice
  <2>. QED
    BY <1>3, <2>1, <2>2
<1>6. ASSUME ~\E n \in DOMAIN rules : Hits(n)
      PROVE  SlotPrice(rules, resource.price, d, t) \in Nat
  BY <1>1, <1>6 DEF SlotPrice
<1>. QED
  BY <1>5, <1>6 DEF rules

LEMMA WalkFinite ==
  ASSUME NEW start \in Int, NEW end \in Int PROVE IsFiniteSet(Walk(start, end))
<1>1. IsFiniteSet(start..(end - 1))
  BY FS_Interval
<1>2. Walk(start, end) \in SUBSET (start..(end - 1))
  BY DEF Walk
<1>. QED
  BY <1>1, <1>2, FS_Subset

Prices == [i \in Int |-> PriceAt(Wall(i))]

\* compute_price adds up the prices of the instants it walks through.
LEMMA PriceIsSum ==
  ASSUME NEW start \in Int, NEW end \in Int
  PROVE  \E g : Adds(g, Prices, Walk(start, end)) /\ Price(start, end) = g[Walk(start, end)]
<1>. DEFINE W == Walk(start, end)
            g == CHOOSE h : h = [s \in SUBSET W |->
                                   IF s = {} THEN 0
                                   ELSE LET x == CHOOSE x \in s : TRUE
                                        IN  PriceAt(Wall(x)) + h[s \ {x}]]
<1>1. Price(start, end) = g[W]
  BY DEF Price, MapThenSumSet, MapThenFoldSet
<1>2. PICK h : IsSum(h, Prices, W)
  <2>1. IsFiniteSet(W)
    BY WalkFinite
  <2>. HIDE DEF W
  <2>. QED
    BY <2>1, SumExists
<1>3. W \subseteq Int
  BY DEF Walk
<1>. HIDE DEF W
<1>4. \A s \in SUBSET W : s # {} => Prices[One(s)] = PriceAt(Wall(One(s)))
  <2>. TAKE s \in SUBSET W
  <2>. HAVE s # {}
  <2>1. One(s) \in Int
    BY <1>3, OneOf
  <2>. QED
    BY <2>1 DEF Prices
<1>5. h = [s \in SUBSET W |-> IF s = {} THEN 0 ELSE PriceAt(Wall(One(s))) + h[s \ {One(s)}]]
  BY <1>2, <1>4 DEF IsSum
<1>6. g = [s \in SUBSET W |-> IF s = {} THEN 0 ELSE PriceAt(Wall(One(s))) + g[s \ {One(s)}]]
  BY <1>5 DEF One
<1>. HIDE DEF g
<1>7. Adds(g, Prices, W)
  BY <1>4, <1>6 DEF Adds
<1>. QED
  BY <1>1, <1>7 DEF W

\* A walk within another one costs no more.
LEMMA PartCostsLess ==
  ASSUME resource \in Resources,
         NEW start \in Int, NEW end \in Int, NEW first \in Int, NEW last \in Int,
         Walk(first, last) \subseteq Walk(start, end)
  PROVE  /\ Price(first, last) <= Price(start, end)
         /\ Price(first, last) \in Int /\ Price(start, end) \in Int
<1>. DEFINE S == Walk(start, end)
            T == Walk(first, last)
<1>1. IsFiniteSet(S) /\ IsFiniteSet(T) /\ T \in SUBSET S
  BY WalkFinite
<1>2. \A i \in S : Prices[i] \in Nat
  <2>. TAKE i \in S
  <2>1. i \in Int
    BY DEF Walk
  <2>2. PriceAt(Wall(i)) \in Nat
    BY PricesAreAmounts DEF PriceAt
  <2>. QED
    BY <2>1, <2>2 DEF Prices
<1>3. PICK g : Adds(g, Prices, S) /\ Price(start, end) = g[S]
  BY PriceIsSum
<1>4. PICK h : Adds(h, Prices, T) /\ Price(first, last) = h[T]
  BY PriceIsSum
<1>. HIDE DEF S, T
<1>5. \A i \in S : Prices[i] \in Int
  BY <1>2
<1>6. h[T] = g[T]
  BY <1>1, <1>3, <1>4, SumsAgree
<1>7. g[T] <= g[S]
  BY <1>1, <1>2, <1>3, SumsGrow
<1>8. g[T] \in Int /\ g[S] \in Int
  BY <1>1, <1>3, <1>5, SumOfParts
<1>. QED
  BY <1>3, <1>4, <1>6, <1>7, <1>8

\* Slots and prices are those of the resource and of its time zone.
LEMMA SameGridSameSlots ==
  ASSUME resource' = resource, zone' = zone
  PROVE  /\ \A from, to : Price(from, to)' = Price(from, to)
         /\ \A from, to : SlotsOf(from, to)' = SlotsOf(from, to)
         /\ \A slot : Computable(slot)' = Computable(slot)
<1>1. \A w : PriceAt(w)' = PriceAt(w)
  BY DEF PriceAt
<1>2. \A i : Wall(i)' = Wall(i)
  BY DEF Wall
<1>3. \A from, to : Walk(from, to)' = Walk(from, to)
  BY DEF Walk, SlotLength
<1>4. ASSUME NEW from, NEW to PROVE Price(from, to)' = Price(from, to)
  BY <1>1, <1>2, <1>3 DEF Price, MapThenSumSet, MapThenFoldSet
<1>5. \A from, to : SlotsOf(from, to)' = SlotsOf(from, to)
  BY DEF SlotsOf, SlotAt, Walk, Offered, Leaves, Wall, Fold, InstantOf, SlotLength
<1>6. \A slot : Computable(slot)' = Computable(slot)
  BY <1>4 DEF Computable
<1>. QED
  BY <1>4, <1>5, <1>6

\* Why a handler crashed: a slot of the agenda, or the range that was requested,
\* has no price.
Blamed ==
  answer.outcome = "crashed" =>
    /\ answer.start \in Nat /\ answer.end \in Nat
    /\ \/ \E slot \in SlotsOf(answer.start, answer.end) : ~Computable(slot)
       \/ ~MoneyAccepted(Price(answer.start, answer.end))

LEMMA BlamedNext ==
  ASSUME Blamed, [Next]_vars PROVE Blamed'
<1>. DEFINE SameGrid == resource' = resource /\ zone' = zone
<1>0. ASSUME SameGrid
      PROVE  /\ \A from, to : Price(from, to)' = Price(from, to)
             /\ \A from, to : SlotsOf(from, to)' = SlotsOf(from, to)
             /\ \A slot : Computable(slot)' = Computable(slot)
  BY <1>0, SameGridSameSlots
<1>1. ASSUME NEW from \in Instants, NEW to \in Instants, GetAgenda(from, to)
      PROVE  Blamed'
  <2>1. /\ answer'.start = from /\ answer'.end = to /\ SameGrid
        /\ answer'.outcome = "crashed" => \E slot \in SlotsOf(from, to) : ~Computable(slot)
    BY <1>1 DEF GetAgenda
  <2>2. from \in Nat /\ to \in Nat
    BY GridAssumption
  <2>. QED
    BY <1>0, <2>1, <2>2 DEF Blamed
<1>2. ASSUME NEW from \in Instants, NEW to \in Instants, Request(from, to)
      PROVE  Blamed'
  <2>1. /\ answer'.start = from /\ answer'.end = to /\ SameGrid
        /\ answer'.outcome = "crashed" => ~MoneyAccepted(Price(from, to))
    BY <1>2 DEF Request
  <2>2. from \in Nat /\ to \in Nat
    BY GridAssumption
  <2>. QED
    BY <1>0, <2>1, <2>2 DEF Blamed, MoneyAccepted
<1>3. ASSUME NEW b \in bookings, Approve(b) PROVE Blamed'
  BY <1>3 DEF Approve, Blamed
<1>4. CASE UNCHANGED vars
  <2>1. SameGrid /\ answer' = answer
    BY <1>4 DEF vars
  <2>. QED
    BY <1>0, <2>1 DEF Blamed, MoneyAccepted
<1>. QED
  BY <1>1, <1>2, <1>3, <1>4 DEF Next

\* The handlers take .value of DateTimeRange.create and Money.create unseen: while
\* clocks are not moved, a range always is one, so that nothing but a price above
\* the maximum makes them fail.
THEOREM CrashesAreExplained == Spec => []CrashNeedsClockChange
<1>1. Init => Blamed
  BY DEF Init, Blamed
<1>2. Blamed /\ [Next]_vars => Blamed'
  BY BlamedNext
<1>3. ASSUME GridInv, Blamed PROVE CrashNeedsClockChange
  <2>. DEFINE from == answer.start
              to == answer.end
              L == SlotLength
  <2>. SUFFICES ASSUME answer.outcome = "crashed", Steady(from, to + L)
                PROVE  Price(from, to + L) > MaxCents
    BY DEF CrashNeedsClockChange
  <2>1. resource \in Resources /\ zone \in Zones
    BY <1>3 DEF GridInv, Fixed
  <2>2. L \in Nat \ {0}
    BY <2>1, SlotsOfADay
  <2>3. from \in Nat /\ to \in Nat
    BY <1>3 DEF Blamed
  <2>4. MaxCents \in Nat
    BY GridAssumption
  <2>5. CASE \E slot \in SlotsOf(from, to) : ~Computable(slot)
    <3>1. PICK slot \in SlotsOf(from, to) : ~Computable(slot)
      BY <2>5
    <3>2. /\ slot.start \in Nat /\ slot.end = slot.start + L
          /\ from <= slot.start /\ slot.start < to /\ (slot.start - from) % L = 0
      <4>. HIDE DEF from, to
      <4>. QED
        BY <2>1, <2>3, OfferedSlot
    <3>. DEFINE first == slot.start
                last == slot.end
    <3>. HIDE DEF from, to, L, first, last
    <3>3. /\ first \in Int /\ last \in Int /\ first < last /\ last <= to + L
          /\ from <= first
      BY <2>2, <2>3, <3>2 DEF first, last
    <3>4. Walk(first, last) \subseteq Walk(from, to + L)
      <4>. SUFFICES ASSUME NEW c \in Walk(first, last) PROVE c \in Walk(from, to + L)
        OBVIOUS
      <4>1. c \in Int /\ first <= c /\ c < last /\ (c - first) % L = 0
        BY <3>3 DEF Walk, L
      <4>. DEFINE m == c - first
                  n == first - from
                  k == c - from
      <4>2. m \in Int /\ n \in Int /\ k \in Int /\ k = m + n /\ m % L = 0 /\ n % L = 0
        BY <2>3, <3>2, <3>3, <4>1 DEF first
      <4>. HIDE DEF m, n, k
      <4>3. k % L = 0
        BY <2>2, <4>2, SumOfMultiples
      <4>4. c \in from..((to + L) - 1)
        BY <2>2, <2>3, <3>3, <4>1
      <4>5. (c - from) % SlotLength = 0
        BY <4>3 DEF k, L
      <4>. QED
        BY <4>4, <4>5 DEF Walk
    <3>5. ~MoneyAccepted(Price(first, last))
      BY <3>1, <3>3 DEF Computable, RangeAccepted, first, last
    <3>6. to + L \in Int /\ from \in Int
      BY <2>2, <2>3
    <3>7. /\ Price(first, last) <= Price(from, to + L)
          /\ Price(first, last) \in Int /\ Price(from, to + L) \in Int
      BY <2>1, <3>3, <3>4, <3>6, PartCostsLess
    <3>. QED
      BY <2>4, <3>5, <3>7 DEF MoneyAccepted
  <2>6. CASE ~MoneyAccepted(Price(from, to))
    <3>. HIDE DEF from, to, L
    <3>1. Walk(from, to) \subseteq Walk(from, to + L)
      BY <2>2, <2>3 DEF Walk
    <3>2. to + L \in Int /\ from \in Int /\ to \in Int
      BY <2>2, <2>3
    <3>3. /\ Price(from, to) <= Price(from, to + L)
          /\ Price(from, to) \in Int /\ Price(from, to + L) \in Int
      BY <2>1, <3>1, <3>2, PartCostsLess
    <3>. QED
      BY <2>4, <2>6, <3>3 DEF MoneyAccepted
  <2>. QED
    BY <1>3, <2>5, <2>6 DEF Blamed
<1>. QED
  BY <1>1, <1>2, <1>3, GridInvariant, PTL DEF Spec

(***************************************************************************)
(* Ranges of slots.                                                        *)
(***************************************************************************)

\* The last number of a finite set of them.
LEMMA LastOne ==
  ASSUME NEW n \in Nat, NEW K \in SUBSET (0..n), K # {}
  PROVE  \E k \in K : \A j \in K : j <= k
<1>. DEFINE S == 0..n
            Bad == {k..n : k \in K}
<1>1. IsFiniteSet(S)
  BY FS_Interval
<1>2. Bad \in SUBSET SUBSET S /\ Bad # {}
  <2>1. \A k \in K : k..n \in SUBSET S
    OBVIOUS
  <2>2. Bad \subseteq SUBSET S
    <3>. HIDE DEF S
    <3>. QED
      BY <2>1
  <2>3. PICK k \in K : TRUE
    OBVIOUS
  <2>4. k..n \in Bad
    OBVIOUS
  <2>. HIDE DEF Bad, S
  <2>. QED
    BY <2>2, <2>4
<1>3. PICK T \in Bad : \A U \in Bad : U \subseteq T => U = T
  <2>. HIDE DEF Bad, S
  <2>. QED
    BY <1>1, <1>2, Smallest
<1>4. PICK k \in K : T = k..n
  <2>. HIDE DEF S
  <2>. QED
    BY <1>3
<1>5. ASSUME NEW j \in K, j > k PROVE FALSE
  <2>1. j..n \in Bad /\ j..n \subseteq k..n /\ k \in k..n /\ k \notin j..n
    BY <1>5
  <2>. HIDE DEF Bad
  <2>. QED
    BY <1>3, <1>4, <2>1
<1>. QED
  BY <1>5

\* Ranges within from..to that do not overlap, none shorter than a slot, as many
\* as there are slots between: they are these slots.
Ranges(X) ==
  \A o \in X : o.start \in Int /\ o.end \in Int

Apart(X) ==
  \A o, p \in X : o = p \/ o.end <= p.start \/ p.end <= o.start

LEMMA RangesTile ==
  ASSUME NEW L \in Nat \ {0}, NEW n \in Nat, NEW from \in Int, NEW to \in Int,
         to = from + n * L, NEW X, IsFiniteSet(X), Cardinality(X) = n,
         Ranges(X), Apart(X),
         \A o \in X : from <= o.start /\ o.end <= to /\ o.start + L <= o.end
  PROVE  /\ \A o \in X : /\ o.start \in from..(to - 1) /\ (o.start - from) % L = 0
                         /\ o.end = o.start + L
         /\ \A o, p \in X : o.start = p.start => o = p
         /\ \A c \in from..(to - 1) : (c - from) % L = 0 => \E o \in X : o.start = c
<1>. DEFINE Place(o) == (o.start - from) \div L
            f == [o \in X |-> Place(o)]
<1>1. ASSUME NEW o \in X
      PROVE  /\ Place(o) \in 0..(n - 1)
             /\ from + L * Place(o) <= o.start /\ o.start < from + L * Place(o) + L
  <2>. DEFINE x == o.start - from
              q == x \div L
              r == x % L
  <2>1. o.start \in Int /\ o.end \in Int /\ from <= o.start /\ o.end <= to /\ o.start + L <= o.end
    BY DEF Ranges
  <2>2. x \in Int /\ 0 <= x /\ x + L <= n * L /\ o.start = from + x
    BY <2>1
  <2>3. x = L * q + r /\ r \in 0..(L - 1) /\ q \in Int
    <3>. HIDE DEF x
    <3>. QED
      BY <2>2, Division
  <2>. HIDE DEF x, q, r
  <2>4. q >= 0
    <3>. SUFFICES ASSUME q <= -1 PROVE FALSE
      BY <2>3
    <3>1. L * q <= -L
      BY <2>3
    <3>. QED
      BY <2>2, <2>3, <3>1
  <2>5. q < n
    <3>. SUFFICES ASSUME q >= n PROVE FALSE
      BY <2>3
    <3>1. L * q >= n * L
      BY <2>3
    <3>. QED
      BY <2>2, <2>3, <3>1
  <2>6. from + L * q <= o.start /\ o.start < from + L * q + L
    BY <2>2, <2>3
  <2>7. Place(o) = q
    BY DEF q, x
  <2>. QED
    BY <2>3, <2>4, <2>5, <2>6, <2>7
<1>2. ASSUME NEW o \in X, NEW p \in X, o.end <= p.start
      PROVE  Place(o) < Place(p)
  <2>. DEFINE j == Place(o)
              k == Place(p)
  <2>1. /\ o.start \in Int /\ o.end \in Int /\ p.start \in Int /\ o.start + L <= o.end
    BY DEF Ranges
  <2>2. /\ j \in Int /\ k \in Int
        /\ from + L * j <= o.start /\ p.start < from + L * k + L
    BY <1>1
  <2>. HIDE DEF j, k
  <2>3. L * j < L * k
    BY <1>2, <2>1, <2>2
  <2>4. j < k
    BY <2>2, <2>3
  <2>. QED
    BY <2>4 DEF j, k
<1>. HIDE DEF Place
<1>3. \A o, p \in X : Place(o) = Place(p) => o = p
  BY <1>1, <1>2 DEF Apart
<1>4. \A k \in 0..(n - 1) : \E o \in X : Place(o) = k
  <2>1. f \in Injection(X, 0..(n - 1))
    BY <1>1, <1>3 DEF Injection, IsInjective
  <2>2. IsFiniteSet(0..(n - 1)) /\ Cardinality(0..(n - 1)) = n
    BY FS_Interval
  <2>3. f \in Surjection(X, 0..(n - 1))
    <3>. HIDE DEF f
    <3>. QED
      BY <2>1, <2>2, FS_Injection
  <2>. QED
    BY <2>3 DEF Surjection
<1>. DEFINE Late == {Place(o) : o \in {x \in X : x.end > from + L * Place(x) + L}}
<1>5. Late = {}
  <2>. SUFFICES ASSUME Late # {} PROVE FALSE
    OBVIOUS
  <2>1. Late \in SUBSET (0..n)
    BY <1>1
  <2>2. PICK k \in Late : \A j \in Late : j <= k
    <3>. HIDE DEF Late
    <3>. QED
      BY <2>1, LastOne
  <2>3. PICK o \in X : o.end > from + L * Place(o) + L /\ Place(o) = k
    BY <2>2
  <2>4. o.start \in Int /\ o.end \in Int /\ o.end <= to /\ k \in 0..(n - 1)
    BY <1>1, <2>3 DEF Ranges
  <2>5. CASE k = n - 1
    <3>1. from + L * k + L = to
      BY <2>4, <2>5
    <3>. QED
      BY <2>3, <2>4, <3>1
  <2>6. CASE k # n - 1
    <3>1. k + 1 \in 0..(n - 1)
      BY <2>4, <2>6
    <3>2. PICK p \in X : Place(p) = k + 1
      BY <1>4, <3>1
    <3>3. p.start \in Int /\ p.end \in Int /\ p.start + L <= p.end
      BY DEF Ranges
    <3>4. o # p /\ ~(p.end <= o.start)
      BY <1>2, <2>3, <2>4, <3>2
    <3>5. o.end <= p.start
      BY <3>4 DEF Apart
    <3>6. p.end > from + L * k + L + L
      BY <2>3, <2>4, <3>3, <3>5
    <3>7. p.end > from + L * Place(p) + L
      <4>1. L * (k + 1) = L * k + L
        BY <2>4
      <4>. QED
        BY <2>4, <3>2, <3>3, <3>6, <4>1
    <3>8. k + 1 \in Late
      BY <3>2, <3>7
    <3>. HIDE DEF Late
    <3>. QED
      BY <2>2, <2>4, <3>8
  <2>. QED
    BY <2>5, <2>6
<1>6. ASSUME NEW o \in X
      PROVE  o.start = from + L * Place(o) /\ o.end = o.start + L
  <2>1. ~(o.end > from + L * Place(o) + L)
    BY <1>5
  <2>2. o.start \in Int /\ o.end \in Int /\ o.start + L <= o.end /\ Place(o) \in Int
    BY <1>1 DEF Ranges
  <2>. DEFINE y == L * Place(o)
  <2>3. y \in Int
    BY <2>2
  <2>4. from + y <= o.start /\ ~(o.end > from + y + L)
    BY <1>1, <2>1
  <2>. HIDE DEF y
  <2>5. o.start = from + y /\ o.end = o.start + L
    BY <2>2, <2>3, <2>4
  <2>. QED
    BY <2>5 DEF y
<1>7. ASSUME NEW o \in X
      PROVE  o.start \in from..(to - 1) /\ (o.start - from) % L = 0
  <2>. DEFINE x == o.start - from
  <2>1. o.start \in Int /\ Place(o) \in Int /\ from <= o.start /\ o.start + L <= to
    BY <1>1, <1>6 DEF Ranges
  <2>2. x \in Int /\ x = L * Place(o)
    BY <1>6, <2>1
  <2>. HIDE DEF x
  <2>3. x % L = 0
    BY <2>1, <2>2, MultipleOf
  <2>. QED
    BY <2>1, <2>3 DEF x
<1>8. \A o, p \in X : o.start = p.start => o = p
  <2>. SUFFICES ASSUME NEW o \in X, NEW p \in X, o.start = p.start PROVE o = p
    OBVIOUS
  <2>1. Place(o) = Place(p)
    BY DEF Place
  <2>. QED
    BY <1>3, <2>1
<1>9. ASSUME NEW c \in from..(to - 1), (c - from) % L = 0
      PROVE  \E o \in X : o.start = c
  <2>. DEFINE x == c - from
  <2>1. x \in Int /\ 0 <= x /\ x < n * L /\ x % L = 0 /\ c = from + x
    BY <1>9
  <2>. HIDE DEF x
  <2>2. PICK k \in Int : x = L * k
    BY <2>1, MultipleOf
  <2>3. k >= 0
    <3>. SUFFICES ASSUME k <= -1 PROVE FALSE
      OBVIOUS
    <3>1. L * k <= -L
      OBVIOUS
    <3>. QED
      BY <2>1, <2>2, <3>1
  <2>4. k < n
    <3>. SUFFICES ASSUME k >= n PROVE FALSE
      OBVIOUS
    <3>1. L * k >= n * L
      OBVIOUS
    <3>. QED
      BY <2>1, <2>2, <3>1
  <2>5. PICK o \in X : Place(o) = k
    BY <1>4, <2>3, <2>4
  <2>. QED
    BY <1>6, <2>1, <2>2, <2>5
<1>. QED
  BY <1>6, <1>7, <1>8, <1>9

\* A slot of the agenda with a first and a last moment: where it is read off the
\* wall, and how long it is unless clocks are moved forward.
LEMMA SlotShape ==
  ASSUME resource \in Resources, zone \in Zones, NEW from \in Nat, NEW to \in Nat,
         NEW slot \in SlotsOf(from, to), slot.start < slot.end
  PROVE  /\ slot.start \in Int /\ slot.end \in Int
         /\ zone.jump <= 0 => slot.start + SlotLength <= slot.end
         /\ zone.jump > 0 =>
              \E c \in Int : /\ (c - Wall(from)) % SlotLength = 0
                             /\ slot.start = InstantOf(c, FALSE)
                             /\ slot.end = InstantOf(c + SlotLength, FALSE)
<1>. DEFINE L == SlotLength
            H == zone.change
            J == zone.jump
<1>1. L \in Nat \ {0}
  BY SlotsOfADay
<1>2. H \in Int /\ J \in Int
  BY GridAssumption
<1>3. PICK c \in Walk(Wall(from), Wall(to)) : slot = SlotAt(c, from)
  BY DEF SlotsOf
<1>4. Wall(from) \in Int /\ Wall(to) \in Int
  BY <1>2 DEF Wall
<1>5. c \in Int /\ (c - Wall(from)) % L = 0
  BY <1>3, <1>4 DEF Walk
<1>6. slot.start = InstantOf(c, c = Wall(from) /\ Fold(from))
  BY <1>3 DEF SlotAt
<1>7. slot.end = InstantOf(c + L, FALSE)
  BY <1>3 DEF SlotAt
<1>. HIDE DEF L
<1>8. c + L \in Int
  BY <1>1, <1>5
<1>9. slot.start \in Int /\ slot.end \in Int
  BY <1>2, <1>5, <1>6, <1>7, <1>8 DEF InstantOf
<1>10. slot.end = IF c + L < H \/ c + L < H + J THEN c + L ELSE (c + L) - J
  BY <1>7 DEF InstantOf
<1>11. CASE c = Wall(from) /\ Fold(from)
  <2>1. slot.start = IF c < H + J THEN c ELSE c - J
    BY <1>6, <1>11 DEF InstantOf
  <2>2. H <= from /\ c = from + J /\ c < H
    BY <1>2, <1>11 DEF Fold, Wall
  <2>. HIDE DEF H, J
  <2>3. J < 0 /\ slot.start = c - J
    BY <1>2, <1>5, <2>1, <2>2
  <2>4. slot.start + L <= slot.end
    BY <1>1, <1>2, <1>5, <1>10, <2>2, <2>3
  <2>5. ~(zone.jump > 0)
    <3>1. ~(J > 0)
      BY <1>2, <2>3
    <3>. QED
      BY <3>1 DEF J
  <2>. QED
    BY <1>9, <2>4, <2>5 DEF L
<1>12. CASE ~(c = Wall(from) /\ Fold(from))
  <2>1. slot.start = InstantOf(c, FALSE)
    BY <1>6, <1>12
  <2>2. slot.start = IF c < H \/ c < H + J THEN c ELSE c - J
    BY <2>1 DEF InstantOf
  <2>. HIDE DEF H, J
  <2>3. J <= 0 => slot.start + L <= slot.end
    BY <1>1, <1>2, <1>5, <1>10, <2>2
  <2>. QED
    BY <1>5, <1>7, <1>9, <2>1, <2>3 DEF L, J
<1>. QED
  BY <1>11, <1>12

\* Between slots as far apart as whole slots are, none is shortened by the clock.
LEMMA LongSlots ==
  ASSUME resource \in Resources, zone \in Zones, NEW from \in Nat, NEW to \in Nat,
         NEW x \in SlotsOf(from, to), NEW y \in SlotsOf(from, to),
         NEW o \in SlotsOf(from, to),
         x.start < x.end, y.start < y.end, o.start < o.end,
         x.start <= o.start, o.end <= y.end, (y.end - x.start) % SlotLength = 0
  PROVE  o.start + SlotLength <= o.end
<1>. DEFINE L == SlotLength
            J == zone.jump
            w == Wall(from)
            E == zone.change + J
<1>1. L \in Nat \ {0}
  BY SlotsOfADay
<1>2. J \in Int /\ E \in Int /\ w \in Int
  <2>1. zone.change \in Int /\ zone.jump \in Int
    BY GridAssumption
  <2>. QED
    BY <2>1 DEF Wall
<1>3. CASE J <= 0
  BY <1>3, SlotShape
<1>4. CASE J > 0
  <2>1. PICK a \in Int : (a - w) % L = 0 /\ x.start = InstantOf(a, FALSE)
    BY <1>4, SlotShape
  <2>2. PICK b \in Int : (b - w) % L = 0 /\ y.end = InstantOf(b + L, FALSE)
    BY <1>4, SlotShape
  <2>3. PICK c \in Int : /\ (c - w) % L = 0 /\ o.start = InstantOf(c, FALSE)
                         /\ o.end = InstantOf(c + L, FALSE)
    BY <1>4, SlotShape
  <2>4. \A i \in Int : InstantOf(i, FALSE) = IF i < E THEN i ELSE i - J
    <3>1. zone.change \in Int
      BY GridAssumption
    <3>. QED
      BY <1>2, <1>4, <3>1 DEF InstantOf
  <2>5. a + L \in Int /\ b + L \in Int /\ c + L \in Int
    BY <1>1
  <2>6. /\ x.start = IF a < E THEN a ELSE a - J
        /\ y.end = IF b + L < E THEN b + L ELSE (b + L) - J
        /\ o.start = IF c < E THEN c ELSE c - J
        /\ o.end = IF c + L < E THEN c + L ELSE (c + L) - J
    BY <2>1, <2>2, <2>3, <2>4, <2>5
  <2>. DEFINE s == x.start
              e == y.end
              p == o.start
              q == o.end
  <2>7. p < q /\ s <= p /\ q <= e
    OBVIOUS
  <2>8. (e - s) % L = 0
    OBVIOUS
  <2>. DEFINE u == a - w
              v == b - w
              z == c - w
  <2>9. /\ u \in Int /\ v \in Int /\ z \in Int
        /\ a = w + u /\ b = w + v /\ c = w + z
        /\ u % L = 0 /\ v % L = 0 /\ z % L = 0
    BY <1>2, <2>1, <2>2, <2>3
  <2>10. /\ s = IF a < E THEN a ELSE a - J
         /\ e = IF b + L < E THEN b + L ELSE (b + L) - J
         /\ p = IF c < E THEN c ELSE c - J
         /\ q = IF c + L < E THEN c + L ELSE (c + L) - J
    BY <2>6
  <2>. SUFFICES p + L <= q
    OBVIOUS
  <2>. HIDE DEF L, J, w, E, s, e, p, q, u, v, z
  <2>. SUFFICES ASSUME ~(p + L <= q) PROVE FALSE
    OBVIOUS
  <2>11. c < E /\ E <= c + L /\ p = c /\ q = (c + L) - J /\ J < L
    BY <1>1, <1>2, <1>4, <2>7, <2>10
  <2>12. a < E
    <3>. SUFFICES ASSUME E <= a PROVE FALSE
      BY <1>2
    <3>1. z < u
      BY <1>2, <2>9, <2>11
    <3>2. z + L <= u
      BY <1>1, <2>9, <3>1, MultiplesApart
    <3>3. s = a - J
      BY <1>2, <2>10
    <3>. QED
      BY <1>1, <1>2, <2>7, <2>9, <2>11, <3>2, <3>3
  <2>13. ~(b + L < E)
    <3>. SUFFICES ASSUME b + L < E PROVE FALSE
      OBVIOUS
    <3>1. v < z
      BY <1>1, <1>2, <2>9, <2>11
    <3>2. v + L <= z
      BY <1>1, <2>9, <3>1, MultiplesApart
    <3>3. e = b + L
      BY <2>10
    <3>. QED
      BY <1>1, <1>2, <2>7, <2>9, <2>11, <3>2, <3>3
  <2>14. s = a /\ e = (b + L) - J
    BY <2>10, <2>12, <2>13
  <2>15. PICK i \in Int : u = L * i
    BY <1>1, <2>9, MultipleOf
  <2>16. PICK j \in Int : v = L * j
    BY <1>1, <2>9, MultipleOf
  <2>17. PICK k \in Int : e - s = L * k
    <3>1. e - s \in Int
      BY <1>1, <1>2, <2>14
    <3>. QED
      BY <1>1, <2>8, <3>1, MultipleOf
  <2>18. J = L * ((j - i) + (1 - k))
    <3>. DEFINE A == L * i
                B == L * j
                C == L * k
    <3>1. A \in Int /\ B \in Int /\ C \in Int
      BY <1>1
    <3>2. u = A /\ v = B /\ e - s = C
      BY <2>15, <2>16, <2>17
    <3>3. L * ((j - i) + (1 - k)) = (B - A) + (L - C)
      BY <1>1
    <3>. HIDE DEF A, B, C
    <3>4. J = (B - A) + (L - C)
      BY <1>1, <1>2, <2>9, <2>14, <3>1, <3>2
    <3>. QED
      BY <3>3, <3>4
  <2>19. J % L = 0
    <3>1. (j - i) + (1 - k) \in Int
      OBVIOUS
    <3>. QED
      BY <1>1, <1>2, <2>18, <3>1, MultipleOf
  <2>20. 0 % L = 0
    BY <1>1
  <2>21. 0 + L <= J
    BY <1>1, <1>2, <1>4, <2>19, <2>20, MultiplesApart
  <2>. QED
    BY <1>1, <1>2, <2>11, <2>21
<1>. QED
  BY <1>2, <1>3, <1>4

\* The price of a slot is the price of its first moment.
LEMMA SinglePrice ==
  ASSUME resource \in Resources, NEW s \in Int, NEW e \in Int, e = s + SlotLength
  PROVE  Price(s, e) = Prices[s]
<1>. DEFINE L == SlotLength
            W == Walk(s, e)
<1>1. L \in Nat \ {0}
  BY SlotsOfADay
<1>2. W = {s}
  <2>1. ASSUME NEW c \in W PROVE c = s
    <3>. DEFINE x == c - s
    <3>1. x \in Int /\ 0 <= x /\ x < L /\ x % L = 0 /\ c = s + x
      BY <1>1 DEF Walk
    <3>2. x = L * 0 + x /\ x \in 0..(L - 1)
      BY <1>1, <3>1
    <3>. HIDE DEF x, L
    <3>3. x % L = x
      BY <1>1, <3>1, <3>2, DivisionUnique
    <3>. QED
      BY <3>1, <3>3
  <2>2. s \in W
    <3>1. (s - s) % L = 0
      BY <1>1
    <3>2. s \in s..(e - 1)
      BY <1>1
    <3>. QED
      BY <3>1, <3>2 DEF Walk
  <2>. HIDE DEF W
  <2>. QED
    BY <2>1, <2>2
<1>3. PICK g : Adds(g, Prices, W) /\ Price(s, e) = g[W]
  BY PriceIsSum
<1>4. Prices[s] \in Int
  <2>1. PriceAt(Wall(s)) \in Nat
    BY PricesAreAmounts DEF PriceAt
  <2>. QED
    BY <2>1 DEF Prices
<1>. HIDE DEF W
<1>5. IsFiniteSet({s})
  BY FS_Singleton
<1>6. Adds(g, Prices, {s})
  BY <1>2, <1>3
<1>. DEFINE S == {s}
            F == Prices
<1>7. S \in SUBSET S /\ s \in S
  OBVIOUS
<1>8. IsFiniteSet(S) /\ Adds(g, F, S) /\ \A x \in S : F[x] \in Int
  BY <1>4, <1>5, <1>6
<1>9. S \ {s} = {}
  OBVIOUS
<1>. HIDE DEF S, F
<1>10. /\ g[{}] = 0
       /\ \A T \in SUBSET S : g[T] \in Int
       /\ \A T \in SUBSET S : \A x \in T : g[T] = F[x] + g[T \ {x}]
  BY <1>8, SumOfParts
<1>11. g[S] = F[s] + 0
  BY <1>7, <1>9, <1>10
<1>. QED
  BY <1>2, <1>3, <1>4, <1>11 DEF S, F

\* A sum has the same value over other names of the same terms.
LEMMA SumRenamed ==
  ASSUME NEW S, IsFiniteSet(S), NEW T, IsFiniteSet(T), NEW b \in Bijection(S, T),
         NEW F, \A x \in S : F[x] \in Int, NEW G, \A x \in S : G[b[x]] = F[x],
         NEW g, Adds(g, F, S), NEW h, Adds(h, G, T)
  PROVE  g[S] = h[T]
<1>1. /\ \A x \in S : b[x] \in T
      /\ \A x, y \in S : b[x] = b[y] => x = y
      /\ \A t \in T : \E x \in S : b[x] = t
  BY DEF Bijection, Injection, Surjection, IsInjective
<1>2. \A t \in T : G[t] \in Int
  BY <1>1
<1>3. g[{}] = 0 /\ \A U \in SUBSET S : \A x \in U : g[U] = F[x] + g[U \ {x}]
  BY SumOfParts
<1>4. h[{}] = 0 /\ \A V \in SUBSET T : \A t \in V : h[V] = G[t] + h[V \ {t}]
  <2>1. IsFiniteSet(T) /\ Adds(h, G, T)
    OBVIOUS
  <2>2. /\ h[{}] = 0
        /\ \A U \in SUBSET T : h[U] \in Int
        /\ \A U \in SUBSET T : \A x \in U : h[U] = G[x] + h[U \ {x}]
    BY ONLY <1>2, <2>1, SumOfParts
  <2>. QED
    BY <2>2
<1>. DEFINE Names(U) == {b[x] : x \in U}
            Bad == {U \in SUBSET S : g[U] # h[Names(U)]}
<1>5. Bad = {}
  <2>. SUFFICES ASSUME Bad # {} PROVE FALSE
    OBVIOUS
  <2>1. PICK U \in Bad : \A V \in Bad : V \subseteq U => V = U
    <3>1. Bad \in SUBSET SUBSET S
      OBVIOUS
    <3>. HIDE DEF Bad
    <3>. QED
      BY <3>1, Smallest
  <2>2. U # {}
    <3>1. Names({}) = {}
      OBVIOUS
    <3>2. g[{}] = h[Names({})]
      BY <1>3, <1>4, <3>1
    <3>. QED
      BY <2>1, <3>2
  <2>3. PICK x \in U : TRUE
    BY <2>2
  <2>. DEFINE V == U \ {x}
              t == b[x]
  <2>4. U \in SUBSET S /\ V \in SUBSET S /\ V # U /\ V \subseteq U /\ x \in S
    BY <2>1, <2>3
  <2>5. g[V] = h[Names(V)]
    BY <2>1, <2>4
  <2>6. g[U] = F[x] + g[V]
    BY <1>3, <2>3, <2>4
  <2>7. Names(U) \in SUBSET T /\ t \in Names(U) /\ G[t] = F[x]
    BY <1>1, <2>3, <2>4
  <2>8. Names(U) \ {t} = Names(V)
    BY <1>1, <2>3, <2>4
  <2>. HIDE DEF Names, V, t
  <2>9. h[Names(U)] = G[t] + h[Names(U) \ {t}]
    BY <1>4, <2>7
  <2>10. g[U] = h[Names(U)]
    BY <2>5, <2>6, <2>7, <2>8, <2>9
  <2>. QED
    BY <2>1, <2>10
<1>6. Names(S) = T
  BY <1>1
<1>7. g[S] = h[Names(S)]
  BY <1>5
<1>. QED
  BY <1>6, <1>7

\* The sum of what the agenda shows for some slots.
LEMMA ShownIsSum ==
  ASSUME NEW X, IsFiniteSet(X)
  PROVE  \E g : /\ Adds(g, [o \in X |-> o.price], X)
                /\ MapThenSumSet(LAMBDA o : o.price, X) = g[X]
<1>. DEFINE F == [o \in X |-> o.price]
            g == CHOOSE h : h = [s \in SUBSET X |->
                                   IF s = {} THEN 0
                                   ELSE LET x == CHOOSE x \in s : TRUE
                                        IN  x.price + h[s \ {x}]]
<1>1. MapThenSumSet(LAMBDA o : o.price, X) = g[X]
  BY DEF MapThenSumSet, MapThenFoldSet
<1>2. PICK h : IsSum(h, F, X)
  <2>. HIDE DEF F
  <2>. QED
    BY SumExists
<1>3. \A s \in SUBSET X : s # {} => F[One(s)] = One(s).price
  BY OneOf
<1>. HIDE DEF F
<1>4. h = [s \in SUBSET X |-> IF s = {} THEN 0 ELSE One(s).price + h[s \ {One(s)}]]
  BY <1>2, <1>3 DEF IsSum
<1>5. g = [s \in SUBSET X |-> IF s = {} THEN 0 ELSE One(s).price + g[s \ {One(s)}]]
  BY <1>4 DEF One
<1>. HIDE DEF g
<1>6. Adds(g, F, X)
  BY <1>3, <1>5 DEF Adds
<1>. QED
  BY <1>1, <1>6 DEF F

\* What the last agenda shows has the price of its slot.
Priced ==
  \E from, to \in Nat :
    /\ IsFiniteSet(offers)
    /\ \A o \in offers : \E slot \in SlotsOf(from, to) :
         /\ o.start = slot.start /\ o.end = slot.end /\ Computable(slot)
         /\ o.price = Price(slot.start, slot.end)

LEMMA AgendaFinite ==
  ASSUME zone \in Zones, NEW from \in Nat, NEW to \in Nat
  PROVE  IsFiniteSet(Agenda(from, to))
<1>1. Wall(from) \in Int /\ Wall(to) \in Int
  <2>1. zone.change \in Int /\ zone.jump \in Int
    BY GridAssumption
  <2>. QED
    BY <2>1 DEF Wall
<1>. DEFINE W == {x \in Walk(Wall(from), Wall(to)) : Offered(x)}
            Shown(slot) == [start |-> slot.start, end |-> slot.end,
                            status |-> Status(slot, BookingsIn(from, to)),
                            price |-> Price(slot.start, slot.end)]
            f == [c \in W |-> Shown(SlotAt(c, from))]
            A == Agenda(from, to)
<1>2. IsFiniteSet(W)
  <2>1. IsFiniteSet(Walk(Wall(from), Wall(to)))
    BY <1>1, WalkFinite
  <2>. QED
    BY <2>1, FS_Subset
<1>3. A = {Shown(SlotAt(c, from)) : c \in W}
  BY DEF Agenda, SlotsOf
<1>. HIDE DEF Shown, W, A
<1>4. f \in Surjection(W, A)
  BY <1>3 DEF Surjection
<1>. HIDE DEF f
<1>5. IsFiniteSet(A)
  BY <1>2, <1>4, FS_Surjection
<1>. QED
  BY <1>5 DEF A

LEMMA PricedNext ==
  ASSUME Priced, zone \in Zones, [Next]_vars PROVE Priced'
<1>0. ASSUME resource' = resource, zone' = zone
      PROVE  /\ \A from, to : Price(from, to)' = Price(from, to)
             /\ \A from, to : SlotsOf(from, to)' = SlotsOf(from, to)
             /\ \A slot : Computable(slot)' = Computable(slot)
  BY <1>0, SameGridSameSlots
<1>1. ASSUME NEW from \in Instants, NEW to \in Instants, GetAgenda(from, to)
      PROVE  Priced'
  <2>1. /\ resource' = resource /\ zone' = zone
        /\ \/ offers' = {}
           \/ /\ \A slot \in SlotsOf(from, to) : Computable(slot)
              /\ offers' = Agenda(from, to)
    BY <1>1 DEF GetAgenda
  <2>2. from \in Nat /\ to \in Nat
    BY GridAssumption
  <2>3. IsFiniteSet(offers')
    BY <2>1, <2>2, AgendaFinite, FS_EmptySet
  <2>4. ASSUME NEW o \in offers'
        PROVE  \E slot \in SlotsOf(from, to) :
                 /\ o.start = slot.start /\ o.end = slot.end /\ Computable(slot)
                 /\ o.price = Price(slot.start, slot.end)
    BY <2>1, <2>4 DEF Agenda
  <2>5. \A o \in offers' : \E slot \in SlotsOf(from, to)' :
          /\ o.start = slot.start /\ o.end = slot.end /\ Computable(slot)'
          /\ o.price = Price(slot.start, slot.end)'
    BY <1>0, <2>1, <2>4
  <2>. QED
    BY <2>2, <2>3, <2>5 DEF Priced
<1>2. ASSUME resource' = resource, zone' = zone, offers' = offers
      PROVE  Priced'
  <2>1. PICK from, to \in Nat :
          /\ IsFiniteSet(offers)
          /\ \A o \in offers : \E slot \in SlotsOf(from, to) :
               /\ o.start = slot.start /\ o.end = slot.end /\ Computable(slot)
               /\ o.price = Price(slot.start, slot.end)
    BY DEF Priced
  <2>2. \A o \in offers' : \E slot \in SlotsOf(from, to)' :
          /\ o.start = slot.start /\ o.end = slot.end /\ Computable(slot)'
          /\ o.price = Price(slot.start, slot.end)'
    BY <1>0, <1>2, <2>1
  <2>3. IsFiniteSet(offers')
    BY <1>2, <2>1
  <2>. QED
    BY <2>2, <2>3 DEF Priced
<1>3. ASSUME NEW from \in Instants, NEW to \in Instants, Request(from, to)
      PROVE  Priced'
  BY <1>2, <1>3 DEF Request
<1>4. ASSUME NEW b \in bookings, Approve(b) PROVE Priced'
  BY <1>2, <1>4 DEF Approve
<1>5. CASE UNCHANGED vars
  BY <1>2, <1>5 DEF vars
<1>. QED
  BY <1>1, <1>3, <1>4, <1>5 DEF Next

\* A booking of slots of the agenda that join up costs what the agenda shows for
\* them together: compute_price walks in UTC, the agenda on the wall, and no time
\* zone makes the two walks differ between such slots.
THEOREM PriceAsShown == Spec => []PriceAsOffered
<1>1. Init => Priced
  <2>1. Init => offers = {} /\ IsFiniteSet(offers)
    BY FS_EmptySet DEF Init
  <2>2. 0 \in Nat
    OBVIOUS
  <2>. QED
    BY <2>1, <2>2 DEF Priced
<1>2. GridInv /\ Priced /\ [Next]_vars => Priced'
  BY PricedNext DEF GridInv, Fixed
<1>3. ASSUME GridInv, Priced PROVE PriceAsOffered
  <2>. SUFFICES ASSUME NEW from \in offers, NEW to \in offers
                PROVE  LET covered == {o \in offers : from.start <= o.start /\ o.end <= to.end} IN
                       /\ from.start < to.end
                       /\ Cardinality(covered) * SlotLength = to.end - from.start
                       /\ \A o, p \in covered :
                            o = p \/ o.end <= p.start \/ p.end <= o.start
                       => Price(from.start, to.end) = MapThenSumSet(LAMBDA o : o.price, covered)
    BY DEF PriceAsOffered
  <2>. DEFINE X == {o \in offers : from.start <= o.start /\ o.end <= to.end}
              L == SlotLength
              n == Cardinality(X)
              s == from.start
              e == to.end
              W == Walk(s, e)
              F == [o \in X |-> o.price]
              b == [o \in X |-> o.start]
  <2>. SUFFICES ASSUME s < e, n * L = e - s, Apart(X)
                PROVE  Price(s, e) = MapThenSumSet(LAMBDA o : o.price, X)
    BY DEF Apart
  <2>1. resource \in Resources /\ zone \in Zones
    BY <1>3 DEF GridInv, Fixed
  <2>2. L \in Nat \ {0}
    BY <2>1, SlotsOfADay
  <2>3. PICK f, t \in Nat :
          /\ IsFiniteSet(offers)
          /\ \A o \in offers : \E slot \in SlotsOf(f, t) :
               /\ o.start = slot.start /\ o.end = slot.end /\ Computable(slot)
               /\ o.price = Price(slot.start, slot.end)
    BY <1>3 DEF Priced
  <2>4. IsFiniteSet(X) /\ n \in Nat
    BY <2>3, FS_Subset, FS_CardinalityType
  <2>5. ASSUME NEW o \in offers
        PROVE  /\ o.start \in Int /\ o.end \in Int /\ o.start < o.end
               /\ o.price = Price(o.start, o.end)
    <3>1. PICK slot \in SlotsOf(f, t) :
            /\ o.start = slot.start /\ o.end = slot.end /\ Computable(slot)
            /\ o.price = Price(slot.start, slot.end)
      BY <2>3
    <3>2. slot.start < slot.end
      BY <3>1 DEF Computable, RangeAccepted
    <3>3. slot.start \in Int /\ slot.end \in Int
      BY <2>1, <3>2, SlotShape
    <3>. QED
      BY <3>1, <3>2, <3>3
  <2>6. s \in Int /\ e \in Int /\ e = s + n * L
    BY <2>2, <2>4, <2>5
  <2>7. ASSUME NEW o \in X PROVE o.start + L <= o.end
    <3>1. PICK x \in SlotsOf(f, t) : from.start = x.start /\ from.end = x.end /\ Computable(x)
      BY <2>3
    <3>2. PICK y \in SlotsOf(f, t) : to.start = y.start /\ to.end = y.end /\ Computable(y)
      BY <2>3
    <3>3. PICK z \in SlotsOf(f, t) : o.start = z.start /\ o.end = z.end /\ Computable(z)
      BY <2>3
    <3>4. x.start < x.end /\ y.start < y.end /\ z.start < z.end
      BY <3>1, <3>2, <3>3 DEF Computable, RangeAccepted
    <3>5. (y.end - x.start) % L = 0
      <4>1. e - s \in Int /\ e - s = L * n /\ n \in Int
        BY <2>2, <2>4, <2>6
      <4>. HIDE DEF L, n, s, e
      <4>2. (e - s) % L = 0
        BY <2>2, <4>1, MultipleOf
      <4>. QED
        BY <3>1, <3>2, <4>2 DEF s, e
    <3>6. x.start <= z.start /\ z.end <= y.end
      BY <3>1, <3>2, <3>3
    <3>7. z.start + SlotLength <= z.end
      BY <2>1, <3>4, <3>5, <3>6, LongSlots
    <3>. QED
      BY <3>3, <3>7
  <2>8. /\ Ranges(X)
        /\ \A o \in X : s <= o.start /\ o.end <= e /\ o.start + L <= o.end
    BY <2>5, <2>7 DEF Ranges
  <2>9. /\ \A o \in X : /\ o.start \in s..(e - 1) /\ (o.start - s) % L = 0
                        /\ o.end = o.start + L
        /\ \A o, p \in X : o.start = p.start => o = p
        /\ \A c \in s..(e - 1) : (c - s) % L = 0 => \E o \in X : o.start = c
    <3>. HIDE DEF X, L, n, s, e
    <3>1. Cardinality(X) = n /\ Apart(X)
      BY DEF n
    <3>. QED
      BY ONLY <2>2, <2>4, <2>6, <2>8, <3>1, RangesTile
  <2>10. \A o \in X : F[o] = Prices[o.start] /\ F[o] \in Int
    <3>. TAKE o \in X
    <3>1. o.start \in Int /\ o.end \in Int /\ o.end = o.start + SlotLength
      BY <2>5, <2>9
    <3>2. F[o] = Prices[o.start]
      BY <2>1, <2>5, <3>1, SinglePrice
    <3>3. PriceAt(Wall(o.start)) \in Nat
      BY <2>1, PricesAreAmounts DEF PriceAt
    <3>. QED
      BY <3>1, <3>2, <3>3 DEF Prices
  <2>11. b \in Bijection(X, W)
    <3>1. \A o \in X : b[o] \in W
      BY <2>9 DEF Walk
    <3>2. \A c \in W : \E o \in X : b[o] = c
      BY <2>9 DEF Walk
    <3>3. \A o, p \in X : b[o] = b[p] => o = p
      BY <2>9
    <3>4. b \in [X -> W]
      BY <3>1
    <3>. HIDE DEF X, W, b
    <3>. QED
      BY <3>2, <3>3, <3>4 DEF Bijection, Injection, Surjection, IsInjective
  <2>12. PICK g : Adds(g, F, X) /\ MapThenSumSet(LAMBDA o : o.price, X) = g[X]
    <3>. HIDE DEF X
    <3>. QED
      BY <2>4, ShownIsSum
  <2>13. PICK h : Adds(h, Prices, W) /\ Price(s, e) = h[W]
    <3>. HIDE DEF s, e
    <3>. QED
      BY <2>6, PriceIsSum
  <2>14. IsFiniteSet(W)
    <3>. HIDE DEF s, e
    <3>. QED
      BY <2>6, WalkFinite
  <2>15. \A o \in X : Prices[b[o]] = F[o]
    BY <2>10
  <2>. DEFINE G == Prices
  <2>16. g[X] = h[W]
    <3>1. /\ \A o \in X : F[o] \in Int
          /\ \A o \in X : G[b[o]] = F[o]
          /\ Adds(h, G, W) /\ Adds(g, F, X)
      BY <2>10, <2>12, <2>13, <2>15
    <3>. HIDE DEF X, W, b, F, G
    <3>. QED
      BY <2>4, <2>11, <2>14, <3>1, SumRenamed
  <2>. QED
    BY <2>12, <2>13, <2>16
<1>. QED
  BY <1>1, <1>2, <1>3, GridInvariant, PTL DEF Spec

=============================================================================
