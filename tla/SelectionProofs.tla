--------------------------- MODULE SelectionProofs ---------------------------
(***************************************************************************)
(* What Selected builds, for every list and every set of places, and the   *)
(* induction and the extreme elements it and other proofs rest on.         *)
(***************************************************************************)
EXTENDS Selections, FiniteSetsExt, FiniteSetTheorems, WellFoundedInduction, TLAPS

\* The loop of Selected as an equation, and the function that satisfies it.
Loop(f, s, T) ==
  f = [ n \in 0 .. Len(s) |->
          IF n = 0 THEN << >>
          ELSE IF n \in T THEN Append(f[n - 1], s[n]) ELSE f[n - 1] ]

Rounds(s, T) == CHOOSE f : Loop(f, s, T)

\* The wanted places among the first n.
Wanted(T, n) == T \cap 1 .. n

\* Induction over the numbers, for a set of them.
LEMMA SetInduction ==
  ASSUME NEW P, 0 \in P, \A n \in Nat : n \in P => n + 1 \in P
  PROVE  \A n \in Nat : n \in P
<1> DEFINE R == { p \in Nat \X Nat : p[1] < p[2] }
           rest == Nat \ P
<1>1. SUFFICES ASSUME rest # {} PROVE FALSE
    OBVIOUS
<1>2. IsWellFoundedOn(R, Nat)
  <2>1. R = OpToRel(<, Nat)
      BY DEF OpToRel
  <2> QED
      BY <2>1, NatLessThanWellFounded
<1>3. PICK least \in rest : \A y \in rest : << y, least >> \notin R
  <2>1. rest \subseteq Nat
      OBVIOUS
  <2> HIDE DEF rest, R
  <2> QED
      BY <1>1, <1>2, <2>1, WFMin
<1>4. least \in Nat /\ least # 0 /\ least \notin P
    OBVIOUS
<1>5. least - 1 \in Nat /\ (least - 1) + 1 = least
    BY <1>4
<1>6. least - 1 \notin P
    BY <1>4, <1>5
<1>7. << least - 1, least >> \in R
    BY <1>4, <1>5
<1> QED
    BY <1>3, <1>5, <1>6, <1>7

\* A nonempty set of indexes has a greatest one.
LEMMA GreatestIndex ==
  ASSUME NEW n \in Nat, NEW T, T \subseteq 1..n, T # {}
  PROVE  Max(T) \in T /\ \A y \in T : y <= Max(T)
<1> DEFINE below == { n - x : x \in T }
           R == { p \in Nat \X Nat : p[1] < p[2] }
<1>1. below \subseteq Nat /\ below # {}
  <2>1. \A x \in T : n - x \in Nat
    OBVIOUS
  <2>2. below \subseteq Nat
    BY <2>1
  <2>3. PICK x \in T : TRUE
    OBVIOUS
  <2>4. n - x \in below
    BY <2>3
  <2>5. QED
    BY <2>2, <2>4
<1>2. IsWellFoundedOn(R, Nat)
  <2>1. R = OpToRel(<, Nat)
    BY DEF OpToRel
  <2>2. QED
    BY <2>1, NatLessThanWellFounded
<1>3. PICK least \in below : \A y \in below : << y, least >> \notin R
  <2> HIDE DEF below, R
  <2>1. QED
    BY <1>1, <1>2, WFMin
<1>4. PICK x \in T : least = n - x
  OBVIOUS
<1>5. \A y \in T : x >= y
  <2>1. TAKE y \in T
  <2>2. n - y \in below /\ n - y \in Nat /\ n - x \in Nat
    BY SMT
  <2>3. ~(n - y < n - x)
    <3>1. << n - y, n - x >> \notin R
      BY <1>3, <1>4, <2>2
    <3>2. << n - y, n - x >> \in Nat \X Nat
      BY <2>2
    <3>3. QED
      BY <3>1, <3>2
  <2>4. QED
    BY <2>3, SMT
<1>6. Max(T) \in T /\ \A y \in T : Max(T) >= y
  BY <1>5, Zenon DEF Max
<1>7. QED
  BY <1>6, SMT

\* ... and a set of numbers a least one.
LEMMA LeastIndex ==
  ASSUME NEW T, T \subseteq Nat, T # {}
  PROVE  Min(T) \in T /\ \A y \in T : Min(T) =< y
<1> DEFINE R == { p \in Nat \X Nat : p[1] < p[2] }
<1>1. IsWellFoundedOn(R, Nat)
  <2>1. R = OpToRel(<, Nat)
    BY DEF OpToRel
  <2>2. QED
    BY <2>1, NatLessThanWellFounded
<1>2. PICK x \in T : \A y \in T : << y, x >> \notin R
  <2> HIDE DEF R
  <2>1. QED
    BY <1>1, WFMin
<1>3. \A y \in T : x =< y
  <2>1. TAKE y \in T
  <2>2. x \in Nat /\ y \in Nat /\ ~ (y < x)
    BY <1>2
  <2>3. QED
    BY <2>2
<1>4. QED
  BY <1>3, Zenon DEF Min

\* The loop is well defined: by induction on the number of its rounds.
LEMMA LoopRuns ==
  ASSUME NEW s, Len(s) \in Nat, NEW T
  PROVE  /\ Loop(Rounds(s, T), s, T)
         /\ Selected(s, T) = Rounds(s, T)[Len(s)]
<1> DEFINE Runs(f, n) ==
             f = [ m \in 0 .. n |->
                     IF m = 0 THEN << >>
                     ELSE IF m \in T THEN Append(f[m - 1], s[m]) ELSE f[m - 1] ]
           P == { n \in Nat : \E f : Runs(f, n) }
<1>1. 0 \in P
  <2> DEFINE f == [ m \in 0 .. 0 |-> << >> ]
  <2>1. Runs(f, 0)
      OBVIOUS
  <2> QED
      BY <2>1
<1>2. ASSUME NEW n \in Nat, n \in P PROVE n + 1 \in P
  <2>1. PICK f : Runs(f, n)
      BY <1>2
  <2> DEFINE last == IF n + 1 \in T THEN Append(f[n], s[n + 1]) ELSE f[n]
             g == [ m \in 0 .. n + 1 |-> IF m = n + 1 THEN last ELSE f[m] ]
             h == [ m \in 0 .. n + 1 |->
                      IF m = 0 THEN << >>
                      ELSE IF m \in T THEN Append(g[m - 1], s[m]) ELSE g[m - 1] ]
  <2>2. ASSUME NEW m \in 0 .. n + 1 PROVE g[m] = h[m]
    <3>1. CASE m = n + 1
      <4>1. g[m] = last /\ n \in 0 .. n + 1 /\ n # n + 1 /\ m # 0 /\ m - 1 = n
          BY <3>1
      <4>2. g[n] = f[n]
          BY <4>1
      <4> QED
          BY <3>1, <4>1, <4>2
    <3>2. CASE m # n + 1 /\ m = 0
        BY <2>1, <3>2
    <3>3. CASE m # n + 1 /\ m # 0
      <4>1. m \in 0 .. n /\ m - 1 \in 0 .. n + 1 /\ m - 1 # n + 1
          BY <3>3
      <4>2. g[m - 1] = f[m - 1] /\ g[m] = f[m]
          BY <3>3, <4>1
      <4>3. f[m] = IF m \in T THEN Append(f[m - 1], s[m]) ELSE f[m - 1]
          BY <2>1, <3>3, <4>1
      <4> QED
          BY <3>3, <4>1, <4>2, <4>3
    <3> QED
        BY <3>1, <3>2, <3>3
  <2>3. g = h
      BY <2>2
  <2>4. Runs(g, n + 1)
      BY <2>3
  <2> HIDE DEF Runs, g
  <2>5. n + 1 \in Nat /\ \E k : Runs(k, n + 1)
      BY <2>4
  <2> QED
      BY <2>5
<1>3. \E f : Loop(f, s, T)
  <2>1. Len(s) \in P
    <3> HIDE DEF P
    <3> QED
        BY <1>1, <1>2, SetInduction
  <2> QED
      BY <2>1 DEF Loop
<1>4. Loop(Rounds(s, T), s, T)
    BY <1>3, Zenon DEF Rounds
<1>5. Selected(s, T) = Rounds(s, T)[Len(s)]
    BY Zenon DEF Selected, Rounds, Loop
<1> QED
    BY <1>4, <1>5

\* One round after the other.
LEMMA LoopRounds ==
  ASSUME NEW s, Len(s) \in Nat, NEW T
  PROVE  /\ Rounds(s, T)[0] = << >>
         /\ \A n \in Nat : n < Len(s) =>
              Rounds(s, T)[n + 1] = IF n + 1 \in T THEN Append(Rounds(s, T)[n], s[n + 1])
                                    ELSE Rounds(s, T)[n]
<1> DEFINE f == Rounds(s, T)
<1>1. Loop(f, s, T)
    BY LoopRuns
<1> HIDE DEF f
<1>2. f[0] = << >>
    BY <1>1 DEF Loop
<1>3. ASSUME NEW n \in Nat, n < Len(s)
      PROVE  f[n + 1] = IF n + 1 \in T THEN Append(f[n], s[n + 1]) ELSE f[n]
  <2>1. n + 1 \in 0 .. Len(s) /\ n + 1 # 0 /\ (n + 1) - 1 = n
      BY <1>3
  <2> QED
      BY <1>1, <2>1 DEF Loop
<1> QED
    BY <1>2, <1>3 DEF f
----------------------------------------------------------------------------
(* How many of the first places are wanted.                                 *)

LEMMA WantedCount ==
  ASSUME NEW T, NEW n \in Nat
  PROVE  /\ IsFiniteSet(Wanted(T, n)) /\ Cardinality(Wanted(T, n)) \in Nat
         /\ Cardinality(Wanted(T, 0)) = 0
         /\ Cardinality(Wanted(T, n + 1)) =
              IF n + 1 \in T THEN Cardinality(Wanted(T, n)) + 1 ELSE Cardinality(Wanted(T, n))
<1>1. IsFiniteSet(Wanted(T, n))
  <2>1. IsFiniteSet(1 .. n) /\ Wanted(T, n) \subseteq 1 .. n
      BY FS_Interval DEF Wanted
  <2> QED
      BY <2>1, FS_Subset
<1>2. Cardinality(Wanted(T, n)) \in Nat
    BY <1>1, FS_CardinalityType
<1>3. Wanted(T, 0) = {}
    BY DEF Wanted
<1>4. Wanted(T, n + 1) = IF n + 1 \in T THEN Wanted(T, n) \cup {n + 1} ELSE Wanted(T, n)
    BY DEF Wanted
<1>5. n + 1 \notin Wanted(T, n)
    BY DEF Wanted
<1>6. Cardinality(Wanted(T, n) \cup {n + 1}) = Cardinality(Wanted(T, n)) + 1
    BY <1>1, <1>5, FS_AddElement
<1> QED
    BY <1>1, <1>2, <1>3, <1>4, <1>6, FS_EmptySet

\* A later place has no fewer before it, and one more when it is wanted.
LEMMA WantedGrows ==
  ASSUME NEW T, NEW i \in Nat, NEW j \in Nat, i <= j
  PROVE  /\ Cardinality(Wanted(T, i)) <= Cardinality(Wanted(T, j))
         /\ i < j /\ j \in T => Cardinality(Wanted(T, i)) < Cardinality(Wanted(T, j))
<1>1. \A k \in Nat : i <= k => Cardinality(Wanted(T, i)) <= Cardinality(Wanted(T, k))
  <2> DEFINE P == { k \in Nat : i <= k => Cardinality(Wanted(T, i)) <= Cardinality(Wanted(T, k)) }
  <2>1. 0 \in P
    <3>1. i <= 0 => i = 0
        OBVIOUS
    <3> QED
        BY <3>1, WantedCount
  <2>2. ASSUME NEW k \in Nat, k \in P PROVE k + 1 \in P
    <3>1. CASE i <= k
        BY <2>2, <3>1, WantedCount
    <3>2. CASE ~ (i <= k)
      <4>1. i <= k + 1 => i = k + 1
          BY <3>2
      <4> QED
          BY <4>1, WantedCount
    <3> QED
        BY <3>1, <3>2
  <2>3. \A k \in Nat : k \in P
    <3> HIDE DEF P
    <3> QED
        BY <2>1, <2>2, SetInduction
  <2> QED
      BY <2>3
<1>2. ASSUME i < j, j \in T PROVE Cardinality(Wanted(T, i)) < Cardinality(Wanted(T, j))
  <2>1. j - 1 \in Nat /\ i <= j - 1 /\ (j - 1) + 1 = j
      BY <1>2
  <2>2. Cardinality(Wanted(T, j)) = Cardinality(Wanted(T, j - 1)) + 1
    <3>1. Cardinality(Wanted(T, (j - 1) + 1)) =
            IF (j - 1) + 1 \in T THEN Cardinality(Wanted(T, j - 1)) + 1
            ELSE Cardinality(Wanted(T, j - 1))
        BY <2>1, WantedCount
    <3> QED
        BY <1>2, <2>1, <3>1
  <2> QED
      BY <1>1, <2>1, <2>2, WantedCount
<1> QED
    BY <1>1, <1>2

\* Every number up to the count is the number of one of the wanted places.
LEMMA WantedRanks ==
  ASSUME NEW T, NEW n \in Nat, NEW k \in 1 .. Cardinality(Wanted(T, n))
  PROVE  \E i \in Wanted(T, n) : Cardinality(Wanted(T, i)) = k
<1> DEFINE Ranked(m) ==
             \A r \in 1 .. Cardinality(Wanted(T, m)) :
               \E i \in Wanted(T, m) : Cardinality(Wanted(T, i)) = r
           P == { m \in Nat : Ranked(m) }
<1>1. 0 \in P
    BY WantedCount
<1>2. ASSUME NEW m \in Nat, m \in P PROVE m + 1 \in P
  <2>1. Ranked(m)
      BY <1>2
  <2> DEFINE c == Cardinality(Wanted(T, m))
  <2>2. c \in Nat /\ Cardinality(Wanted(T, m + 1)) = IF m + 1 \in T THEN c + 1 ELSE c
      BY WantedCount
  <2>3. Wanted(T, m) \subseteq Wanted(T, m + 1)
      BY DEF Wanted
  <2>4. m + 1 \in T => m + 1 \in Wanted(T, m + 1)
      BY DEF Wanted
  <2>5. ASSUME NEW r \in 1 .. Cardinality(Wanted(T, m + 1))
        PROVE  \E i \in Wanted(T, m + 1) : Cardinality(Wanted(T, i)) = r
    <3>1. CASE r \in 1 .. c
        BY <2>1, <2>3, <3>1
    <3>2. CASE r \notin 1 .. c
      <4>1. m + 1 \in T /\ r = c + 1
          BY <2>2, <2>5, <3>2
      <4> QED
          BY <2>2, <2>4, <4>1
    <3> QED
        BY <3>1, <3>2
  <2> QED
      BY <2>5
<1>3. n \in P
  <2> HIDE DEF P
  <2> QED
      BY <1>1, <1>2, SetInduction
<1> QED
    BY <1>3

----------------------------------------------------------------------------
(* What is selected.                                                        *)

\* After n rounds the wanted ones of the first n elements are there, in order.
LEMMA RoundsSelect ==
  ASSUME NEW S, NEW s \in Seq(S), NEW T, NEW n \in 0 .. Len(s)
  PROVE  /\ Rounds(s, T)[n] \in Seq(S)
         /\ Len(Rounds(s, T)[n]) = Cardinality(Wanted(T, n))
         /\ \A i \in Wanted(T, n) : Rounds(s, T)[n][Cardinality(Wanted(T, i))] = s[i]
<1> DEFINE f == Rounds(s, T)
           Good(m) ==
             /\ f[m] \in Seq(S) /\ Len(f[m]) = Cardinality(Wanted(T, m))
             /\ \A i \in Wanted(T, m) : f[m][Cardinality(Wanted(T, i))] = s[i]
           P == { m \in Nat : m <= Len(s) => Good(m) }
<1>1. /\ f[0] = << >> /\ Len(s) \in Nat
      /\ \A m \in Nat : m < Len(s) =>
           f[m + 1] = IF m + 1 \in T THEN Append(f[m], s[m + 1]) ELSE f[m]
    BY LoopRounds
<1> HIDE DEF f
<1>2. 0 \in P
  <2>1. Wanted(T, 0) = {}
      BY DEF Wanted
  <2>2. Cardinality(Wanted(T, 0)) = 0
      BY <1>1, WantedCount
  <2>3. << >> \in Seq(S) /\ Len(<< >>) = 0
      OBVIOUS
  <2> QED
      BY <1>1, <2>1, <2>2, <2>3
<1>3. ASSUME NEW m \in Nat, m \in P PROVE m + 1 \in P
  <2>1. SUFFICES ASSUME m + 1 <= Len(s) PROVE Good(m + 1)
      OBVIOUS
  <2>2. m < Len(s) /\ Good(m)
      BY <1>1, <1>3, <2>1
  <2> DEFINE c == Cardinality(Wanted(T, m))
  <2>3. c \in Nat /\ Cardinality(Wanted(T, m + 1)) = IF m + 1 \in T THEN c + 1 ELSE c
      BY WantedCount
  <2>4. \A i \in Wanted(T, m) : i \in Nat /\ i \in T /\ 0 < i /\ i <= m /\ i < m + 1
      BY DEF Wanted
  <2>5. \A i \in Wanted(T, m) : Cardinality(Wanted(T, i)) \in 1 .. c
    <3>1. TAKE i \in Wanted(T, m)
    <3>2. Cardinality(Wanted(T, 0)) < Cardinality(Wanted(T, i))
        BY <2>4, WantedGrows
    <3>3. Cardinality(Wanted(T, i)) <= c
        BY <2>4, WantedGrows
    <3>4. Cardinality(Wanted(T, 0)) = 0 /\ Cardinality(Wanted(T, i)) \in Nat
        BY <2>4, WantedCount
    <3> QED
        BY <2>3, <3>2, <3>3, <3>4
  <2>6. Wanted(T, m + 1) = IF m + 1 \in T THEN Wanted(T, m) \cup {m + 1} ELSE Wanted(T, m)
      BY DEF Wanted
  <2>7. CASE m + 1 \notin T
    <3>1. f[m + 1] = f[m] /\ Wanted(T, m + 1) = Wanted(T, m)
        BY <1>1, <2>2, <2>6, <2>7
    <3> QED
        BY <2>2, <3>1
  <2>8. CASE m + 1 \in T
    <3>1. f[m + 1] = Append(f[m], s[m + 1]) /\ f[m] \in Seq(S) /\ Len(f[m]) = c
        BY <1>1, <2>1, <2>2, <2>8
    <3>2. m + 1 \in 1 .. Len(s) /\ s[m + 1] \in S
        BY <1>1, <2>1
    <3>3. /\ f[m + 1] \in Seq(S) /\ Len(f[m + 1]) = c + 1 /\ f[m + 1][c + 1] = s[m + 1]
          /\ \A k \in 1 .. c : f[m + 1][k] = f[m][k]
      <4> HIDE DEF c
      <4> QED
          BY <2>3, <3>1, <3>2
    <3>4. \A i \in Wanted(T, m) : f[m + 1][Cardinality(Wanted(T, i))] = s[i]
        BY <2>2, <2>5, <3>3
    <3> QED
        BY <2>3, <2>6, <2>8, <3>3, <3>4
  <2> QED
      BY <2>7, <2>8
<1>4. n \in P
  <2>1. n \in Nat
      BY <1>1
  <2> HIDE DEF P
  <2> QED
      BY <1>2, <1>3, <2>1, SetInduction
<1> QED
    BY <1>1, <1>4 DEF f

\* What a loop selects: as many elements as places are wanted, each where the
\* number of wanted places up to its own says, and nothing else.
THEOREM Selection ==
  ASSUME NEW S, NEW s \in Seq(S), NEW T
  PROVE  /\ Selected(s, T) \in Seq(S)
         /\ Len(Selected(s, T)) = Cardinality(Wanted(T, Len(s)))
         /\ \A i \in Wanted(T, Len(s)) :
              /\ Cardinality(Wanted(T, i)) \in 1 .. Len(Selected(s, T))
              /\ Selected(s, T)[Cardinality(Wanted(T, i))] = s[i]
         /\ \A k \in 1 .. Len(Selected(s, T)) :
              \E i \in Wanted(T, Len(s)) : Cardinality(Wanted(T, i)) = k
<1>1. Len(s) \in Nat /\ Len(s) \in 0 .. Len(s)
    OBVIOUS
<1>2. Selected(s, T) = Rounds(s, T)[Len(s)]
    BY <1>1, LoopRuns
<1>3. /\ Selected(s, T) \in Seq(S)
      /\ Len(Selected(s, T)) = Cardinality(Wanted(T, Len(s)))
      /\ \A i \in Wanted(T, Len(s)) : Selected(s, T)[Cardinality(Wanted(T, i))] = s[i]
    BY <1>1, <1>2, RoundsSelect
<1>4. ASSUME NEW i \in Wanted(T, Len(s))
      PROVE  Cardinality(Wanted(T, i)) \in 1 .. Len(Selected(s, T))
  <2>1. i \in Nat /\ 0 < i /\ i <= Len(s) /\ i \in T
      BY <1>1 DEF Wanted
  <2>2. Cardinality(Wanted(T, 0)) < Cardinality(Wanted(T, i))
      BY <2>1, WantedGrows
  <2>3. Cardinality(Wanted(T, i)) <= Cardinality(Wanted(T, Len(s)))
      BY <1>1, <2>1, WantedGrows
  <2> QED
      BY <1>1, <1>3, <2>1, <2>2, <2>3, WantedCount
<1> QED
    BY <1>1, <1>3, <1>4, WantedRanks

\* The rounds over the beginning of a list are the first rounds over it.
LEMMA SelectionOfPrefix ==
  ASSUME NEW S, NEW s \in Seq(S), NEW T, NEW n \in 0 .. Len(s),
         NEW U, \A i \in 1 .. n : i \in U <=> i \in T
  PROVE  Selected(SubSeq(s, 1, n), U) = Rounds(s, T)[n]
<1> DEFINE cut == SubSeq(s, 1, n)
<1>1. n \in Nat /\ Len(s) \in Nat /\ n <= Len(s)
    OBVIOUS
<1>2. Len(cut) = n /\ \A i \in 1 .. n : cut[i] = s[i]
    BY <1>1
<1> HIDE DEF cut
<1>3. Selected(cut, U) = Rounds(cut, U)[n]
    BY <1>1, <1>2, LoopRuns
<1> DEFINE P == { m \in Nat : m <= n => Rounds(cut, U)[m] = Rounds(s, T)[m] }
<1>4. 0 \in P
    BY <1>1, <1>2, LoopRounds
<1>5. ASSUME NEW m \in Nat, m \in P PROVE m + 1 \in P
  <2>1. SUFFICES ASSUME m + 1 <= n PROVE Rounds(cut, U)[m + 1] = Rounds(s, T)[m + 1]
      OBVIOUS
  <2>2. m < n /\ m < Len(s) /\ m + 1 \in 1 .. n /\ Rounds(cut, U)[m] = Rounds(s, T)[m]
      BY <1>1, <1>5, <2>1
  <2>3. cut[m + 1] = s[m + 1] /\ (m + 1 \in U <=> m + 1 \in T)
      BY <1>2, <2>2
  <2>4. Rounds(cut, U)[m + 1] = IF m + 1 \in U THEN Append(Rounds(cut, U)[m], cut[m + 1])
                                ELSE Rounds(cut, U)[m]
      BY <1>1, <1>2, <2>2, LoopRounds
  <2>5. Rounds(s, T)[m + 1] = IF m + 1 \in T THEN Append(Rounds(s, T)[m], s[m + 1])
                              ELSE Rounds(s, T)[m]
      BY <1>1, <2>2, LoopRounds
  <2> QED
      BY <2>2, <2>3, <2>4, <2>5
<1>6. n \in P
  <2> HIDE DEF P
  <2> QED
      BY <1>1, <1>4, <1>5, SetInduction
<1> QED
    BY <1>1, <1>3, <1>6 DEF cut

\* What is selected of the beginning of a list is the beginning of what is
\* selected of it.
LEMMA PrefixSelects ==
  ASSUME NEW S, NEW s \in Seq(S), NEW T, NEW n \in 0 .. Len(s),
         NEW U, \A i \in 1 .. n : i \in U <=> i \in T,
         NEW part, part = Selected(SubSeq(s, 1, n), U),
         NEW whole, whole = Selected(s, T)
  PROVE  /\ part \in Seq(S) /\ whole \in Seq(S) /\ Len(part) <= Len(whole)
         /\ \A k \in 1 .. Len(part) : part[k] = whole[k]
<1>1. n \in Nat /\ Len(s) \in Nat /\ n <= Len(s) /\ Len(s) \in 0 .. Len(s)
    OBVIOUS
<1>2. part = Rounds(s, T)[n] /\ whole = Rounds(s, T)[Len(s)]
    BY <1>1, SelectionOfPrefix, LoopRuns
<1>3. /\ part \in Seq(S) /\ Len(part) = Cardinality(Wanted(T, n))
      /\ \A i \in Wanted(T, n) : part[Cardinality(Wanted(T, i))] = s[i]
    BY <1>2, RoundsSelect
<1>4. /\ whole \in Seq(S) /\ Len(whole) = Cardinality(Wanted(T, Len(s)))
      /\ \A i \in Wanted(T, Len(s)) : whole[Cardinality(Wanted(T, i))] = s[i]
    BY <1>1, <1>2, RoundsSelect
<1>5. Len(part) <= Len(whole)
    BY <1>1, <1>3, <1>4, WantedGrows
<1>6. ASSUME NEW k \in 1 .. Len(part) PROVE part[k] = whole[k]
  <2>1. PICK i \in Wanted(T, n) : Cardinality(Wanted(T, i)) = k
      BY <1>1, <1>3, <1>6, WantedRanks
  <2>2. i \in Wanted(T, Len(s))
      BY <1>1, <2>1 DEF Wanted
  <2> QED
      BY <1>3, <1>4, <2>1, <2>2
<1> QED
    BY <1>3, <1>4, <1>5, <1>6
=============================================================================
