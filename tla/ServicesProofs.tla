--------------------------- MODULE ServicesProofs ----------------------------
(***************************************************************************)
(* Proofs about the selection of highlights, for any length of a clip and  *)
(* any options; and that what is proved of each service alone holds of the *)
(* services together: of Spec, which TLC checks, a behaviour is one of the *)
(* service it is about, in which the others rest.                          *)
(***************************************************************************)
EXTENDS MCServices, ConsoleProofs, StorageProofs, RecorderProofs

-----------------------------------------------------------------------------
(* Selection.                                                              *)

\* Induction, of sets of numbers.
LEMMA Induction ==
    ASSUME NEW n \in Nat, NEW S, 0 \in S,
           \A k \in S : k \in 0 .. n - 1 => k + 1 \in S
    PROVE  0 .. n \subseteq S
<1> SUFFICES ASSUME ~(0 .. n \subseteq S) PROVE FALSE
  OBVIOUS
<1> DEFINE R == (0 .. n) \ S
<1>1. R \in SUBSET Nat /\ R # {}
  OBVIOUS
<1>2. PICK m \in R : \A k \in R : m <= k
  <2> HIDE DEF R
  <2> QED
    BY <1>1, Smallest
<1>3. m # 0 /\ m - 1 \in 0 .. n - 1 /\ m - 1 \in 0 .. n /\ ~(m <= m - 1)
  OBVIOUS
<1>4. m - 1 \in S
  BY <1>2, <1>3
<1>5. (m - 1) + 1 \in S
  BY <1>3, <1>4
<1> QED
  BY <1>5

\* What is defined round by round is defined, ...
LEMMA RoundsReach ==
    ASSUME NEW T, NEW b \in T, NEW n \in Nat, NEW D \in [(1 .. n) \X T -> T]
    PROVE  \E f \in [0 .. n -> T] :
              f[0] = b /\ \A k \in 1 .. n : f[k] = D[<<k, f[k - 1]>>]
<1> DEFINE Up(m, f) == f[0] = b /\ \A k \in 1 .. m : f[k] = D[<<k, f[k - 1]>>]
           S == {m \in 0 .. n : \E f \in [0 .. m -> T] : Up(m, f)}
<1>1. 0 \in S
  <2>1. [k \in 0 .. 0 |-> b] \in [0 .. 0 -> T] /\ Up(0, [k \in 0 .. 0 |-> b])
    OBVIOUS
  <2>2. 0 \in 0 .. n
    OBVIOUS
  <2> QED
    BY <2>1, <2>2
<1>2. ASSUME NEW m \in S, m \in 0 .. n - 1 PROVE m + 1 \in S
  <2>1. PICK f \in [0 .. m -> T] : Up(m, f)
    OBVIOUS
  <2>2. m \in Nat /\ m + 1 \in 1 .. n /\ m + 1 \in 0 .. n /\ f[m] \in T
    BY <1>2
  <2>3. <<m + 1, f[m]>> \in (1 .. n) \X T
    BY <2>2
  <2>4. D[<<m + 1, f[m]>>] \in T
    BY <2>3
  <2> DEFINE d == D[<<m + 1, f[m]>>]
             g == [k \in 0 .. m + 1 |-> IF k = m + 1 THEN d ELSE f[k]]
  <2>5. g[0] = b
    BY <2>1, <2>2
  <2>6. ASSUME NEW k \in 1 .. m + 1 PROVE g[k] = D[<<k, g[k - 1]>>]
    <3>1. CASE k = m + 1
      <4>1. g[k] = d /\ g[k - 1] = f[m] /\ k - 1 = m
        BY <2>2, <3>1
      <4> QED
        BY <4>1, <3>1
    <3>2. CASE k # m + 1
      <4>1. k \in 1 .. m /\ g[k] = f[k] /\ g[k - 1] = f[k - 1]
        BY <2>2, <3>2
      <4> QED
        BY <4>1, <2>1
    <3> QED
      BY <3>1, <3>2
  <2>7. g \in [0 .. m + 1 -> T]
    <3> HIDE DEF d
    <3>1. ASSUME NEW k \in 0 .. m + 1, k # m + 1 PROVE f[k] \in T
      <4>1. k \in 0 .. m
        BY <2>2, <3>1
      <4> QED
        BY <4>1
    <3>2. d \in T
      BY <2>4 DEF d
    <3> QED
      BY <3>1, <3>2
  <2>8. Up(m + 1, g)
    <3> HIDE DEF g
    <3> QED
      BY <2>5, <2>6
  <2> HIDE DEF g
  <2> QED
    BY <2>2, <2>7, <2>8
<1>3. n \in S
  <2>1. \A k \in S : k \in 0 .. n - 1 => k + 1 \in S
    <3> HIDE DEF S
    <3> QED
      BY <1>2
  <2>2. 0 .. n \subseteq S
    <3> HIDE DEF S
    <3> QED
      BY <1>1, <2>1, Induction
  <2> QED
    BY <2>2
<1> QED
  BY <1>3

\* ... for a first value, what n rounds make of the values in T, and the values
\* that the rounds pass through.
Rounds(T, b, n, D) == b \in T /\ n \in Nat /\ D \in [(1 .. n) \X T -> T]
\* The values that the rounds pass through.
Reached(T, b, n, D, f) ==
    /\ f \in [0 .. n -> T] /\ f[0] = b
    /\ \A k \in 1 .. n : f[k] = D[<<k, f[k - 1]>>]

\* So the rounds of a recursive function have such values.
LEMMA Recursion ==
    ASSUME NEW T, NEW b, NEW n, NEW D, Rounds(T, b, n, D)
    PROVE  \E f : Reached(T, b, n, D, f)
<1>1. b \in T /\ n \in Nat /\ D \in [(1 .. n) \X T -> T]
  BY DEF Rounds
<1>2. \E f \in [0 .. n -> T] :
         f[0] = b /\ \A k \in 1 .. n : f[k] = D[<<k, f[k - 1]>>]
  BY ONLY <1>1, RoundsReach
<1> QED
  BY <1>2 DEF Reached

\* So sums are defined.
LEMMA PartialSums ==
    ASSUME NEW m \in Nat, NEW h
    PROVE  h \in [1 .. m -> Int] =>
              \E F \in [0 .. m -> Int] :
                 F[0] = 0 /\ \A k \in 1 .. m : F[k] = F[k - 1] + h[k]
<1>1. ASSUME h \in [1 .. m -> Int]
      PROVE  \E F \in [0 .. m -> Int] :
                F[0] = 0 /\ \A k \in 1 .. m : F[k] = F[k - 1] + h[k]
  <2>1. PICK Z : Z = Int
    OBVIOUS
  <2>2. PICK z \in Z : z = 0
    BY <2>1
  <2>3. PICK E \in [(1 .. m) \X Z -> Z] :
           \A k \in 1 .. m : \A v \in Z : E[<<k, v>>] = v + h[k]
    <3> DEFINE G == [p \in (1 .. m) \X Int |-> p[2] + h[p[1]]]
    <3>1. G \in [(1 .. m) \X Int -> Int]
      BY <1>1
    <3>2. \A k \in 1 .. m : \A v \in Int : G[<<k, v>>] = v + h[k]
      OBVIOUS
    <3> HIDE DEF G
    <3> QED
      BY <2>1, <3>1, <3>2
  <2>4. PICK F \in [0 .. m -> Z] :
           F[0] = z /\ \A k \in 1 .. m : F[k] = E[<<k, F[k - 1]>>]
    <3>1. Rounds(Z, z, m, E)
      BY <2>2, <2>3 DEF Rounds
    <3>2. PICK F : Reached(Z, z, m, E, F)
      BY <3>1, Recursion
    <3> QED
      BY <3>2 DEF Reached
  <2>5. \A k \in 1 .. m : F[k - 1] \in Int
    BY <2>1
  <2> QED
    BY <2>1, <2>2, <2>3, <2>4, <2>5
<1> QED
  BY <1>1

\* The settings' numbers.
LEMMA SelectionNumbers ==
    /\ Seconds \in Nat \ {0} /\ Threshold \in Nat \ {0} /\ Pad \in Nat
    /\ \A score \in Clip : \A i \in 0 .. Seconds - 1 : score[i] \in Int
    /\ \A o \in SelectionOptions :
          /\ o.exit \in 0 .. Threshold - 1
          /\ o.gap \in Nat \ {0} /\ o.min \in Nat \ {0} /\ o.max \in Nat \ {0}
          /\ o.perClip \in Nat \ {0}
<1>1. Seconds \in Nat \ {0} /\ Threshold \in Nat \ {0} /\ Pad \in Nat
  BY SelectionAssumption DEF SelectionAssumption
<1>2. \A score \in Clip : \A i \in 0 .. Seconds - 1 : score[i] \in Int
  BY SelectionAssumption DEF SelectionAssumption, Clip
<1>3. ASSUME NEW o \in SelectionOptions
      PROVE  /\ o.exit \in 0 .. Threshold - 1
             /\ o.gap \in Nat \ {0} /\ o.min \in Nat \ {0} /\ o.max \in Nat \ {0}
             /\ o.perClip \in Nat \ {0}
  <2>1. /\ o.exit \in Exits /\ o.gap \in Gaps /\ o.min \in MinDurations
        /\ o.max \in MaxDurations /\ o.perClip \in PerClip
    BY DEF SelectionOptions
  <2> QED
    BY <2>1, SelectionAssumption DEF SelectionAssumption
<1> QED
  BY <1>1, <1>2, <1>3

\* A window and its length.
LEMMA WindowIs ==
    ASSUME NEW a \in Int, NEW n \in Int
    PROVE  /\ Window(a, n).start = a /\ Window(a, n).end = a + n
           /\ Duration(Window(a, n)) = n
BY DEF Window, Duration

\* Total adds up the scores from a on, second by second.
LEMMA SumsOf ==
    ASSUME NEW score \in Clip, NEW a \in 0 .. Seconds
    PROVE  \E F \in [0 .. Seconds - a -> Int] :
              /\ F[0] = 0
              /\ \A k \in 1 .. Seconds - a : F[k] = F[k - 1] + score[a + k - 1]
              /\ \A n \in 0 .. Seconds - a : Total(score, Window(a, n)) = F[n]
<1>1. PICK m \in Nat : m = Seconds - a /\ a \in Nat
  BY SelectionNumbers
<1>2. PICK h \in [1 .. m -> Int] : \A k \in 1 .. m : h[k] = score[a + k - 1]
  <2>1. [k \in 1 .. m |-> score[a + k - 1]] \in [1 .. m -> Int]
    BY <1>1, SelectionNumbers
  <2> QED
    BY <2>1
<1>3. PICK F \in [0 .. m -> Int] :
         F[0] = 0 /\ \A k \in 1 .. m : F[k] = F[k - 1] + h[k]
  BY PartialSums
<1>4. \A k \in 1 .. m : F[k] = F[k - 1] + score[a + k - 1]
  BY <1>2, <1>3
<1>5. ASSUME NEW n \in 0 .. m PROVE Total(score, Window(a, n)) = F[n]
  <2> DEFINE s == Window(a, n)
             Body(g) == [k \in 0 .. Duration(s) |->
                           IF k = 0 THEN 0 ELSE g[k - 1] + score[s.start + k - 1]]
             G == [k \in 0 .. n |-> F[k]]
             sum == CHOOSE g : g = Body(g)
  <2>1. s.start = a /\ Duration(s) = n /\ n \in Nat
    <3>1. a \in Int /\ n \in Int /\ n \in Nat
      BY <1>1
    <3> QED
      BY <3>1, WindowIs
  <2> HIDE DEF s
  <2>2. G = Body(G)
    BY <1>1, <1>3, <1>4, <2>1
  <2>3. sum = Body(sum)
    <3> HIDE DEF G, Body
    <3> QED
      BY <2>2
  <2> HIDE DEF sum
  <2> DEFINE S == {k \in 0 .. n : sum[k] = F[k]}
  <2>4. 0 \in S
    BY <1>3, <2>1, <2>3
  <2>5. \A k \in S : k \in 0 .. n - 1 => k + 1 \in S
    <3>1. ASSUME NEW k \in S, k \in 0 .. n - 1 PROVE k + 1 \in S
      <4>1. k + 1 \in 0 .. n /\ k + 1 \in 1 .. m /\ k + 1 # 0 /\ (k + 1) - 1 = k
        BY <1>1, <3>1
      <4>2. sum[k + 1] = sum[k] + score[a + (k + 1) - 1]
        BY <2>1, <2>3, <4>1
      <4> QED
        BY <1>4, <4>1, <4>2
    <3> QED
      BY <3>1
  <2>6. n \in S
    <3> HIDE DEF S
    <3>1. 0 .. n \subseteq S
      BY <2>1, <2>4, <2>5, Induction
    <3> QED
      BY <3>1, <2>1
  <2>7. Total(score, s) = sum[Duration(s)]
    BY DEF Total, sum
  <2> QED
    BY <2>1, <2>6, <2>7 DEF s
<1> QED
  BY <1>1, <1>3, <1>4, <1>5

\* So a window that starts a second later has the total without the first
\* second and with the one that follows.
LEMMA TotalGrows ==
    ASSUME NEW score \in Clip, NEW a \in Nat, NEW n \in Nat, a + n <= Seconds
    PROVE  /\ Total(score, Window(a, n)) \in Int
           /\ n = 0 => Total(score, Window(a, n)) = 0
           /\ a + n < Seconds =>
                Total(score, Window(a, n + 1)) = Total(score, Window(a, n)) + score[a + n]
<1>1. a \in 0 .. Seconds /\ n \in 0 .. Seconds - a
  BY SelectionNumbers
<1>2. PICK F \in [0 .. Seconds - a -> Int] :
              /\ F[0] = 0
              /\ \A k \in 1 .. Seconds - a : F[k] = F[k - 1] + score[a + k - 1]
              /\ \A k \in 0 .. Seconds - a : Total(score, Window(a, k)) = F[k]
  BY <1>1, SumsOf
<1>3. Total(score, Window(a, n)) = F[n] /\ F[n] \in Int
  BY <1>1, <1>2
<1>4. ASSUME a + n < Seconds
      PROVE  Total(score, Window(a, n + 1)) = F[n] + score[a + n]
  <2>1. n + 1 \in 0 .. Seconds - a /\ n + 1 \in 1 .. Seconds - a
    BY <1>1, <1>4, SelectionNumbers
  <2>2. (n + 1) - 1 = n /\ a + (n + 1) - 1 = a + n
    OBVIOUS
  <2> QED
    BY <1>2, <2>1, <2>2
<1> QED
  BY <1>2, <1>3, <1>4

\* A window that moves by a second loses its first and gains the next.
LEMMA TotalMoves ==
    ASSUME NEW score \in Clip, NEW a \in Nat, NEW w \in Nat, a + w < Seconds
    PROVE  Total(score, Window(a + 1, w))
             = Total(score, Window(a, w)) + score[a + w] - score[a]
<1> DEFINE T(b, n) == Total(score, Window(b, n))
           S == {n \in 0 .. w : T(a + 1, n) = T(a, n) + score[a + n] - score[a]}
<1>1. ASSUME NEW n \in 0 .. w
      PROVE  /\ T(a, n) \in Int /\ T(a + 1, n) \in Int /\ score[a + n] \in Int
             /\ T(a, n + 1) = T(a, n) + score[a + n]
  <2>1. /\ n \in Nat /\ a + 1 \in Nat /\ a + n < Seconds /\ a + n <= Seconds
        /\ (a + 1) + n <= Seconds /\ a + n \in 0 .. Seconds - 1
    BY SelectionNumbers
  <2>2. score[a + n] \in Int
    BY <2>1, SelectionNumbers
  <2>3. T(a + 1, n) \in Int
    BY <2>1, TotalGrows
  <2> QED
    BY <2>1, <2>2, <2>3, TotalGrows
<1>2. ASSUME NEW n \in 0 .. w - 1
      PROVE  T(a + 1, n + 1) = T(a + 1, n) + score[a + (n + 1)]
  <2>1. /\ n \in Nat /\ a + 1 \in Nat /\ (a + 1) + n < Seconds
        /\ (a + 1) + n <= Seconds /\ (a + 1) + n = a + (n + 1)
    BY SelectionNumbers
  <2> QED
    BY <2>1, TotalGrows
<1>3. 0 \in S
  <2>1. a \in Nat /\ a + 1 \in Nat /\ 0 \in Nat /\ a + 0 <= Seconds
        /\ (a + 1) + 0 <= Seconds /\ a + 0 = a /\ 0 \in 0 .. w
    BY SelectionNumbers
  <2>2. T(a, 0) = 0
    BY <2>1, TotalGrows
  <2>3. T(a + 1, 0) = 0
    BY <2>1, TotalGrows
  <2>4. score[a] \in Int
    BY <1>1, <2>1
  <2> HIDE DEF T
  <2> QED
    BY <2>1, <2>2, <2>3, <2>4
<1>4. ASSUME NEW n \in S, n \in 0 .. w - 1 PROVE n + 1 \in S
  <2>1. n + 1 \in 0 .. w /\ 0 \in 0 .. w /\ a + 0 = a /\ a + (n + 1) = a + n + 1
    BY <1>4
  <2>2. score[a] \in Int /\ score[a + (n + 1)] \in Int
    BY <1>1, <2>1
  <2>3. T(a + 1, n) = T(a, n) + score[a + n] - score[a]
    OBVIOUS
  <2>4. /\ T(a, n) \in Int /\ T(a + 1, n) \in Int /\ score[a + n] \in Int
        /\ T(a, n + 1) = T(a, n) + score[a + n]
    BY <1>1
  <2>5. T(a + 1, n + 1) = T(a + 1, n) + score[a + (n + 1)]
    BY <1>2, <1>4
  <2> HIDE DEF T
  <2>6. T(a + 1, n + 1) = T(a, n + 1) + score[a + (n + 1)] - score[a]
    BY <2>2, <2>3, <2>4, <2>5
  <2> QED
    BY <2>1, <2>6
<1>5. w \in S
  <2> HIDE DEF S
  <2>1. 0 .. w \subseteq S
    BY <1>3, <1>4, Induction
  <2> QED
    BY <2>1
<1> QED
  BY <1>5

\* What the loop of bestWindow carries: the sum, the best one and its place.
SlideState == [sum : Int, best : Int, at : Int]

\* bestWindow's loop does what Slide says in every round.
LEMMA SlideRounds ==
    ASSUME NEW score \in Clip, NEW a \in Nat, NEW d \in Nat, NEW w \in Nat \ {0},
           a + d <= Seconds, w < d
    PROVE  \E F : /\ LET first == Total(score, Window(a, w))
                     IN  F[0] = [sum |-> first, best |-> first, at |-> a]
                  /\ \A k \in 1 .. d - w :
                        F[k] = Slide(F[k - 1], score, Window(a, d), w, k)
                  /\ BestWindow(score, Window(a, d), w) = Window(F[d - w].at, w)
<1>1. PICK s : s = Window(a, d)
  OBVIOUS
<1>2. s.start = a /\ Duration(s) = d
  BY <1>1 DEF Window, Duration
<1>3. PICK n \in Nat : n = d - w
  OBVIOUS
<1>4. PICK first \in Int : first = Total(score, Window(a, w))
  <2>1. a + w <= Seconds /\ w \in Nat
    BY SelectionNumbers
  <2> QED
    BY <2>1, TotalGrows
<1>5. PICK b \in SlideState : b = [sum |-> first, best |-> first, at |-> a]
  <2>1. [sum |-> first, best |-> first, at |-> a] \in SlideState
    BY <1>4 DEF SlideState
  <2> QED
    BY <2>1
<1>6. PICK D \in [(1 .. n) \X SlideState -> SlideState] :
         \A k \in 1 .. n : \A v \in SlideState : D[<<k, v>>] = Slide(v, score, s, w, k)
  <2> DEFINE G == [p \in (1 .. n) \X SlideState |-> Slide(p[2], score, s, w, p[1])]
  <2>1. ASSUME NEW k \in 1 .. n, NEW v \in SlideState
        PROVE  Slide(v, score, s, w, k) \in SlideState
    <3>1. a + k + w - 1 \in 0 .. Seconds - 1 /\ a + k - 1 \in 0 .. Seconds - 1
      BY <1>3, SelectionNumbers
    <3>2. score[a + k + w - 1] \in Int /\ score[a + k - 1] \in Int
      BY <3>1, SelectionNumbers
    <3> QED
      BY <1>2, <3>2 DEF Slide, SlideState
  <2>2. G \in [(1 .. n) \X SlideState -> SlideState]
    BY <2>1
  <2>3. \A k \in 1 .. n : \A v \in SlideState : G[<<k, v>>] = Slide(v, score, s, w, k)
    OBVIOUS
  <2> HIDE DEF G
  <2> QED
    BY <2>2, <2>3
<1>7. PICK F \in [0 .. n -> SlideState] :
         F[0] = b /\ \A k \in 1 .. n : F[k] = D[<<k, F[k - 1]>>]
  <2>1. Rounds(SlideState, b, n, D)
    BY DEF Rounds
  <2>2. PICK F : Reached(SlideState, b, n, D, F)
    BY <2>1, Recursion
  <2> QED
    BY <2>2 DEF Reached
<1> DEFINE Body(g) == [k \in 0 .. Duration(s) - w |->
                         IF k = 0 THEN [sum |-> first, best |-> first, at |-> s.start]
                         ELSE Slide(g[k - 1], score, s, w, k)]
           slide == CHOOSE g : g = Body(g)
<1>8. F = Body(F)
  <2>1. ASSUME NEW k \in 0 .. n
        PROVE  F[k] = IF k = 0 THEN [sum |-> first, best |-> first, at |-> s.start]
                      ELSE Slide(F[k - 1], score, s, w, k)
    <3>1. CASE k = 0
      BY <1>2, <1>5, <1>7, <3>1
    <3>2. CASE k # 0
      <4>1. k \in 1 .. n /\ F[k - 1] \in SlideState
        BY <3>2
      <4> QED
        BY <1>6, <1>7, <3>2, <4>1
    <3> QED
      BY <3>1, <3>2
  <2>2. 0 .. Duration(s) - w = 0 .. n
    BY <1>2, <1>3
  <2> QED
    BY <2>1, <2>2
<1>9. slide = Body(slide)
  <2> HIDE DEF Body
  <2> QED
    BY <1>8
<1>10. BestWindow(score, s, w) = Window(slide[Duration(s) - w].at, w)
  <2>1. ~(w >= Duration(s))
    BY <1>2
  <2> QED
    BY <1>2, <1>4, <2>1 DEF BestWindow
<1> HIDE DEF slide
<1>11. slide[0] = [sum |-> first, best |-> first, at |-> a]
  BY <1>2, <1>3, <1>9
<1>12. ASSUME NEW k \in 1 .. d - w
       PROVE  slide[k] = Slide(slide[k - 1], score, s, w, k)
  <2>1. k \in 0 .. Duration(s) - w /\ k # 0
    BY <1>2
  <2> QED
    BY <1>9, <2>1
<1> QED
  BY <1>1, <1>2, <1>4, <1>10, <1>11, <1>12

\* The window of w seconds from i on is the first of the best from a to before b.
IsBestAt(score, a, b, w, i) ==
    /\ i \in a .. b - w
    /\ \A j \in a .. b - w :
          /\ Total(score, Window(j, w)) <= Total(score, Window(i, w))
          /\ Total(score, Window(j, w)) = Total(score, Window(i, w)) => i <= j

\* After round k, the window is at the k-th second, and the best is the first
\* of the best ones so far.
LEMMA BestOfWindows ==
    ASSUME NEW score \in Clip, NEW a \in Nat, NEW d \in Nat, NEW w \in Nat \ {0},
           a + d <= Seconds, w < d
    PROVE  \E i : /\ IsBestAt(score, a, a + d, w, i)
                  /\ BestWindow(score, Window(a, d), w) = Window(i, w)
<1> DEFINE T(j) == Total(score, Window(j, w))
           n == d - w
<1>1. PICK F : /\ F[0] = [sum |-> T(a), best |-> T(a), at |-> a]
               /\ \A k \in 1 .. n : F[k] = Slide(F[k - 1], score, Window(a, d), w, k)
               /\ BestWindow(score, Window(a, d), w) = Window(F[n].at, w)
  <2>1. \E F : /\ LET first == Total(score, Window(a, w))
                  IN  F[0] = [sum |-> first, best |-> first, at |-> a]
               /\ \A k \in 1 .. d - w :
                     F[k] = Slide(F[k - 1], score, Window(a, d), w, k)
               /\ BestWindow(score, Window(a, d), w) = Window(F[d - w].at, w)
    BY SlideRounds
  <2> QED
    BY <2>1
<1>2. ASSUME NEW k \in 0 .. n PROVE T(a + k) \in Int
  <2>1. a + k \in Nat /\ (a + k) + w <= Seconds
    BY SelectionNumbers
  <2> QED
    BY <2>1, TotalGrows
<1>3. ASSUME NEW k \in 0 .. n - 1
      PROVE  T(a + (k + 1)) = T(a + k) + score[a + k + w] - score[a + k]
  <2>1. a + k \in Nat /\ (a + k) + w < Seconds /\ (a + k) + 1 = a + (k + 1)
    BY SelectionNumbers
  <2>2. T((a + k) + 1) = T(a + k) + score[(a + k) + w] - score[a + k]
    BY <2>1, TotalMoves
  <2> QED
    BY <2>1, <2>2
<1> DEFINE Best(k) ==
             /\ F[k].sum = T(a + k)
             /\ F[k].at \in a .. a + k /\ F[k].best = T(F[k].at)
             /\ \A j \in a .. a + k : /\ T(j) <= F[k].best
                                      /\ T(j) = F[k].best => F[k].at <= j
           S == {k \in 0 .. n : Best(k)}
<1>4. n \in Nat
  OBVIOUS
<1>5. \A j \in a .. a + n : T(j) \in Int
  <2>1. ASSUME NEW j \in a .. a + n PROVE T(j) \in Int
    <3>1. j - a \in 0 .. n /\ a + (j - a) = j
      BY <1>4
    <3> QED
      BY <1>2, <3>1
  <2> QED
    BY <2>1
<1>6. 0 \in S
  <2>1. T(a) \in Int /\ a + 0 = a /\ a .. a + 0 = {a} /\ 0 \in 0 .. n
    BY <1>4, <1>5
  <2> HIDE DEF T, n
  <2> QED
    BY <1>1, <2>1
<1>7. ASSUME NEW k \in S, k \in 0 .. n - 1 PROVE k + 1 \in S
  <2>1. Best(k)
    OBVIOUS
  <2>2. k + 1 \in 1 .. n /\ k + 1 \in 0 .. n /\ (k + 1) - 1 = k /\ n \in Nat
    BY <1>4, <1>7
  <2>3. a .. a + (k + 1) = (a .. a + k) \cup {a + (k + 1)}
    BY <2>2
  <2>4. T(a + (k + 1)) \in Int /\ F[k].best \in Int /\ F[k].at \in Int
    BY <1>5, <2>1, <2>2
  <2>5. T(a + (k + 1)) = F[k].sum + score[a + k + w] - score[a + k]
    BY <1>3, <1>7, <2>1
  <2>6. Window(a, d).start + (k + 1) + w - 1 = a + k + w
        /\ Window(a, d).start + (k + 1) - 1 = a + k
        /\ Window(a, d).start + (k + 1) = a + (k + 1)
    BY <1>7 DEF Window
  <2>7. F[k + 1] = IF T(a + (k + 1)) > F[k].best
                   THEN [sum |-> T(a + (k + 1)), best |-> T(a + (k + 1)),
                         at |-> a + (k + 1)]
                   ELSE [sum |-> T(a + (k + 1)), best |-> F[k].best, at |-> F[k].at]
    <3> HIDE DEF T
    <3>1. F[k + 1] = Slide(F[k], score, Window(a, d), w, k + 1)
      BY <1>1, <2>2
    <3> QED
      BY <2>5, <2>6, <3>1 DEF Slide
  <2>8. \A j \in a .. a + k : T(j) \in Int
    BY <1>5, <2>2
  <2>11. Best(k + 1) => k + 1 \in S
    BY <2>2
  <2>12. k \in Int /\ k + 1 \in Int /\ a + (k + 1) \in Int
    BY <2>2
  <2> HIDE DEF T, S
  <2>9. CASE T(a + (k + 1)) > F[k].best
    <3>1. /\ F[k + 1].sum = T(a + (k + 1)) /\ F[k + 1].at = a + (k + 1)
          /\ F[k + 1].best = T(a + (k + 1))
      BY <2>7, <2>9
    <3>2. \A j \in a .. a + k : T(j) < T(a + (k + 1))
      BY <2>1, <2>4, <2>8, <2>9
    <3>3. \A j \in a .. a + (k + 1) :
             /\ T(j) <= F[k + 1].best
             /\ T(j) = F[k + 1].best => F[k + 1].at <= j
      BY <2>2, <2>3, <2>4, <2>8, <3>1, <3>2
    <3>4. F[k + 1].at \in a .. a + (k + 1)
      BY <2>2, <3>1
    <3>6. F[k + 1].best = T(F[k + 1].at)
      BY <3>1, Zenon
    <3>5. Best(k + 1)
      BY <3>1, <3>3, <3>4, <3>6
    <3> HIDE DEF Best
    <3> QED
      BY <2>11, <3>5
  <2>10. CASE ~(T(a + (k + 1)) > F[k].best)
    <3>1. /\ F[k + 1].sum = T(a + (k + 1)) /\ F[k + 1].at = F[k].at
          /\ F[k + 1].best = F[k].best
      BY <2>7, <2>10
    <3>2. T(a + (k + 1)) <= F[k].best /\ F[k].at <= a + (k + 1)
      BY <2>1, <2>2, <2>4, <2>10
    <3>3. \A j \in a .. a + (k + 1) :
             /\ T(j) <= F[k + 1].best
             /\ T(j) = F[k + 1].best => F[k + 1].at <= j
      BY <2>1, <2>3, <3>1, <3>2
    <3>4. F[k + 1].at \in a .. a + (k + 1)
      BY <2>1, <2>2, <3>1
    <3>5. Best(k + 1)
      <4>1. F[k].best = T(F[k].at)
        BY <2>1
      <4>2. F[k + 1].best = T(F[k + 1].at)
        BY <3>1, <4>1, Zenon
      <4> QED
        BY <3>1, <3>3, <3>4, <4>2
    <3> HIDE DEF Best
    <3> QED
      BY <2>11, <3>5
  <2> QED
    BY <2>9, <2>10
<1>8. Best(n)
  <2>1. n \in 0 .. n
    BY <1>4
  <2>2. 0 .. n \subseteq S
    <3> HIDE DEF S, n
    <3> QED
      BY <1>4, <1>6, <1>7, Induction
  <2> QED
    BY <2>1, <2>2
<1> QED
  <2>1. a + n = a + d - w
    OBVIOUS
  <2> DEFINE i == F[n].at
  <2>2. i \in a .. a + d - w /\ BestWindow(score, Window(a, d), w) = Window(i, w)
    BY <1>1, <1>8, <2>1
  <2>3. \A j \in a .. a + d - w : T(j) <= T(i) /\ (T(j) = T(i) => i <= j)
    <3> HIDE DEF T, n
    <3> QED
      BY <1>8, <2>1
  <2> HIDE DEF i
  <2>4. IsBestAt(score, a, a + d, w, i)
    BY <2>2, <2>3 DEF IsBestAt
  <2> QED
    BY <2>2, <2>4

\* Above the threshold, or not below exit ever since.
In(score, exit, i) ==
    \E j \in 0 .. i : /\ score[j] > Threshold
                      /\ \A k \in j + 1 .. i : score[k] >= exit

\* A second that counts, under the settings of a selection (IsHit).
HitIn(score, o, i) ==
    IF o.exit = 0 THEN score[i] > Threshold
    ELSE In(score, o.exit, i)

\* In from a second above the threshold on, until one falls below exit.
LEMMA EntersOrStays ==
    ASSUME NEW score, NEW exit \in Int, NEW i \in Nat,
           exit < Threshold, Threshold \in Int, \A k \in 0 .. i : score[k] \in Int
    PROVE  In(score, exit, i) = IF i > 0 /\ In(score, exit, i - 1)
                                THEN score[i] >= exit ELSE score[i] > Threshold
<1>1. score[i] \in Int
  OBVIOUS
<1>2. ASSUME In(score, exit, i)
      PROVE IF i > 0 /\ In(score, exit, i - 1) THEN score[i] >= exit
                         ELSE score[i] > Threshold
  <2>1. PICK j \in 0 .. i : /\ score[j] > Threshold
                            /\ \A k \in j + 1 .. i : score[k] >= exit
    BY <1>2 DEF In
  <2>2. CASE j = i
    BY <1>1, <2>1, <2>2
  <2>3. CASE j # i
    <3>1. j \in 0 .. i - 1 /\ i > 0 /\ i \in j + 1 .. i
      BY <2>3
    <3>2. \A k \in j + 1 .. i - 1 : score[k] >= exit
      BY <2>1
    <3>3. In(score, exit, i - 1)
      BY <2>1, <3>1, <3>2 DEF In
    <3>4. score[i] >= exit
      BY <2>1, <3>1
    <3> QED
      BY <3>1, <3>3, <3>4
  <2> QED
    BY <2>2, <2>3
<1>3. ASSUME i > 0, In(score, exit, i - 1), score[i] >= exit PROVE In(score, exit, i)
  <2>1. PICK j \in 0 .. i - 1 : /\ score[j] > Threshold
                                /\ \A k \in j + 1 .. i - 1 : score[k] >= exit
    BY <1>3 DEF In
  <2>2. \A k \in j + 1 .. i : score[k] >= exit
    BY <1>3, <2>1
  <2>3. j \in 0 .. i
    BY <1>3
  <2> QED
    BY <2>1, <2>2, <2>3 DEF In
<1>4. ASSUME score[i] > Threshold PROVE In(score, exit, i)
  <2>1. i \in 0 .. i /\ i + 1 .. i = {}
    OBVIOUS
  <2> QED
    BY <1>4, <2>1 DEF In
<1>5. In(score, exit, i) \in BOOLEAN
  BY DEF In
<1> QED
  BY <1>2, <1>3, <1>4, <1>5

\* The mask holds the seconds that count.
LEMMA HysteresisIs ==
    ASSUME NEW score \in Clip, NEW o \in SelectionOptions, o.exit # 0
    PROVE  HysteresisMask(score, o.exit)
             = [i \in 0 .. Seconds - 1 |-> HitIn(score, o, i)]
<1> DEFINE low == IF 0 < o.exit /\ o.exit < Threshold THEN o.exit ELSE Threshold
           Body(g) == [x \in 0 .. Seconds - 1 |->
                         IF x > 0 /\ g[x - 1] THEN score[x] >= low
                         ELSE score[x] > Threshold]
           on == CHOOSE g : g = Body(g)
           H == [x \in 0 .. Seconds - 1 |-> HitIn(score, o, x)]
<1>1. /\ o.exit \in Int /\ o.exit < Threshold /\ Threshold \in Int
      /\ Seconds \in Nat /\ low = o.exit
      /\ \A k \in 0 .. Seconds - 1 : score[k] \in Int
  BY SelectionNumbers
<1> HIDE DEF low
<1>2. ASSUME NEW x \in 0 .. Seconds - 1
      PROVE  HitIn(score, o, x) = IF x > 0 /\ HitIn(score, o, x - 1)
                                  THEN score[x] >= low ELSE score[x] > Threshold
  <2>1. x \in Nat /\ \A k \in 0 .. x : score[k] \in Int
    BY <1>1
  <2> QED
    BY <1>1, <2>1, EntersOrStays DEF HitIn
<1>3. H = Body(H)
  <2>1. ASSUME NEW x \in 0 .. Seconds - 1
        PROVE  HitIn(score, o, x) = IF x > 0 /\ H[x - 1] THEN score[x] >= low
                                    ELSE score[x] > Threshold
    <3>1. CASE x > 0
      <4>1. x - 1 \in 0 .. Seconds - 1
        BY <1>1, <3>1
      <4> QED
        BY <1>2, <3>1, <4>1
    <3>2. CASE ~(x > 0)
      BY <1>2, <3>2
    <3> QED
      BY <3>1, <3>2
  <2> QED
    BY <2>1
<1>4. on = Body(on)
  <2> HIDE DEF H, Body
  <2> QED
    BY <1>3
<1>5. HysteresisMask(score, o.exit) = on
  BY DEF HysteresisMask, low
<1> HIDE DEF on
<1> DEFINE S == {x \in 0 .. Seconds - 1 : on[x] = HitIn(score, o, x)}
<1>6. 0 \in S
  <2>1. 0 \in 0 .. Seconds - 1 /\ ~(0 > 0)
    BY SelectionNumbers
  <2>2. on[0] = (score[0] > Threshold)
    BY <1>4, <2>1
  <2>3. HitIn(score, o, 0) = (score[0] > Threshold)
    BY <1>2, <2>1
  <2> QED
    BY <2>1, <2>2, <2>3
<1>7. ASSUME NEW x \in S, x \in 0 .. (Seconds - 1) - 1 PROVE x + 1 \in S
  <2>1. x + 1 \in 0 .. Seconds - 1 /\ (x + 1) - 1 = x /\ x + 1 > 0
    BY <1>1, <1>7
  <2>2. on[x + 1] = IF on[x] THEN score[x + 1] >= low ELSE score[x + 1] > Threshold
    BY <1>4, <2>1
  <2>3. HitIn(score, o, x + 1)
          = IF HitIn(score, o, x) THEN score[x + 1] >= low
            ELSE score[x + 1] > Threshold
    BY <1>2, <2>1
  <2>4. on[x] = HitIn(score, o, x)
    OBVIOUS
  <2>5. on[x + 1] = HitIn(score, o, x + 1)
    BY <2>2, <2>3, <2>4
  <2> QED
    BY <2>1, <2>5
<1>8. ASSUME NEW i \in 0 .. Seconds - 1 PROVE i \in S
  <2>1. Seconds - 1 \in Nat
    BY SelectionNumbers
  <2> HIDE DEF S
  <2>2. 0 .. Seconds - 1 \subseteq S
    BY <1>6, <1>7, <2>1, Induction
  <2> QED
    BY <2>2
<1>9. on = [i \in 0 .. Seconds - 1 |-> on[i]]
  BY <1>4
<1> QED
  BY <1>5, <1>8, <1>9

\* A second is a hit as the options say, with hysteresis or without.
LEMMA HitsAre ==
    ASSUME NEW score \in Clip, NEW o \in SelectionOptions, NEW i \in 0 .. Seconds - 1
    PROVE  Hits(score, o)[i] \in BOOLEAN /\ Hits(score, o)[i] = HitIn(score, o, i)
<1>1. o.exit \in Nat
  BY SelectionNumbers
<1>2. CASE o.exit = 0
  <2>1. Hits(score, o)[i] = (score[i] > Threshold)
    BY <1>2 DEF Hits
  <2> QED
    BY <1>2, <2>1 DEF HitIn
<1>3. CASE o.exit # 0
  <2>1. Hits(score, o) = HysteresisMask(score, o.exit)
    BY <1>1, <1>3 DEF Hits
  <2>2. HitIn(score, o, i) \in BOOLEAN
    BY <1>3 DEF HitIn, In
  <2> QED
    BY <1>3, <2>1, <2>2, HysteresisIs
<1> QED
  BY <1>2, <1>3

\* Lists of segments.
Found == Seq(Segment)

\* The last segment grows, or one more is added.
LEMMA LastGrows ==
    ASSUME NEW m \in Found, m # <<>>, NEW e \in 0 .. Seconds
    PROVE  LET g == [m EXCEPT ![Len(m)].end = e]
           IN  /\ g \in Found /\ Len(g) = Len(m) /\ Len(m) \in DOMAIN m
               /\ \A a \in DOMAIN m : g[a].start = m[a].start
               /\ \A a \in DOMAIN m : a # Len(m) => g[a] = m[a]
               /\ g[Len(m)].end = e
<1>1. m \in Seq(Segment)
  BY DEF Found
<1>2. Len(m) \in 1 .. Len(m) /\ DOMAIN m = 1 .. Len(m)
  BY <1>1
<1>3. m[Len(m)] \in Segment
  BY <1>1, <1>2
<1>4. [m[Len(m)] EXCEPT !.end = e] \in Segment
  BY <1>3 DEF Segment
<1> DEFINE s == [m[Len(m)] EXCEPT !.end = e]
<1>5. s.start = m[Len(m)].start /\ s.end = e
  BY <1>3 DEF Segment
<1> HIDE DEF s
<1>6. s \in Segment
  BY <1>4 DEF s
<1>7. [m EXCEPT ![Len(m)] = s] \in Seq(Segment)
  BY <1>1, <1>2, <1>6
<1>8. [m EXCEPT ![Len(m)].end = e] = [m EXCEPT ![Len(m)] = s]
  BY DEF s
<1> QED
  BY <1>1, <1>2, <1>5, <1>7, <1>8 DEF Found

\* A list with one more segment.
LEMMA OneMore ==
    ASSUME NEW m \in Found, NEW s \in Segment
    PROVE  /\ Append(m, s) \in Found /\ Len(Append(m, s)) = Len(m) + 1
           /\ DOMAIN Append(m, s) = (DOMAIN m) \cup {Len(m) + 1}
           /\ \A a \in DOMAIN m : Append(m, s)[a] = m[a] /\ a \in 1 .. Len(m)
           /\ Append(m, s)[Len(m) + 1] = s /\ Len(m) \in Nat
BY DEF Found

-----------------------------------------------------------------------------
(* Runs.                                                                   *)

\* What the scan has found before second i.
RunsUpTo(runs, hit, i) ==
    /\ \A a \in DOMAIN runs : runs[a].start < runs[a].end /\ runs[a].end <= i
    /\ \A a, b \in DOMAIN runs : a < b => runs[a].end < runs[b].start
    /\ \A k \in 0 .. i - 1 :
          hit[k] <=> \E a \in DOMAIN runs : runs[a].start <= k /\ k < runs[a].end

\* A second of the scan leaves a list of segments, ...
LEMMA ScanKeepsType ==
    ASSUME NEW runs \in Found, NEW hit, NEW i \in 0 .. Seconds - 1
    PROVE  Scan(runs, hit, i) \in Found
<1>1. i + 1 \in 0 .. Seconds /\ i \in 0 .. Seconds
  BY SelectionNumbers
<1>2. [start |-> i, end |-> i + 1] \in Segment
  BY <1>1 DEF Segment
<1> QED
  BY <1>1, <1>2, LastGrows, OneMore DEF Scan

\* ... and what it has found goes one second further.
LEMMA ScanKeepsRuns ==
    ASSUME NEW runs \in Found, NEW hit \in [0 .. Seconds - 1 -> BOOLEAN],
           NEW i \in 0 .. Seconds - 1, RunsUpTo(runs, hit, i)
    PROVE  RunsUpTo(Scan(runs, hit, i), hit, i + 1)
<1>1. /\ i + 1 \in 0 .. Seconds /\ i \in 0 .. Seconds /\ i \in Int
      /\ 0 .. (i + 1) - 1 = (0 .. i - 1) \cup {i} /\ i \in 0 .. (i + 1) - 1
  BY SelectionNumbers
<1>2. /\ runs \in Seq(Segment)
      /\ \A a \in DOMAIN runs : /\ runs[a].start \in Int /\ runs[a].end \in Int
                                /\ a \in 1 .. Len(runs) /\ a \in Int
  <2>1. runs \in Seq(Segment)
    BY DEF Found
  <2>2. \A a \in DOMAIN runs : a \in 1 .. Len(runs) /\ a \in Int /\ runs[a] \in Segment
    BY <2>1
  <2> QED
    BY <2>1, <2>2 DEF Segment
<1>3. CASE ~hit[i]
  <2>1. Scan(runs, hit, i) = runs
    BY <1>3 DEF Scan
  <2>2. ASSUME NEW k \in 0 .. (i + 1) - 1
        PROVE  hit[k] <=> \E a \in DOMAIN runs : runs[a].start <= k /\ k < runs[a].end
    <3>1. CASE k = i
      BY <1>1, <1>2, <1>3, <3>1 DEF RunsUpTo
    <3>2. CASE k # i
      BY <1>1, <3>2 DEF RunsUpTo
    <3> QED
      BY <3>1, <3>2
  <2>3. \A a \in DOMAIN runs : runs[a].end <= i + 1
    BY <1>1, <1>2 DEF RunsUpTo
  <2> QED
    BY <2>1, <2>2, <2>3 DEF RunsUpTo
<1>4. CASE hit[i] /\ runs # <<>> /\ runs[Len(runs)].end = i
  <2> DEFINE g == [runs EXCEPT ![Len(runs)].end = i + 1]
             n == Len(runs)
  <2>1. Scan(runs, hit, i) = g
    BY <1>4 DEF Scan
  <2>2. /\ g \in Found /\ Len(g) = Len(runs) /\ n \in DOMAIN runs
        /\ \A a \in DOMAIN runs : g[a].start = runs[a].start
        /\ \A a \in DOMAIN runs : a # n => g[a] = runs[a]
        /\ g[n].end = i + 1
    BY <1>1, <1>4, LastGrows
  <2>3. DOMAIN g = DOMAIN runs
    OBVIOUS
  <2> HIDE DEF g, n
  <2>4. \A a \in DOMAIN g : g[a].start < g[a].end /\ g[a].end <= i + 1
    BY <1>1, <1>2, <1>4, <2>2, <2>3 DEF RunsUpTo, n
  <2>5. ASSUME NEW a \in DOMAIN g, NEW b \in DOMAIN g, a < b
        PROVE  g[a].end < g[b].start
    <3>1. a # n
      BY <1>2, <2>3, <2>5 DEF n
    <3>2. g[a].end = runs[a].end /\ g[b].start = runs[b].start
      BY <2>2, <2>3, <3>1
    <3>3. runs[a].end < runs[b].start
      BY <2>3, <2>5 DEF RunsUpTo
    <3> QED
      BY <3>2, <3>3
  <2>6. ASSUME NEW k \in 0 .. (i + 1) - 1
        PROVE  hit[k] <=> \E a \in DOMAIN g : g[a].start <= k /\ k < g[a].end
    <3>1. CASE k = i
      <4>1. g[n].start <= i /\ i < g[n].end
        <5>1. runs[n].end = i /\ runs[n].start < runs[n].end
          BY <1>4, <2>2 DEF RunsUpTo, n
        <5>2. g[n].start = runs[n].start /\ g[n].end = i + 1
          BY <2>2
        <5>3. runs[n].start \in Int /\ i \in Int
          BY <1>1, <1>2, <2>2
        <5> QED
          BY <5>1, <5>2, <5>3
      <4> QED
        BY <1>4, <2>2, <2>3, <3>1, <4>1
    <3>2. CASE k # i
      <4>1. k \in 0 .. i - 1 /\ k < i /\ k \in Int
        BY <1>1, <3>2
      <4>2. \A a \in DOMAIN runs : k < g[a].end <=> k < runs[a].end
        BY <1>1, <1>2, <1>4, <2>2, <4>1 DEF n
      <4> QED
        BY <2>2, <2>3, <4>1, <4>2 DEF RunsUpTo
    <3> QED
      BY <3>1, <3>2
  <2> QED
    BY <2>1, <2>4, <2>5, <2>6 DEF RunsUpTo
<1>5. CASE hit[i] /\ ~(runs # <<>> /\ runs[Len(runs)].end = i)
  <2> DEFINE s == [start |-> i, end |-> i + 1]
             g == Append(runs, s)
             n == Len(runs)
  <2>1. Scan(runs, hit, i) = g
    BY <1>5 DEF Scan
  <2>2. s \in Segment /\ s.start = i /\ s.end = i + 1
    BY <1>1 DEF Segment
  <2> HIDE DEF s
  <2>3. /\ DOMAIN g = (DOMAIN runs) \cup {n + 1} /\ n \in Nat
        /\ \A a \in DOMAIN runs : g[a] = runs[a] /\ a \in 1 .. n
        /\ g[n + 1] = s
    BY <2>2, OneMore
  <2> HIDE DEF g
  <2>4. \A a \in DOMAIN g : g[a].start < g[a].end /\ g[a].end <= i + 1
    BY <1>1, <1>2, <2>2, <2>3 DEF RunsUpTo
  <2>5. \A a \in DOMAIN runs : runs[a].end < i
    <3>1. ASSUME NEW a \in DOMAIN runs PROVE runs[a].end < i
      <4>1. n \in DOMAIN runs /\ runs # <<>> /\ runs[n].end # i /\ runs[n].end <= i
        BY <1>2, <1>5 DEF RunsUpTo
      <4>2. runs[n].end < i
        BY <1>1, <1>2, <4>1
      <4>3. CASE a = n
        BY <4>2, <4>3
      <4>4. CASE a # n
        <5>1. a < n
          BY <1>2, <4>4
        <5>2. runs[a].end < runs[n].start /\ runs[n].start < runs[n].end
          BY <4>1, <5>1 DEF RunsUpTo
        <5> HIDE DEF n
        <5> QED
          BY <1>1, <1>2, <4>1, <4>2, <5>2
      <4> QED
        BY <4>3, <4>4
    <3> QED
      BY <3>1
  <2>6. ASSUME NEW a \in DOMAIN g, NEW b \in DOMAIN g, a < b
        PROVE  g[a].end < g[b].start
    <3>1. CASE b = n + 1
      <4>1. a \in DOMAIN runs
        BY <2>3, <2>6, <3>1
      <4> QED
        BY <2>2, <2>3, <2>5, <3>1, <4>1
    <3>2. CASE b # n + 1
      <4>1. b \in DOMAIN runs /\ b \in 1 .. n
        BY <2>3, <3>2
      <4>2. a \in DOMAIN runs
        BY <2>3, <2>6, <4>1
      <4> QED
        BY <2>3, <2>6, <4>1, <4>2 DEF RunsUpTo
    <3> QED
      BY <3>1, <3>2
  <2>7. ASSUME NEW k \in 0 .. (i + 1) - 1
        PROVE  hit[k] <=> \E a \in DOMAIN g : g[a].start <= k /\ k < g[a].end
    <3>1. CASE k = i
      BY <1>1, <1>5, <2>2, <2>3, <3>1
    <3>2. CASE k # i
      <4>1. k \in 0 .. i - 1 /\ k < i /\ k \in Int
        BY <1>1, <3>2
      <4>2. ~(g[n + 1].start <= k)
        BY <1>1, <2>2, <2>3, <4>1
      <4> QED
        BY <2>3, <4>1, <4>2 DEF RunsUpTo
    <3> QED
      BY <3>1, <3>2
  <2> QED
    BY <2>1, <2>4, <2>6, <2>7 DEF RunsUpTo
<1> QED
  BY <1>3, <1>4, <1>5

\* The runs are the seconds that count, one after the other.
LEMMA RunsAre ==
    ASSUME NEW hit \in [0 .. Seconds - 1 -> BOOLEAN]
    PROVE  Runs(hit) \in Found /\ RunsUpTo(Runs(hit), hit, Seconds)
<1> DEFINE Body(g) == [i \in 0 .. Seconds |->
                         IF i = 0 THEN <<>> ELSE Scan(g[i - 1], hit, i - 1)]
           runs == CHOOSE g : g = Body(g)
<1>1. Seconds \in Nat /\ <<>> \in Found
  <2>1. <<>> \in Found
    BY EmptySeq DEF Found
  <2> QED
    BY <2>1, SelectionNumbers
<1>2. ASSUME NEW i \in 1 .. Seconds
      PROVE  i - 1 \in 0 .. Seconds - 1 /\ i - 1 \in 0 .. Seconds
  BY <1>1
<1>3. PICK D \in [(1 .. Seconds) \X Found -> Found] :
         \A k \in 1 .. Seconds : \A v \in Found : D[<<k, v>>] = Scan(v, hit, k - 1)
  <2> DEFINE G == [p \in (1 .. Seconds) \X Found |-> Scan(p[2], hit, p[1] - 1)]
  <2>1. G \in [(1 .. Seconds) \X Found -> Found]
    <3>1. ASSUME NEW k \in 1 .. Seconds, NEW v \in Found
          PROVE  Scan(v, hit, k - 1) \in Found
      BY <1>2, ScanKeepsType
    <3> QED
      BY <3>1
  <2>2. \A k \in 1 .. Seconds : \A v \in Found : G[<<k, v>>] = Scan(v, hit, k - 1)
    OBVIOUS
  <2> HIDE DEF G
  <2> QED
    BY <2>1, <2>2
<1>4. PICK F : Reached(Found, <<>>, Seconds, D, F)
  <2>1. Rounds(Found, <<>>, Seconds, D)
    BY <1>1 DEF Rounds
  <2> QED
    BY <2>1, Recursion
<1>5. F = Body(F)
  <2>1. ASSUME NEW i \in 0 .. Seconds
        PROVE  F[i] = IF i = 0 THEN <<>> ELSE Scan(F[i - 1], hit, i - 1)
    <3>1. CASE i = 0
      BY <1>4, <3>1 DEF Reached
    <3>2. CASE i # 0
      <4>1. i \in 1 .. Seconds /\ F[i - 1] \in Found
        BY <1>2, <1>4, <3>2 DEF Reached
      <4> QED
        BY <1>3, <1>4, <3>2, <4>1 DEF Reached
    <3> QED
      BY <3>1, <3>2
  <2>2. F = [i \in 0 .. Seconds |-> F[i]]
    BY <1>4 DEF Reached
  <2> QED
    BY <2>1, <2>2
<1>6. runs = Body(runs)
  <2> HIDE DEF Body
  <2> QED
    BY <1>5
<1>7. Runs(hit) = runs[Seconds]
  BY DEF Runs
<1> HIDE DEF runs
<1> DEFINE S == {i \in 0 .. Seconds : runs[i] \in Found /\ RunsUpTo(runs[i], hit, i)}
<1>8. 0 \in S
  <2>1. 0 \in 0 .. Seconds /\ runs[0] = <<>>
    BY <1>1, <1>6
  <2>2. RunsUpTo(<<>>, hit, 0)
    BY DEF RunsUpTo
  <2> QED
    BY <1>1, <2>1, <2>2
<1>9. ASSUME NEW i \in S, i \in 0 .. Seconds - 1 PROVE i + 1 \in S
  <2>1. i + 1 \in 0 .. Seconds /\ i + 1 # 0 /\ (i + 1) - 1 = i
    BY <1>1, <1>9
  <2>2. runs[i + 1] = Scan(runs[i], hit, i)
    BY <1>6, <2>1
  <2>3. runs[i] \in Found /\ RunsUpTo(runs[i], hit, i)
    OBVIOUS
  <2>4. runs[i + 1] \in Found /\ RunsUpTo(runs[i + 1], hit, i + 1)
    BY <1>9, <2>2, <2>3, ScanKeepsType, ScanKeepsRuns
  <2> QED
    BY <2>1, <2>4
<1>10. Seconds \in S
  <2> HIDE DEF S
  <2>1. 0 .. Seconds \subseteq S
    BY <1>1, <1>8, <1>9, Induction
  <2> QED
    BY <1>1, <2>1
<1> QED
  BY <1>7, <1>10

-----------------------------------------------------------------------------
(* The stretches.                                                          *)

\* No gap seconds in a row without a hit from i to before j.
Dense(hit, gap, i, j) == \A q \in i .. j - gap : \E x \in q .. q + gap - 1 : hit[x]

\* What merging has made of the first k runs.
MergedUpTo(m, runs, hit, gap, k) ==
    /\ k = 0 => m = <<>>
    /\ m # <<>> => k > 0 /\ m[Len(m)].end = runs[k].end
    /\ \A a \in DOMAIN m : /\ m[a].start < m[a].end
                           /\ hit[m[a].start] /\ hit[m[a].end - 1]
                           /\ Dense(hit, gap, m[a].start, m[a].end)
    /\ \A a, b \in DOMAIN m : a < b => m[a].end + gap <= m[b].start
    /\ \A c \in 1 .. k : \E a \in DOMAIN m :
          m[a].start <= runs[c].start /\ runs[c].end <= m[a].end

\* A run is all hits.
LEMMA RunIs ==
    ASSUME NEW runs \in Found, NEW hit, RunsUpTo(runs, hit, Seconds),
           NEW c \in DOMAIN runs
    PROVE  /\ runs[c] \in Segment /\ runs[c].start \in Nat /\ runs[c].end \in Nat
           /\ runs[c].start < runs[c].end /\ runs[c].end <= Seconds
           /\ \A x \in runs[c].start .. runs[c].end - 1 : hit[x]
<1>1. runs[c] \in Segment
  BY DEF Found
<1>2. runs[c].start \in 0 .. Seconds /\ runs[c].end \in 0 .. Seconds
  BY <1>1 DEF Segment
<1>3. runs[c].start < runs[c].end
  BY DEF RunsUpTo
<1>4. ASSUME NEW x \in runs[c].start .. runs[c].end - 1 PROVE hit[x]
  <2>1. x \in 0 .. Seconds - 1 /\ runs[c].start <= x /\ x < runs[c].end
    BY <1>2, SelectionNumbers
  <2> QED
    BY <2>1 DEF RunsUpTo
<1> QED
  BY <1>1, <1>2, <1>3, <1>4, SelectionNumbers

\* A run that joins leaves no gap.
LEMMA DenseJoins ==
    ASSUME NEW hit, NEW gap \in Nat \ {0}, NEW i \in Int, NEW e \in Int,
           NEW s \in Int, NEW j \in Int,
           i < e, s - e < gap, s < j, hit[e - 1],
           Dense(hit, gap, i, e), \A x \in s .. j - 1 : hit[x]
    PROVE  Dense(hit, gap, i, j)
<1>1. ASSUME NEW q \in i .. j - gap PROVE \E x \in q .. q + gap - 1 : hit[x]
  <2>1. CASE q <= e - gap
    <3>1. q \in i .. e - gap
      BY <2>1
    <3> QED
      BY <3>1 DEF Dense
  <2>2. CASE ~(q <= e - gap) /\ q <= e - 1
    <3>1. e - 1 \in q .. q + gap - 1
      BY <2>2
    <3> QED
      BY <3>1
  <2>3. CASE ~(q <= e - 1) /\ q <= s
    <3>1. s \in q .. q + gap - 1 /\ s \in s .. j - 1
      BY <2>3
    <3> QED
      BY <3>1
  <2>4. CASE ~(q <= s)
    <3>1. q \in q .. q + gap - 1 /\ q \in s .. j - 1
      BY <2>4
    <3> QED
      BY <3>1
  <2> QED
    BY <2>1, <2>2, <2>3, <2>4
<1> QED
  BY <1>1 DEF Dense

\* A run that is joined or added leaves a list of segments, ...
LEMMA JoinKeepsType ==
    ASSUME NEW m \in Found, NEW s \in Segment, NEW gap
    PROVE  JoinRun(m, s, gap) \in Found
<1>1. s.end \in 0 .. Seconds
  BY DEF Segment
<1> QED
  BY <1>1, LastGrows, OneMore DEF JoinRun

\* ... and what was merged goes one run further.
LEMMA JoinKeepsMerged ==
    ASSUME NEW runs \in Found, NEW hit, RunsUpTo(runs, hit, Seconds),
           NEW k \in DOMAIN runs, NEW gap \in Nat \ {0},
           NEW m \in Found, MergedUpTo(m, runs, hit, gap, k - 1)
    PROVE  MergedUpTo(JoinRun(m, runs[k], gap), runs, hit, gap, k)
<1> DEFINE s == runs[k]
           n == Len(m)
<1>1. /\ s \in Segment /\ s.start \in Nat /\ s.end \in Nat
      /\ s.start < s.end /\ s.end <= Seconds
      /\ \A x \in s.start .. s.end - 1 : hit[x]
  BY RunIs
<1>2. /\ \A a \in DOMAIN m : m[a].start \in Nat /\ m[a].end \in Nat
                             /\ a \in 1 .. n /\ a \in Int
      /\ n \in Nat /\ (m # <<>> => n \in DOMAIN m)
  <2>1. m \in Seq(Segment)
    BY DEF Found
  <2>2. \A a \in DOMAIN m : m[a] \in Segment /\ a \in 1 .. n /\ a \in Int
    BY <2>1
  <2>3. n \in Nat /\ (m # <<>> => n \in DOMAIN m)
    BY <2>1
  <2> QED
    BY <2>1, <2>2, <2>3 DEF Segment
<1>3. /\ \A c \in DOMAIN runs : runs[c].start \in Nat /\ runs[c].end \in Nat
      /\ k \in Nat \ {0} /\ 1 .. k = (1 .. k - 1) \cup {k} /\ DOMAIN runs = 1 .. Len(runs)
      /\ Len(runs) \in Nat
  <2>1. runs \in Seq(Segment)
    BY DEF Found
  <2>2. \A c \in DOMAIN runs : runs[c].start \in Nat /\ runs[c].end \in Nat
    BY RunIs
  <2>3. DOMAIN runs = 1 .. Len(runs) /\ Len(runs) \in Nat
    BY <2>1
  <2>4. k \in Nat \ {0} /\ 1 .. k = (1 .. k - 1) \cup {k}
    BY <2>3
  <2> QED
    BY <2>2, <2>3, <2>4
<1>4. \A c \in 1 .. k - 1 : c \in DOMAIN runs /\ runs[c].end < s.start
  <2>1. ASSUME NEW c \in 1 .. k - 1 PROVE c \in DOMAIN runs /\ runs[c].end < s.start
    <3>1. c \in DOMAIN runs /\ c < k
      BY <1>3
    <3> QED
      BY <3>1 DEF RunsUpTo
  <2> QED
    BY <2>1
<1>5. m # <<>> => m[n].end < s.start
  <2>1. ASSUME m # <<>> PROVE m[n].end < s.start
    <3>1. k - 1 > 0 /\ m[n].end = runs[k - 1].end
      BY <2>1 DEF MergedUpTo
    <3>2. k - 1 \in 1 .. k - 1
      BY <1>3, <3>1
    <3> QED
      BY <1>4, <3>1, <3>2
  <2> QED
    BY <2>1
<1>6. CASE m # <<>> /\ s.start - m[n].end < gap
  <2> DEFINE g == [m EXCEPT ![Len(m)].end = s.end]
  <2>1. JoinRun(m, s, gap) = g
    BY <1>6 DEF JoinRun
  <2>2. /\ g \in Found /\ Len(g) = Len(m) /\ n \in DOMAIN m
        /\ \A a \in DOMAIN m : g[a].start = m[a].start
        /\ \A a \in DOMAIN m : a # n => g[a] = m[a]
        /\ g[n].end = s.end
    <3>1. s.end \in 0 .. Seconds
      BY <1>1 DEF Segment
    <3> QED
      BY <1>6, <3>1, LastGrows
  <2>3. DOMAIN g = DOMAIN m
    OBVIOUS
  <2> HIDE DEF g, n, s
  <2>4. g # <<>> /\ k > 0 /\ g[Len(g)].end = runs[k].end
    <3>1. g # <<>>
      BY <2>2, <2>3
    <3> QED
      BY <1>3, <2>2, <3>1 DEF n, s
  <2>5. ASSUME NEW a \in DOMAIN g
        PROVE  /\ g[a].start < g[a].end /\ hit[g[a].start] /\ hit[g[a].end - 1]
               /\ Dense(hit, gap, g[a].start, g[a].end)
    <3>1. /\ m[a].start < m[a].end /\ hit[m[a].start] /\ hit[m[a].end - 1]
          /\ Dense(hit, gap, m[a].start, m[a].end)
      BY <2>3 DEF MergedUpTo
    <3>2. CASE a # n
      BY <2>2, <2>3, <3>1, <3>2
    <3>3. CASE a = n
      <4>1. g[n].start = m[n].start /\ g[n].end = s.end
        BY <2>2
      <4>2. /\ m[n].start \in Int /\ m[n].end \in Int /\ m[n].start < m[n].end
            /\ s.start \in Int /\ s.end \in Int
        BY <1>1, <1>2, <2>3, <3>1, <3>3
      <4>3. m[n].start < s.end /\ s.end - 1 \in s.start .. s.end - 1
        BY <1>1, <1>5, <1>6, <4>2
      <4>4. Dense(hit, gap, m[n].start, s.end)
        BY <1>1, <1>6, <3>1, <3>3, <4>2, DenseJoins
      <4> QED
        BY <1>1, <3>1, <3>3, <4>1, <4>3, <4>4
    <3> QED
      BY <3>2, <3>3
  <2>6. ASSUME NEW a \in DOMAIN g, NEW b \in DOMAIN g, a < b
        PROVE  g[a].end + gap <= g[b].start
    <3>1. a # n
      BY <1>2, <2>3, <2>6
    <3> QED
      BY <2>2, <2>3, <2>6, <3>1 DEF MergedUpTo
  <2>7. ASSUME NEW c \in 1 .. k
        PROVE  \E a \in DOMAIN g : g[a].start <= runs[c].start /\ runs[c].end <= g[a].end
    <3>1. CASE c = k
      <4>1. m[n].start < m[n].end
        BY <2>2 DEF MergedUpTo
      <4>2. g[n].start <= s.start /\ s.end <= g[n].end
        BY <1>1, <1>2, <1>5, <1>6, <2>2, <4>1
      <4> QED
        BY <2>2, <2>3, <3>1, <4>2 DEF s
    <3>2. CASE c # k
      <4>1. c \in 1 .. k - 1
        BY <1>3, <3>2
      <4>2. PICK a \in DOMAIN m : m[a].start <= runs[c].start /\ runs[c].end <= m[a].end
        BY <4>1 DEF MergedUpTo
      <4>3. CASE a # n
        BY <2>2, <2>3, <4>2, <4>3
      <4>4. CASE a = n
        <5>1. runs[c].end <= s.end
          BY <1>1, <1>3, <1>4, <4>1
        <5> QED
          BY <2>2, <2>3, <4>2, <4>4, <5>1
      <4> QED
        BY <4>3, <4>4
    <3> QED
      BY <3>1, <3>2
  <2>8. k # 0
    BY <1>3
  <2> QED
    BY <2>1, <2>4, <2>5, <2>6, <2>7, <2>8 DEF MergedUpTo, s
<1>7. CASE ~(m # <<>> /\ s.start - m[n].end < gap)
  <2> DEFINE g == Append(m, s)
  <2>1. JoinRun(m, s, gap) = g
    BY <1>7 DEF JoinRun
  <2>2. /\ DOMAIN g = (DOMAIN m) \cup {n + 1} /\ n \in Nat
        /\ \A a \in DOMAIN m : g[a] = m[a] /\ a \in 1 .. n
        /\ g[n + 1] = s /\ Len(g) = n + 1
    BY <1>1, OneMore
  <2> HIDE DEF g, n, s
  <2>3. g # <<>> /\ k > 0 /\ k # 0 /\ g[Len(g)].end = runs[k].end
    <3>1. g # <<>>
      BY <2>2
    <3> QED
      BY <1>3, <2>2, <3>1 DEF s
  <2>4. ASSUME NEW a \in DOMAIN g
        PROVE  /\ g[a].start < g[a].end /\ hit[g[a].start] /\ hit[g[a].end - 1]
               /\ Dense(hit, gap, g[a].start, g[a].end)
    <3>1. CASE a = n + 1
      <4>1. s.start \in s.start .. s.end - 1 /\ s.end - 1 \in s.start .. s.end - 1
        BY <1>1
      <4>2. Dense(hit, gap, s.start, s.end)
        <5>1. ASSUME NEW q \in s.start .. s.end - gap
              PROVE  \E x \in q .. q + gap - 1 : hit[x]
          <6>1. q \in s.start .. s.end - 1 /\ q \in q .. q + gap - 1
            BY <1>1
          <6> QED
            BY <1>1, <6>1
        <5> QED
          BY <5>1 DEF Dense
      <4> QED
        BY <1>1, <2>2, <3>1, <4>1, <4>2
    <3>2. CASE a # n + 1
      BY <2>2, <3>2 DEF MergedUpTo
    <3> QED
      BY <3>1, <3>2
  <2>5. \A a \in DOMAIN m : m[a].end + gap <= s.start
    <3>1. ASSUME NEW a \in DOMAIN m PROVE m[a].end + gap <= s.start
      <4>1. m # <<>> /\ n \in DOMAIN m
        <5>1. m # <<>>
          OBVIOUS
        <5> QED
          BY <1>2, <5>1
      <4>2. m[n].end + gap <= s.start
        BY <1>1, <1>2, <1>7, <4>1
      <4>3. CASE a = n
        BY <4>2, <4>3
      <4>4. CASE a # n
        <5>1. a < n
          BY <1>2, <4>4
        <5>2. m[a].end + gap <= m[n].start /\ m[n].start < m[n].end
          BY <4>1, <5>1 DEF MergedUpTo
        <5> QED
          BY <1>1, <1>2, <4>1, <4>2, <5>2
      <4> QED
        BY <4>3, <4>4
    <3> QED
      BY <3>1
  <2>6. ASSUME NEW a \in DOMAIN g, NEW b \in DOMAIN g, a < b
        PROVE  g[a].end + gap <= g[b].start
    <3>1. CASE b = n + 1
      <4>1. a \in DOMAIN m
        BY <2>2, <2>6, <3>1
      <4> QED
        BY <2>2, <2>5, <3>1, <4>1
    <3>2. CASE b # n + 1
      <4>1. b \in DOMAIN m /\ b \in 1 .. n
        BY <2>2, <3>2
      <4>2. a \in DOMAIN m
        BY <2>2, <2>6, <4>1
      <4> QED
        BY <2>2, <2>6, <4>1, <4>2 DEF MergedUpTo
    <3> QED
      BY <3>1, <3>2
  <2>7. ASSUME NEW c \in 1 .. k
        PROVE  \E a \in DOMAIN g : g[a].start <= runs[c].start /\ runs[c].end <= g[a].end
    <3>1. CASE c = k
      <4>1. g[n + 1].start <= s.start /\ s.end <= g[n + 1].end
        BY <1>1, <2>2
      <4> QED
        BY <2>2, <3>1, <4>1 DEF s
    <3>2. CASE c # k
      <4>1. c \in 1 .. k - 1
        BY <1>3, <3>2
      <4>2. PICK a \in DOMAIN m : m[a].start <= runs[c].start /\ runs[c].end <= m[a].end
        BY <4>1 DEF MergedUpTo
      <4> QED
        BY <2>2, <4>2
    <3> QED
      BY <3>1, <3>2
  <2> QED
    BY <2>1, <2>3, <2>4, <2>6, <2>7 DEF MergedUpTo, s
<1> QED
  BY <1>6, <1>7

\* Stretches of hits, each without a gap and a gap apart, that have every hit.
InParts(m, hit, gap) ==
    /\ \A a \in DOMAIN m : /\ m[a].start < m[a].end
                           /\ hit[m[a].start] /\ hit[m[a].end - 1]
                           /\ Dense(hit, gap, m[a].start, m[a].end)
    /\ \A a, b \in DOMAIN m : a < b => m[a].end + gap <= m[b].start
    /\ \A x \in 0 .. Seconds - 1 :
          hit[x] => \E a \in DOMAIN m : m[a].start <= x /\ x < m[a].end

\* MergeRuns makes them of the runs.
LEMMA MergeIs ==
    ASSUME NEW hit \in [0 .. Seconds - 1 -> BOOLEAN], NEW gap \in Nat \ {0}
    PROVE  /\ MergeRuns(Runs(hit), gap) \in Found
           /\ InParts(MergeRuns(Runs(hit), gap), hit, gap)
<1>1. PICK runs \in Found : runs = Runs(hit) /\ RunsUpTo(runs, hit, Seconds)
  BY RunsAre
<1>2. PICK n \in Nat : n = Len(runs) /\ DOMAIN runs = 1 .. n
  <2>1. runs \in Seq(Segment)
    BY DEF Found
  <2> QED
    BY <2>1
<1>3. \A k \in 1 .. n : runs[k] \in Segment
  BY <1>1, <1>2, RunIs
<1> DEFINE Body(g) == [k \in 0 .. Len(runs) |->
                         IF k = 0 THEN <<>> ELSE JoinRun(g[k - 1], runs[k], gap)]
           merged == CHOOSE g : g = Body(g)
<1>4. <<>> \in Found
  BY EmptySeq DEF Found
<1>5. PICK D \in [(1 .. n) \X Found -> Found] :
         \A k \in 1 .. n : \A v \in Found : D[<<k, v>>] = JoinRun(v, runs[k], gap)
  <2> DEFINE G == [p \in (1 .. n) \X Found |-> JoinRun(p[2], runs[p[1]], gap)]
  <2>1. G \in [(1 .. n) \X Found -> Found]
    <3>1. ASSUME NEW k \in 1 .. n, NEW v \in Found PROVE JoinRun(v, runs[k], gap) \in Found
      BY <1>3, JoinKeepsType
    <3> QED
      BY <3>1
  <2>2. \A k \in 1 .. n : \A v \in Found : G[<<k, v>>] = JoinRun(v, runs[k], gap)
    OBVIOUS
  <2> HIDE DEF G
  <2> QED
    BY <2>1, <2>2
<1>6. PICK F : Reached(Found, <<>>, n, D, F)
  <2>1. Rounds(Found, <<>>, n, D)
    BY <1>4 DEF Rounds
  <2> QED
    BY <2>1, Recursion
<1>7. F = Body(F)
  <2>1. ASSUME NEW i \in 0 .. n
        PROVE  F[i] = IF i = 0 THEN <<>> ELSE JoinRun(F[i - 1], runs[i], gap)
    <3>1. CASE i = 0
      BY <1>6, <3>1 DEF Reached
    <3>2. CASE i # 0
      <4>1. i \in 1 .. n /\ i - 1 \in 0 .. n
        BY <3>2
      <4>2. F[i - 1] \in Found
        BY <1>6, <4>1 DEF Reached
      <4> QED
        BY <1>5, <1>6, <3>2, <4>1, <4>2 DEF Reached
    <3> QED
      BY <3>1, <3>2
  <2>2. F = [i \in 0 .. n |-> F[i]]
    BY <1>6 DEF Reached
  <2> QED
    BY <1>2, <2>1, <2>2
<1>8. merged = Body(merged)
  <2> HIDE DEF Body
  <2> QED
    BY <1>7
<1>9. MergeRuns(Runs(hit), gap) = merged[n]
  BY <1>1, <1>2 DEF MergeRuns
<1> HIDE DEF merged
<1> DEFINE S == {i \in 0 .. n : /\ merged[i] \in Found
                                /\ MergedUpTo(merged[i], runs, hit, gap, i)}
<1>10. 0 \in S
  <2>1. 0 \in 0 .. n /\ merged[0] = <<>>
    BY <1>2, <1>8
  <2>2. MergedUpTo(<<>>, runs, hit, gap, 0)
    BY DEF MergedUpTo
  <2> QED
    BY <1>4, <2>1, <2>2
<1>11. ASSUME NEW i \in S, i \in 0 .. n - 1 PROVE i + 1 \in S
  <2>1. i + 1 \in 0 .. n /\ i + 1 # 0 /\ (i + 1) - 1 = i /\ i + 1 \in 1 .. n
    BY <1>11
  <2>2. merged[i + 1] = JoinRun(merged[i], runs[i + 1], gap)
    BY <1>2, <1>8, <2>1
  <2>3. merged[i] \in Found /\ MergedUpTo(merged[i], runs, hit, gap, i)
    OBVIOUS
  <2>4. merged[i + 1] \in Found
    BY <1>3, <2>1, <2>2, <2>3, JoinKeepsType
  <2>5. MergedUpTo(merged[i + 1], runs, hit, gap, i + 1)
    BY <1>1, <1>2, <2>1, <2>2, <2>3, JoinKeepsMerged
  <2> QED
    BY <2>1, <2>4, <2>5
<1>12. n \in S
  <2> HIDE DEF S
  <2>1. 0 .. n \subseteq S
    BY <1>10, <1>11, Induction
  <2> QED
    BY <2>1
<1>13. PICK m \in Found :
          m = MergeRuns(Runs(hit), gap) /\ MergedUpTo(m, runs, hit, gap, n)
  BY <1>9, <1>12
<1>14. ASSUME NEW x \in 0 .. Seconds - 1, hit[x]
       PROVE  \E a \in DOMAIN m : m[a].start <= x /\ x < m[a].end
  <2>1. PICK c \in DOMAIN runs : runs[c].start <= x /\ x < runs[c].end
    BY <1>1, <1>14 DEF RunsUpTo
  <2>2. PICK a \in DOMAIN m : m[a].start <= runs[c].start /\ runs[c].end <= m[a].end
    BY <1>2, <1>13, <2>1 DEF MergedUpTo
  <2>3. m[a] \in Segment
    BY DEF Found
  <2>4. m[a].start \in Int /\ m[a].end \in Int /\ runs[c].start \in Int /\ runs[c].end \in Int
    BY <1>2, <1>3, <2>3 DEF Segment
  <2>5. x \in Int
    BY SelectionNumbers
  <2> QED
    BY <2>1, <2>2, <2>4, <2>5
<1> QED
  BY <1>13, <1>14 DEF InParts, MergedUpTo

\* What is without a gap is in one of the parts.
LEMMA InOnePart ==
    ASSUME NEW m \in Found, NEW hit, NEW gap \in Nat \ {0}, InParts(m, hit, gap),
           NEW i \in 0 .. Seconds - 1, NEW j \in 0 .. Seconds - 1, i <= j,
           hit[i], hit[j], Dense(hit, gap, i, j + 1)
    PROVE  \E a \in DOMAIN m : m[a].start <= i /\ j < m[a].end
<1>1. Seconds \in Nat /\ i \in Int /\ j \in Int
  BY SelectionNumbers
<1>2. \A a \in DOMAIN m : /\ m[a].start \in Int /\ m[a].end \in Int /\ a \in Int
                          /\ m[a].start < m[a].end
  <2>1. m \in Seq(Segment)
    BY DEF Found
  <2>2. \A a \in DOMAIN m : m[a] \in Segment /\ a \in Int
    BY <2>1
  <2> QED
    BY <2>2 DEF Segment, InParts
<1>3. PICK a \in DOMAIN m : m[a].start <= i /\ i < m[a].end
  BY DEF InParts
<1>4. ASSUME ~(j < m[a].end) PROVE FALSE
  <2>1. PICK b \in DOMAIN m : m[b].start <= j /\ j < m[b].end
    BY DEF InParts
  <2>2. a # b
    BY <1>1, <1>2, <1>4, <2>1
  <2>3. ~(b < a)
    <3>1. ASSUME b < a PROVE FALSE
      <4>1. m[b].end + gap <= m[a].start
        BY <3>1 DEF InParts
      <4> QED
        BY <1>1, <1>2, <1>3, <2>1, <4>1
    <3> QED
      BY <3>1
  <2>4. m[a].end + gap <= m[b].start
    <3>1. a < b
      BY <1>2, <2>2, <2>3
    <3> QED
      BY <3>1 DEF InParts
  <2>5. PICK e \in Int : e = m[a].end
    BY <1>2
  <2>6. e \in i .. (j + 1) - gap
    BY <1>1, <1>2, <1>3, <2>1, <2>4, <2>5
  <2>7. PICK x \in e .. e + gap - 1 : hit[x]
    BY <2>6 DEF Dense
  <2>8. x \in 0 .. Seconds - 1
    BY <1>1, <2>6
  <2>9. PICK c \in DOMAIN m : m[c].start <= x /\ x < m[c].end
    BY <2>7, <2>8 DEF InParts
  <2>10. CASE c = a
    BY <1>2, <2>5, <2>9, <2>10
  <2>11. CASE c < a
    <3>1. m[c].end + gap <= m[a].start
      BY <2>11 DEF InParts
    <3> QED
      BY <1>2, <2>5, <2>9, <3>1
  <2>12. CASE a < c
    <3>1. m[a].end + gap <= m[c].start
      BY <2>12 DEF InParts
    <3> QED
      BY <1>2, <2>5, <2>9, <3>1
  <2> QED
    BY <1>2, <2>10, <2>11, <2>12
<1> QED
  BY <1>3, <1>4

\* And a part is in no other.
LEMMA PartsApart ==
    ASSUME NEW m \in Found, NEW hit, NEW gap \in Nat \ {0}, InParts(m, hit, gap),
           NEW a \in DOMAIN m, NEW b \in DOMAIN m,
           m[b].start <= m[a].start, m[a].end <= m[b].end
    PROVE  a = b
<1>1. \A c \in DOMAIN m : /\ m[c].start \in Int /\ m[c].end \in Int /\ c \in Int
                          /\ m[c].start < m[c].end
  <2>1. m \in Seq(Segment)
    BY DEF Found
  <2>2. \A c \in DOMAIN m : m[c] \in Segment /\ c \in Int
    BY <2>1
  <2> QED
    BY <2>2 DEF Segment, InParts
<1>2. a < b => m[a].end + gap <= m[b].start
  BY DEF InParts
<1>3. b < a => m[b].end + gap <= m[a].start
  BY DEF InParts
<1> QED
  BY <1>1, <1>2, <1>3

\* Together, of the seconds that count.
LEMMA TogetherIs ==
    ASSUME scores \in Clip, options \in SelectionOptions,
           NEW i \in 0 .. Seconds - 1, NEW j \in 0 .. Seconds - 1
    PROVE  LET hit == Hits(scores, options)
           IN  Together(i, j) <=> hit[i] /\ hit[j] /\ Dense(hit, options.gap, i, j + 1)
<1> DEFINE hit == Hits(scores, options)
<1>1. /\ Seconds \in Nat /\ i \in Int /\ j \in Int
      /\ options.gap \in Nat \ {0} /\ options.exit \in Nat
  BY SelectionNumbers
<1>2. ASSUME NEW x \in 0 .. Seconds - 1 PROVE hit[x] \in BOOLEAN /\ hit[x] = IsHit(x)
  <2>1. IsHit(x) = HitIn(scores, options, x)
    BY DEF IsHit, HitIn, In
  <2> QED
    BY <2>1, HitsAre
<1> HIDE DEF hit
<1>3. i .. (j + 1) - options.gap = i .. j - options.gap + 1
  BY <1>1
<1>4. ASSUME NEW q \in i .. j - options.gap + 1
      PROVE  (\E k \in q .. q + options.gap - 1 : IsHit(k))
               <=> \E k \in q .. q + options.gap - 1 : hit[k]
  <2>1. q .. q + options.gap - 1 \subseteq 0 .. Seconds - 1
    BY <1>1
  <2> QED
    BY <1>2, <2>1
<1>5. Together(i, j) <=> hit[i] /\ hit[j] /\ Dense(hit, options.gap, i, j + 1)
  BY <1>2, <1>3, <1>4 DEF Together, Dense
<1> QED
  BY <1>5 DEF hit

\* The stretches of the definition are the merged runs that are long enough.
LEMMA StretchesAre ==
    ASSUME scores \in Clip, options \in SelectionOptions,
           NEW m, m = MergeRuns(Runs(Hits(scores, options)), options.gap)
    PROVE  /\ m \in Found /\ InParts(m, Hits(scores, options), options.gap)
           /\ Stretches = {m[a] : a \in {k \in DOMAIN m : Duration(m[k]) >= options.min}}
<1>1. PICK hit : hit = Hits(scores, options)
  OBVIOUS
<1>2. PICK gap \in Nat \ {0} : gap = options.gap
  BY SelectionNumbers
<1>3. hit \in [0 .. Seconds - 1 -> BOOLEAN]
  <2>1. \A x \in 0 .. Seconds - 1 : hit[x] \in BOOLEAN
    BY <1>1, HitsAre
  <2>2. hit = [x \in 0 .. Seconds - 1 |-> hit[x]]
    <3>1. CASE options.exit > 0
      <4>1. hit = HysteresisMask(scores, options.exit)
        BY <1>1, <3>1 DEF Hits
      <4> QED
        <5>1. options.exit # 0
          BY <3>1
        <5> QED
          BY <4>1, <5>1, HysteresisIs
    <3>2. CASE ~(options.exit > 0)
      BY <1>1, <3>2 DEF Hits
    <3> QED
      BY <3>1, <3>2
  <2> QED
    BY <2>1, <2>2
<1>4. m \in Found /\ InParts(m, hit, gap)
  BY <1>1, <1>2, <1>3, MergeIs
<1>5. \A i, j \in 0 .. Seconds - 1 :
         Together(i, j) <=> hit[i] /\ hit[j] /\ Dense(hit, gap, i, j + 1)
  BY <1>1, <1>2, TogetherIs
<1>6. ASSUME NEW a \in DOMAIN m
      PROVE  /\ m[a].start \in 0 .. Seconds - 1 /\ m[a].end - 1 \in 0 .. Seconds - 1
             /\ m[a].start <= m[a].end - 1 /\ m[a].end \in Int
             /\ Together(m[a].start, m[a].end - 1)
             /\ m[a] = [start |-> m[a].start, end |-> m[a].end]
  <2>1. m[a] \in Segment
    BY <1>4 DEF Found
  <2>2. /\ m[a].start \in 0 .. Seconds /\ m[a].end \in 0 .. Seconds
        /\ m[a] = [start |-> m[a].start, end |-> m[a].end]
    BY <2>1 DEF Segment
  <2>3. /\ m[a].start < m[a].end /\ hit[m[a].start] /\ hit[m[a].end - 1]
        /\ Dense(hit, gap, m[a].start, m[a].end)
    BY <1>4 DEF InParts
  <2>4. /\ m[a].start \in 0 .. Seconds - 1 /\ m[a].end - 1 \in 0 .. Seconds - 1
        /\ m[a].start <= m[a].end - 1 /\ m[a].end \in Int
        /\ (m[a].end - 1) + 1 = m[a].end
    BY <2>2, <2>3, SelectionNumbers
  <2> QED
    BY <1>5, <2>2, <2>3, <2>4
<1>7. \A a \in DOMAIN m : m[a].start \in Int /\ m[a].end \in Int
  <2>1. \A a \in DOMAIN m : m[a] \in Segment
    BY <1>4 DEF Found
  <2> QED
    BY <2>1 DEF Segment
<1> DEFINE inside == {ij \in (0 .. Seconds - 1) \X (0 .. Seconds - 1) :
                         ij[1] <= ij[2] /\ Together(ij[1], ij[2])}
           Longest(p) == \A q \in inside : q[1] <= p[1] /\ q[2] >= p[2] => q = p
           long == {k \in DOMAIN m : Duration(m[k]) >= options.min}
           Pair(a) == <<m[a].start, m[a].end - 1>>
<1>8. ASSUME NEW p \in inside PROVE \E a \in DOMAIN m : m[a].start <= p[1] /\ p[2] < m[a].end
  <2>1. /\ p[1] \in 0 .. Seconds - 1 /\ p[2] \in 0 .. Seconds - 1 /\ p[1] <= p[2]
        /\ Together(p[1], p[2])
    OBVIOUS
  <2>2. hit[p[1]] /\ hit[p[2]] /\ Dense(hit, gap, p[1], p[2] + 1)
    BY <1>5, <2>1
  <2> QED
    BY <1>4, <2>1, <2>2, InOnePart
<1>9. ASSUME NEW p \in inside
      PROVE  p[1] \in Int /\ p[2] \in Int /\ p = <<p[1], p[2]>>
  BY SelectionNumbers
<1>10. ASSUME NEW a \in DOMAIN m
      PROVE  Pair(a) \in inside /\ Pair(a)[1] = m[a].start /\ Pair(a)[2] = m[a].end - 1
  BY <1>6
<1> HIDE DEF inside, Pair
<1>11. ASSUME NEW a \in DOMAIN m PROVE Longest(Pair(a))
  <2>1. SUFFICES ASSUME NEW q \in inside, q[1] <= Pair(a)[1], q[2] >= Pair(a)[2]
                 PROVE  q = Pair(a)
    OBVIOUS
  <2>2. PICK b \in DOMAIN m : m[b].start <= q[1] /\ q[2] < m[b].end
    BY <1>8
  <2>3. /\ m[b].start \in Int /\ m[b].end \in Int /\ m[a].start \in Int
        /\ m[a].end \in Int
    BY <1>7
  <2>4. m[b].start <= m[a].start /\ m[a].end <= m[b].end
    BY <1>9, <1>10, <2>1, <2>2, <2>3
  <2>5. a = b
    BY <1>4, <2>4, PartsApart
  <2>6. q[1] = m[a].start /\ q[2] = m[a].end - 1
    BY <1>9, <1>10, <2>1, <2>2, <2>3, <2>5
  <2> QED
    BY <1>9, <2>6 DEF Pair
<1>12. ASSUME NEW p \in inside, Longest(p) PROVE \E a \in DOMAIN m : p = Pair(a)
  <2>1. PICK a \in DOMAIN m : m[a].start <= p[1] /\ p[2] < m[a].end
    BY <1>8
  <2>2. Pair(a)[1] <= p[1] /\ Pair(a)[2] >= p[2]
    BY <1>9, <1>10, <1>7, <2>1
  <2>3. Pair(a) = p
    BY <1>10, <1>12, <2>2
  <2> QED
    BY <2>3
<1>13. ASSUME NEW a \in DOMAIN m
       PROVE  /\ [start |-> Pair(a)[1], end |-> Pair(a)[2] + 1] = m[a]
              /\ Pair(a)[2] + 1 - Pair(a)[1] = Duration(m[a])
  <2>1. (m[a].end - 1) + 1 = m[a].end
    BY <1>7
  <2> QED
    BY <1>6, <1>10, <2>1 DEF Duration
<1> DEFINE chosen == {p \in inside : Longest(p) /\ p[2] + 1 - p[1] >= options.min}
<1>14. Stretches = {[start |-> ij[1], end |-> ij[2] + 1] : ij \in chosen}
  BY DEF Stretches, inside
<1>15. ASSUME NEW a \in long PROVE Pair(a) \in chosen
  BY <1>10, <1>11, <1>13
<1>16. ASSUME NEW p \in chosen PROVE \E a \in long : p = Pair(a)
  BY <1>12, <1>13
<1> HIDE DEF chosen, long
<1>17. long \subseteq DOMAIN m
  BY DEF long
<1>18. {[start |-> ij[1], end |-> ij[2] + 1] : ij \in chosen} = {m[a] : a \in long}
  <2>1. ASSUME NEW a \in long
        PROVE  \E ij \in chosen : m[a] = [start |-> ij[1], end |-> ij[2] + 1]
    BY <1>13, <1>15, <1>17
  <2>2. ASSUME NEW ij \in chosen
        PROVE  \E a \in long : m[a] = [start |-> ij[1], end |-> ij[2] + 1]
    BY <1>13, <1>16, <1>17
  <2> QED
    BY <2>1, <2>2
<1> QED
  BY <1>1, <1>2, <1>4, <1>14, <1>18 DEF long

\* A stretch is a window, and so are its parts.
LEMMA SegmentIsWindow ==
    ASSUME NEW s \in Segment, s.start < s.end
    PROVE  /\ s.start \in Nat /\ s.end \in Nat /\ s.end <= Seconds
           /\ Duration(s) \in Nat \ {0} /\ s.start + Duration(s) = s.end
           /\ s = Window(s.start, Duration(s))
<1>1. s.start \in 0 .. Seconds /\ s.end \in 0 .. Seconds
  BY DEF Segment
<1>2. Duration(s) = s.end - s.start
  BY DEF Duration
<1>3. s.start + Duration(s) = s.end
  BY <1>1, <1>2
<1>4. s = [start |-> s.start, end |-> s.end]
  BY DEF Segment
<1>5. s = Window(s.start, Duration(s))
  BY <1>3, <1>4 DEF Window
<1> QED
  BY <1>1, <1>2, <1>3, <1>5, SelectionNumbers

\* The best window is the best part, and the only one.
LEMMA BestWindowIsBest ==
    ASSUME scores \in Clip, options \in SelectionOptions,
           NEW s \in Segment, s.start < s.end
    PROVE  LET w == BestWindow(scores, s, options.max)
           IN  /\ w \in Segment /\ s.start <= w.start /\ w.start < w.end /\ w.end <= s.end
               /\ IsBestPart(w, s) /\ \A v : IsBestPart(v, s) => v = w
<1>1. /\ s.start \in Nat /\ s.end \in Nat /\ s.end <= Seconds
      /\ Duration(s) \in Nat \ {0} /\ s.start + Duration(s) = s.end
      /\ s = Window(s.start, Duration(s))
  BY SegmentIsWindow
<1>2. options.max \in Nat \ {0} /\ Seconds \in Nat
  BY SelectionNumbers
<1> DEFINE length == IF Duration(s) > options.max THEN options.max ELSE Duration(s)
           T(i) == Total(scores, Window(i, length))
           w == BestWindow(scores, s, options.max)
<1>3. length \in Nat \ {0} /\ length <= Duration(s)
  BY <1>1, <1>2
<1>4. PICK i : IsBestAt(scores, s.start, s.end, length, i) /\ w = Window(i, length)
  <2>1. CASE Duration(s) > options.max
    <3>1. /\ length = options.max /\ options.max < Duration(s)
          /\ s.start + Duration(s) <= Seconds
      BY <1>1, <1>2, <2>1
    <3>2. \E i : /\ IsBestAt(scores, s.start, s.start + Duration(s), options.max, i)
                 /\ BestWindow(scores, Window(s.start, Duration(s)), options.max)
                      = Window(i, options.max)
      BY <1>1, <1>2, <3>1, BestOfWindows
    <3> QED
      BY <1>1, <3>1, <3>2
  <2>2. CASE ~(Duration(s) > options.max)
    <3>1. length = Duration(s) /\ options.max >= Duration(s)
      BY <1>1, <1>2, <2>2
    <3>2. w = s
      BY <3>1 DEF BestWindow
    <3>3. s.start .. s.end - length = {s.start} /\ s.start <= s.start
      BY <1>1, <3>1
    <3>4. T(s.start) \in Int
      <4>1. s.start + length <= Seconds /\ length \in Nat
        BY <1>1, <3>1
      <4> HIDE DEF length
      <4> QED
        BY <1>1, <4>1, TotalGrows
    <3>5. T(s.start) <= T(s.start)
      <4> HIDE DEF T
      <4> QED
        BY <3>4
    <3>6. IsBestAt(scores, s.start, s.end, length, s.start)
      <4> HIDE DEF length
      <4> QED
        BY <3>3, <3>5 DEF IsBestAt
    <3> QED
      BY <1>1, <3>1, <3>2, <3>6
  <2> QED
    BY <2>1, <2>2
<1>5. /\ i \in s.start .. s.end - length
      /\ \A j \in s.start .. s.end - length : T(j) <= T(i) /\ (T(j) = T(i) => i <= j)
  <2> HIDE DEF length
  <2> QED
    BY <1>4 DEF IsBestAt
<1> HIDE DEF w
<1>6. ASSUME NEW j \in s.start .. s.end - length PROVE T(j) \in Int
  <2> HIDE DEF length
  <2>1. j \in Nat /\ j + length <= Seconds /\ length \in Nat
    BY <1>1, <1>2, <1>3
  <2> QED
    BY <2>1, TotalGrows
<1>7. IsBestPart(w, s)
  <2>1. w = [start |-> i, end |-> i + length] /\ w.start = i
    BY <1>4 DEF Window
  <2> QED
    BY <1>4, <1>5, <2>1 DEF IsBestPart, Window
<1>8. ASSUME NEW v, IsBestPart(v, s) PROVE v = w
  <2>1. PICK j \in s.start .. s.end - length : v = [start |-> j, end |-> j + length]
    BY <1>8 DEF IsBestPart
  <2>2. v = Window(j, length) /\ v.start = j /\ w.start = i
    BY <1>4, <2>1 DEF Window
  <2>3. /\ w \in {[start |-> k, end |-> k + length] : k \in s.start .. s.end - length}
    BY <1>4, <1>5 DEF Window
  <2>4. T(i) <= T(j) /\ (T(i) = T(j) => j <= i)
    BY <1>4, <1>8, <2>2, <2>3 DEF IsBestPart
  <2>5. T(j) <= T(i) /\ (T(j) = T(i) => i <= j)
    BY <1>5
  <2>6. T(i) \in Int /\ T(j) \in Int /\ i \in Int /\ j \in Int
    BY <1>1, <1>6, <1>5
  <2> HIDE DEF T
  <2>7. i = j
    BY <2>4, <2>5, <2>6
  <2> QED
    BY <1>4, <2>2, <2>7
<1>9. /\ w \in Segment /\ s.start <= w.start /\ w.start < w.end /\ w.end <= s.end
  <2>1. w = [start |-> i, end |-> i + length]
    BY <1>4 DEF Window
  <2>2. /\ i \in Int /\ s.start <= i /\ i < i + length /\ i + length <= s.end
        /\ i \in 0 .. Seconds /\ i + length \in 0 .. Seconds
    BY <1>1, <1>2, <1>3, <1>5
  <2> QED
    BY <2>1, <2>2 DEF Segment
<1> QED
  BY <1>7, <1>8, <1>9 DEF w

\* Padding keeps a segment in the recording and around what it was.
LEMMA PaddedIs ==
    ASSUME NEW w \in Segment, w.start < w.end
    PROVE  /\ Padded(w) \in Segment
           /\ Padded(w).start <= w.start /\ w.end <= Padded(w).end
           /\ w.start - Pad <= Padded(w).start /\ Padded(w).end <= w.end + Pad
<1>1. /\ w.start \in 0 .. Seconds /\ w.end \in 0 .. Seconds
      /\ Seconds \in Nat /\ Pad \in Nat
  BY SelectionNumbers DEF Segment
<1> DEFINE a == IF w.start < Pad THEN 0 ELSE w.start - Pad
           b == IF w.end + Pad > Seconds THEN Seconds ELSE w.end + Pad
<1>2. /\ a \in 0 .. Seconds /\ b \in 0 .. Seconds /\ a <= w.start /\ w.end <= b
      /\ w.start - Pad <= a /\ b <= w.end + Pad
  BY <1>1
<1>3. Padded(w) = [start |-> a, end |-> b]
  BY DEF Padded
<1> HIDE DEF a, b
<1> QED
  BY <1>2, <1>3 DEF Segment

\* A set keeps its size when every element is renamed.
LEMMA RenamedSize ==
    ASSUME NEW S, IsFiniteSet(S), NEW f, \A a, b \in S : f[a] = f[b] => a = b
    PROVE  Cardinality({f[a] : a \in S}) = Cardinality(S)
<1> DEFINE T == {f[a] : a \in S}
           g == [a \in S |-> f[a]]
<1>1. g \in Bijection(S, T)
  BY DEF Bijection, Injection, Surjection, IsInjective
<1>2. ExistsBijection(S, T)
  BY <1>1 DEF ExistsBijection
<1> QED
  BY <1>2, FS_Bijection

\* Segments a gap apart do not meet when they are padded by less than half of it.
LEMMA PaddedApart ==
    ASSUME NEW g \in Int, NEW pad \in Nat, g >= 2 * pad,
           NEW e \in Int, NEW s \in Int, e + g <= s,
           NEW d \in Int, NEW t \in Int, d <= e + pad, s - pad <= t
    PROVE  d <= t
OBVIOUS

\* A window that is padded stays within the padded segment it was found in.
LEMMA PaddedWithin ==
    ASSUME NEW pad \in Nat, NEW ms \in Int, NEW me \in Int, NEW ws \in Int,
           NEW we \in Int, NEW fs \in Int, NEW fe \in Int,
           ms <= ws, ws < we, we <= me, fs <= ws, we <= fe,
           ws - pad <= fs, fe <= we + pad
    PROVE  fs < fe /\ ms - pad <= fs /\ fe <= me + pad
OBVIOUS

\* Select's cuts are of the best stretches, and no second is in two of them.
LEMMA SelectIsRight ==
    ASSUME scores \in Clip, options \in SelectionOptions, cuts \in Select(scores, options)
    PROVE  /\ \A i \in DOMAIN cuts : cuts[i] \in Segment
           /\ SegmentsAreBest /\ NothingTwice
<1> DEFINE gap == options.gap
<1>1. PICK m \in Found :
         /\ m = MergeRuns(Runs(Hits(scores, options)), gap)
         /\ InParts(m, Hits(scores, options), gap)
         /\ Stretches = {m[a] : a \in {k \in DOMAIN m : Duration(m[k]) >= options.min}}
  BY StretchesAre
<1>2. gap \in Nat \ {0} /\ options.perClip \in Nat \ {0} /\ Seconds \in Nat /\ Pad \in Nat
  BY SelectionNumbers
<1>3. PICK long : long = {k \in DOMAIN m : Duration(m[k]) >= options.min}
  OBVIOUS
<1>4. \A k \in DOMAIN m : m[k] \in Segment /\ m[k].start < m[k].end /\ k \in Int
  <2>1. m \in Seq(Segment)
    BY DEF Found
  <2>2. \A k \in DOMAIN m : m[k] \in Segment /\ k \in Int
    BY <2>1
  <2> QED
    BY <1>1, <2>2 DEF InParts
<1>5. /\ long \subseteq DOMAIN m /\ IsFiniteSet(long)
  <2>1. m \in Seq(Segment)
    BY DEF Found
  <2>2. DOMAIN m = 1 .. Len(m) /\ Len(m) \in Int /\ 1 \in Int
    BY <2>1
  <2>3. IsFiniteSet(DOMAIN m)
    BY <2>2, FS_Interval
  <2>4. long \in SUBSET DOMAIN m
    BY <1>3
  <2> QED
    BY <2>3, <2>4, FS_Subset
<1>6. \A a, b \in DOMAIN m : m[a] = m[b] => a = b
  <2>1. ASSUME NEW a \in DOMAIN m, NEW b \in DOMAIN m, m[a] = m[b] PROVE a = b
    <3>1. m[b].start <= m[a].start /\ m[a].end <= m[b].end
      BY <1>4, <2>1 DEF Segment
    <3> QED
      BY <1>1, <1>2, <3>1, PartsApart
  <2> QED
    BY <2>1
<1>7. PICK W : /\ DOMAIN W = long
               /\ \A k \in long : W[k] = BestWindow(scores, m[k], options.max)
  <2> DEFINE f == [k \in long |-> BestWindow(scores, m[k], options.max)]
  <2>1. DOMAIN f = long /\ \A k \in long : f[k] = BestWindow(scores, m[k], options.max)
    OBVIOUS
  <2> HIDE DEF f
  <2> QED
    BY <2>1
<1>8. ASSUME NEW k \in long
      PROVE  /\ W[k] \in Segment /\ m[k].start <= W[k].start
             /\ W[k].start < W[k].end /\ W[k].end <= m[k].end
             /\ \A c : IsCutOf(c, m[k]) <=> c = Padded(W[k])
  <2>1. m[k] \in Segment /\ m[k].start < m[k].end
    BY <1>4, <1>5
  <2>2. /\ W[k] \in Segment /\ m[k].start <= W[k].start
        /\ W[k].start < W[k].end /\ W[k].end <= m[k].end
        /\ IsBestPart(W[k], m[k]) /\ \A v : IsBestPart(v, m[k]) => v = W[k]
    BY <1>7, <2>1, BestWindowIsBest
  <2> QED
    BY <2>2 DEF IsCutOf
<1>9. PICK found : /\ DOMAIN found = long
                   /\ \A k \in long : found[k] = Padded(W[k])
                   /\ cuts \in TopSegments(scores, found, options.perClip)
  <2> DEFINE f == [k \in long |-> Padded(BestWindow(scores, m[k], options.max))]
  <2>1. cuts \in TopSegments(scores, f, options.perClip)
    BY <1>1, <1>3 DEF Select
  <2>2. DOMAIN f = long /\ \A k \in long : f[k] = Padded(W[k])
    BY <1>7
  <2> HIDE DEF f
  <2> QED
    BY <2>1, <2>2
<1>10. ASSUME NEW k \in long
       PROVE  /\ found[k] \in Segment /\ found[k].start \in Int /\ found[k].end \in Int
              /\ found[k].start <= W[k].start /\ W[k].end <= found[k].end
              /\ W[k].start - Pad <= found[k].start /\ found[k].end <= W[k].end + Pad
  <2>1. W[k] \in Segment /\ W[k].start < W[k].end
    BY <1>8
  <2>2. /\ found[k] \in Segment
        /\ found[k].start <= W[k].start /\ W[k].end <= found[k].end
        /\ W[k].start - Pad <= found[k].start /\ found[k].end <= W[k].end + Pad
    BY <1>9, <2>1, PaddedIs
  <2> QED
    BY <2>2 DEF Segment
<1>11. PICK n \in Nat : n = Kept(long, options.perClip)
  <2>1. Cardinality(long) \in Nat
    BY <1>5, FS_CardinalityType
  <2> QED
    BY <1>2, <2>1 DEF Kept
<1>12. PICK p \in [1 .. n -> long] :
         /\ cuts = [i \in DOMAIN p |-> found[p[i]]] /\ IsInjective(p)
         /\ \A i, j \in DOMAIN p : i < j => found[p[i]].start <= found[p[j]].start
         /\ \A i \in DOMAIN p, k \in long \ Range(p) :
               ~HigherMean(scores, found[k], found[p[i]])
  BY <1>9, <1>11 DEF TopSegments
<1>13. /\ DOMAIN cuts = 1 .. n /\ DOMAIN p = 1 .. n
       /\ \A i \in 1 .. n : cuts[i] = found[p[i]] /\ p[i] \in long
  BY <1>12
<1>14. Len(cuts) = n
  <2>1. cuts = [i \in 1 .. n |-> cuts[i]] /\ \A i \in 1 .. n : cuts[i] \in Segment
    BY <1>10, <1>12, <1>13
  <2>2. cuts \in Seq(Segment)
    BY <2>1
  <2> QED
    BY <1>13, <2>2
<1>15. Stretches = {m[a] : a \in long}
  BY <1>1, <1>3
<1>16. Kept(Stretches, options.perClip) = n
  <2>1. Cardinality(Stretches) = Cardinality(long)
    BY <1>5, <1>6, <1>15, RenamedSize
  <2> QED
    BY <1>11, <2>1 DEF Kept
<1>17. PICK of \in [DOMAIN cuts -> Stretches] : \A i \in DOMAIN cuts : of[i] = m[p[i]]
  <2>1. [i \in DOMAIN cuts |-> m[p[i]]] \in [DOMAIN cuts -> Stretches]
    BY <1>13, <1>15
  <2> QED
    BY <2>1
<1>18. IsInjective(of)
  <2>1. ASSUME NEW i \in 1 .. n, NEW j \in 1 .. n, of[i] = of[j] PROVE i = j
    <3>1. p[i] = p[j]
      BY <1>5, <1>6, <1>13, <1>17, <2>1
    <3> QED
      BY <1>12, <1>13, <3>1 DEF IsInjective
  <2>2. DOMAIN of = 1 .. n
    BY <1>13
  <2> QED
    BY <2>1, <2>2 DEF IsInjective
<1>19. \A i \in DOMAIN cuts : IsCutOf(cuts[i], of[i])
  BY <1>8, <1>9, <1>13, <1>17
<1>20. \A i, j \in DOMAIN cuts : i < j => cuts[i].start <= cuts[j].start
  BY <1>12, <1>13
<1>21. ASSUME NEW i \in DOMAIN cuts, NEW s \in Stretches \ Range(of),
              NEW c \in Segment, IsCutOf(c, s)
       PROVE  ~HigherMean(scores, c, cuts[i])
  <2>1. PICK k \in long : s = m[k]
    BY <1>15
  <2>2. k \notin Range(p)
    <3>1. ASSUME NEW j \in DOMAIN p, p[j] = k PROVE FALSE
      <4>1. of[j] = s /\ j \in DOMAIN of
        BY <1>13, <1>17, <2>1, <3>1
      <4> QED
        BY <4>1 DEF Range
    <3> QED
      BY <3>1 DEF Range
  <2>3. c = found[k]
    BY <1>8, <1>9, <1>21, <2>1
  <2> QED
    BY <1>12, <1>13, <2>2, <2>3
<1>22. SegmentsAreBest
  BY <1>14, <1>16, <1>18, <1>19, <1>20, <1>21 DEF SegmentsAreBest
<1>23. ASSUME NEW k \in long
       PROVE  /\ k \in DOMAIN m /\ k \in Int /\ m[k].start \in Int /\ m[k].end \in Int
              /\ found[k].start \in Int /\ found[k].end \in Int
              /\ found[k].start < found[k].end
              /\ m[k].start - Pad <= found[k].start /\ found[k].end <= m[k].end + Pad
  <2>1. /\ k \in DOMAIN m /\ k \in Int /\ m[k].start \in Int /\ m[k].end \in Int
        /\ W[k].start \in Int /\ W[k].end \in Int
    BY <1>4, <1>5, <1>8 DEF Segment
  <2>2. /\ found[k].start \in Int /\ found[k].end \in Int
        /\ m[k].start <= W[k].start /\ W[k].start < W[k].end /\ W[k].end <= m[k].end
        /\ found[k].start <= W[k].start /\ W[k].end <= found[k].end
        /\ W[k].start - Pad <= found[k].start /\ found[k].end <= W[k].end + Pad
    BY <1>8, <1>10
  <2>3. /\ found[k].start < found[k].end
        /\ m[k].start - Pad <= found[k].start /\ found[k].end <= m[k].end + Pad
    BY <1>2, <2>1, <2>2, PaddedWithin
  <2> QED
    BY <2>1, <2>2, <2>3
<1>24. ASSUME NEW a \in long, NEW b \in long, a < b, gap >= 2 * Pad
       PROVE  found[a].end <= found[b].start
  <2>1. m[a].end + gap <= m[b].start
    BY <1>1, <1>5, <1>24 DEF InParts
  <2>2. /\ m[a].end \in Int /\ m[b].start \in Int
        /\ found[a].end \in Int /\ found[b].start \in Int
        /\ m[b].start - Pad <= found[b].start /\ found[a].end <= m[a].end + Pad
    BY <1>23
  <2>3. gap \in Int
    BY <1>2
  <2> QED
    BY <1>2, <1>24, <2>1, <2>2, <2>3, PaddedApart
<1>25. ASSUME gap >= 2 * Pad, NEW i \in DOMAIN cuts, NEW j \in DOMAIN cuts, i < j
       PROVE  cuts[i].end <= cuts[j].start
  <2>1. PICK a \in long, b \in long : a = p[i] /\ b = p[j]
    BY <1>13
  <2>2. a # b
    BY <1>12, <1>13, <1>25, <2>1 DEF IsInjective
  <2>3. cuts[i] = found[a] /\ cuts[j] = found[b] /\ found[a].start <= found[b].start
    BY <1>12, <1>13, <1>25, <2>1
  <2>4. ~(b < a)
    <3>1. ASSUME b < a PROVE FALSE
      <4>1. found[b].end <= found[a].start
        BY <1>25, <1>24, <3>1
      <4>2. /\ found[b].start < found[b].end /\ found[b].start \in Int
            /\ found[b].end \in Int /\ found[a].start \in Int
        BY <1>23
      <4> QED
        BY <2>3, <4>1, <4>2
    <3> QED
      BY <3>1
  <2>5. a < b
    BY <1>23, <2>2, <2>4
  <2> QED
    BY <1>25, <1>24, <2>3, <2>5
<1>26. NothingTwice
  BY <1>25 DEF NothingTwice
<1>27. \A i \in DOMAIN cuts : cuts[i] \in Segment
  BY <1>10, <1>13
<1> QED
  BY <1>22, <1>26, <1>27

-----------------------------------------------------------------------------

\* The selection on its own.
SelectionSpec == SelectionInit /\ [][SelectionNext]_selectionVars

\* What was selected was selected from the scores, under the options.
SelectionInv ==
    /\ scores \in Clip \cup {<<>>} /\ selected \in BOOLEAN
    /\ ~selected => options = <<>> /\ cuts = <<>>
    /\ selected => /\ scores \in Clip /\ options \in SelectionOptions
                   /\ cuts \in Select(scores, options)

\* Every step keeps it: the scores stay what they were when they were probed.
LEMMA SelectionInvHolds == SelectionSpec => []SelectionInv
<1>1. SelectionInit => SelectionInv
  BY DEF SelectionInit, SelectionInv
<1>2. SelectionInv /\ [SelectionNext]_selectionVars => SelectionInv'
  <2> SUFFICES ASSUME SelectionInv, [SelectionNext]_selectionVars PROVE SelectionInv'
    OBVIOUS
  <2>1. CASE Probe
    <3>1. ~selected
      <4>1. <<>> \notin Clip
        <5>1. 0 \in 0 .. Seconds - 1
          BY SelectionNumbers
        <5>2. ASSUME <<>> \in Clip PROVE FALSE
          <6>1. DOMAIN <<>> = 0 .. Seconds - 1
            BY <5>2 DEF Clip
          <6> QED
            BY <5>1, <6>1
        <5> QED
          BY <5>2
      <4> QED
        BY <2>1, <4>1 DEF Probe, SelectionInv
    <3> QED
      BY <2>1, <3>1 DEF Probe, SelectionInv
  <2>2. CASE Analyze
    <3>1. PICK o \in SelectionOptions :
             options' = o /\ \E segs \in Select(scores, o) : cuts' = segs
      BY <2>2 DEF Analyze
    <3>2. scores \in Clip /\ scores' = scores /\ selected' = TRUE
      BY <2>2 DEF Analyze, SelectionInv
    <3>3. cuts' \in Select(scores', options')
      BY <3>1, <3>2
    <3> HIDE DEF Select
    <3> QED
      BY <3>1, <3>2, <3>3 DEF SelectionInv
  <2>3. CASE UNCHANGED selectionVars
    BY <2>3 DEF selectionVars, SelectionInv
  <2> QED
    BY <2>1, <2>2, <2>3 DEF SelectionNext
<1> QED
  BY <1>1, <1>2, PTL DEF SelectionSpec

\* What Select gives is right, whatever the scores and the options.
LEMMA SelectionInvIsRight ==
    ASSUME SelectionInv PROVE HighlightIsRight /\ SelectionTypeOK
<1>1. CASE selected
  <2>1. scores \in Clip /\ options \in SelectionOptions /\ cuts \in Select(scores, options)
    BY <1>1 DEF SelectionInv
  <2>2. /\ \A i \in DOMAIN cuts : cuts[i] \in Segment
        /\ SegmentsAreBest /\ NothingTwice
    BY <2>1, SelectIsRight
  <2> QED
    BY <1>1, <2>1, <2>2 DEF HighlightIsRight, SelectionTypeOK
<1>2. CASE ~selected
  BY <1>2 DEF HighlightIsRight, SelectionTypeOK, SelectionInv
<1> QED
  BY <1>1, <1>2 DEF SelectionInv

\* For every clip and all options the segments that are cut out are the best
\* windows of the stretches above the threshold, the best stretches there are, and
\* nothing is cut twice (Analyze, highlight.go).
THEOREM HighlightIsRightAlways ==
    SelectionSpec => [](HighlightIsRight /\ SelectionTypeOK)
<1>1. SelectionInv => HighlightIsRight /\ SelectionTypeOK
  BY SelectionInvIsRight
<1> QED
  BY <1>1, SelectionInvHolds, PTL

-----------------------------------------------------------------------------
(* The services together.                                                  *)

\* A step of the services is one of a service or leaves all of it.
LEMMA StepsAreOfOne ==
    [Next]_servicesVars =>
        /\ [SessionsNext]_sessionVars
        /\ [ThrottleNext]_throttleVars
        /\ [RecordsNext]_recordVars
        /\ [ConfigNext]_configVars
        /\ [ReportsNext]_reportVars
        /\ [ProbesNext]_probeVars
        /\ [CookieNext]_cookieVars
        /\ [UpdateNext]_updateVars
        /\ [BotNext]_botVars
        /\ [HubNext]_hubVars
        /\ [PacingNext]_pacingVars
        /\ [StatusNext]_statusVars
        /\ [RecordingNext]_recordingVars
        /\ [SelectionNext]_selectionVars
BY DEF Next, OnlyMoves, servicesVars

\* So every behaviour of the services is one of each of them.
LEMMA ServicesAreEach ==
    Spec => /\ SessionsSpec /\ ThrottleSpec /\ RecordsSpec /\ ConfigSpec
            /\ ReportsSpec /\ ProbesSpec /\ CookieSpec /\ UpdateSpec
            /\ BotSpec /\ HubSpec /\ PacingSpec /\ StatusSpec /\ RecordingSpec
            /\ SelectionSpec
<1>1. Init => /\ SessionsInit /\ ThrottleInit /\ RecordsInit /\ ConfigInit
              /\ ReportsInit /\ ProbesInit /\ CookieInit /\ UpdateInit /\ BotInit
              /\ HubInit /\ PacingInit /\ StatusInit /\ RecordingInit
              /\ SelectionInit
  BY DEF Init
<1> QED
  BY <1>1, StepsAreOfOne, PTL DEF Spec, SessionsSpec, ThrottleSpec, RecordsSpec,
     ConfigSpec, ReportsSpec, ProbesSpec, CookieSpec, UpdateSpec, BotSpec,
     HubSpec, PacingSpec, StatusSpec, RecordingSpec, SelectionSpec

\* What each service promises holds of the services together, for all values
\* of their constants: of the behaviours TLC checks on small instances, and of
\* the handlers and goroutines behind them in any number.
THEOREM ServicesAreSafe ==
    Spec => [](/\ TokensMatchCredentials /\ RestartKeepsSessions
               /\ LoginsAreThrottled /\ UnsavedIsMarked /\ EarlierIsKept
               /\ MainSettingsStay /\ ReportedOnce /\ OfflineIsTrue
               /\ StreakIsReported /\ ProgramStays /\ PanelHasButtons
               /\ NoGaps /\ DeletedIsGone /\ ChangesAreSent /\ NoTempLeft
               /\ HighlightIsRight)
BY ServicesAreEach, TokensMatchAlways, RestartKeepsSessionsAlways,
   ThrottledAlways, UnsavedIsMarkedAlways, EarlierIsKeptAlways,
   MainSettingsStayAlways, ReportedOnceAlways, OfflineIsTrueAlways,
   StreakIsReportedAlways, ProgramStaysAlways, PanelHasButtonsAlways,
   NoGapsAlways, DeletedIsGoneAlways, ChangesAreSentAlways, NoTempLeftAlways,
   HighlightIsRightAlways, PTL

\* The state of every service is of its type, whatever the others do: queues,
\* pools, counts and positions stay within their bounds for all values of them.
THEOREM ServicesTypeCorrect == Spec => []ServicesTypeOK
<1>1. Spec => [](/\ SessionsTypeOK /\ ThrottleTypeOK /\ RecordsTypeOK
                 /\ ConfigTypeOK /\ ReportsTypeOK /\ ProbesTypeOK
                 /\ CookieTypeOK /\ UpdateTypeOK /\ BotTypeOK /\ HubTypeOK
                 /\ PacingTypeOK /\ StatusTypeOK /\ RecordingTypeOK
                 /\ SelectionTypeOK)
  BY ServicesAreEach, SessionsTypeCorrect, ThrottleTypeCorrect,
     RecordsTypeCorrect, ConfigTypeCorrect, ReportsTypeCorrect,
     ProbesTypeCorrect, CookieTypeCorrect, UpdateTypeCorrect, BotTypeCorrect,
     HubTypeCorrect, PacingTypeCorrect, StatusTypeCorrect,
     RecordingTypeCorrect, HighlightIsRightAlways, PTL
<1> QED
  BY <1>1, PTL DEF ServicesTypeOK

\* Kuaishou's fetches keep their distance (builtin_kuaishou.go) whatever the
\* other services do between them.
THEOREM ServicesFetchApart == Spec => FetchesApart
BY ServicesAreEach, FetchesApartAlways
=============================================================================
