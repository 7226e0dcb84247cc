---------------------------- MODULE RulesProofs ----------------------------
(***************************************************************************)
(* Proofs about the rules behind the Enter key, which Safety and Preflight *)
(* state with recursive functions: that what is behind wrappers is seen,   *)
(* and that where there is more to lose no less is said.                   *)
(***************************************************************************)
EXTENDS EnterKeyProofs, WellFoundedInduction, SequenceTheorems, FiniteSetTheorems

(***************************************************************************)
(* Recursion.  An equation that gives each value of a function from the    *)
(* one at a smaller argument has a solution.                               *)
(***************************************************************************)
LEMMA LeastNumber ==
  ASSUME NEW T \in SUBSET Nat, T # {}
  PROVE  \E x \in T : \A y \in T : x =< y
<1>1. PICK x \in T : \A y \in T : ~(<<y, x>> \in OpToRel(<, Nat))
  BY WFMin, NatLessThanWellFounded
<1>2. \A y \in T : ~(y < x)
  BY <1>1 DEF OpToRel
<1> QED BY <1>2

Recursive(S, V, size, ends, base, down, step) ==
  /\ size \in [S -> Nat] /\ base \in [S -> V] /\ down \in [S -> S] /\ step \in [S -> [V -> V]]
  /\ \A s \in S \ ends : size[down[s]] < size[s]

LEMMA Recursion ==
  ASSUME NEW S, NEW V, NEW size, NEW ends, NEW base, NEW down, NEW step,
         Recursive(S, V, size, ends, base, down, step)
  PROVE  \E g \in [S -> V] :
           \A s \in S : g[s] = IF s \in ends THEN base[s] ELSE step[s][g[down[s]]]
<1> USE DEF Recursive
<1> DEFINE Val(g, s) == IF s \in ends THEN base[s] ELSE step[s][g[down[s]]]
           Good(n) == {g \in [S -> V] : \A s \in S : size[s] < n => g[s] = Val(g, s)}
           T == {n \in Nat : Good(n) = {}}
\* Two functions that obey the equation below n agree below n.
<1>0. ASSUME NEW n \in Nat, NEW g, NEW h,
             \A s \in S : size[s] < n => g[s] = Val(g, s),
             \A s \in S : size[s] < n => h[s] = Val(h, s)
      PROVE  \A s \in S : size[s] < n => g[s] = h[s]
  <2> DEFINE U == {size[s] : s \in {t \in S : size[t] < n /\ g[t] # h[t]}}
  <2> SUFFICES ASSUME NEW t \in S, size[t] < n, g[t] # h[t] PROVE FALSE
    OBVIOUS
  <2>1. U \subseteq Nat
    OBVIOUS
  <2>2. size[t] \in U
    OBVIOUS
  <2>3. PICK x \in U : \A y \in U : x =< y
    <3> HIDE DEF U
    <3> QED BY <2>1, <2>2, LeastNumber
  <2>4. PICK s \in S : size[s] = x /\ size[s] < n /\ g[s] # h[s]
    OBVIOUS
  <2>5. s \notin ends
    BY <1>0, <2>4
  <2>6. /\ down[s] \in S /\ size[down[s]] < size[s]
        /\ size[down[s]] \in Nat /\ size[s] \in Nat
    BY <2>5
  <2>7. size[down[s]] \notin U
    <3> HIDE DEF U
    <3> QED BY <2>3, <2>4, <2>6
  <2>8. g[down[s]] = h[down[s]]
    BY <2>4, <2>6, <2>7
  <2> QED BY <1>0, <2>4, <2>5, <2>8
<1>1. T = {}
  <2> SUFFICES ASSUME T # {} PROVE FALSE
    OBVIOUS
  <2>1. PICK n \in T : \A m \in T : n =< m
    <3> HIDE DEF T
    <3> QED BY LeastNumber, T \subseteq Nat DEF T
  <2>2. n \in Nat /\ Good(n) = {}
    BY <2>1
  <2>3. n # 0
    <3>1. base \in Good(0)
      OBVIOUS
    <3> QED BY <3>1, <2>2
  <2>4. n - 1 \in Nat /\ n - 1 \notin T
    <3> HIDE DEF T, Good
    <3> QED BY <2>1, <2>2, <2>3
  <2>5. PICK g : g \in Good(n - 1)
    BY <2>4
  <2> DEFINE h == [s \in S |-> Val(g, s)]
  <2>6. h \in [S -> V]
    BY <2>5
  <2>7. ASSUME NEW s \in S, size[s] < n PROVE h[s] = Val(h, s)
    <3>1. CASE s \in ends
      BY <3>1
    <3>2. CASE s \notin ends
      <4>1. down[s] \in S /\ size[down[s]] < n - 1
        BY <3>2, <2>7, <2>2
      <4>2. g[down[s]] = Val(g, down[s])
        BY <4>1, <2>5
      <4>3. h[down[s]] = Val(g, down[s])
        BY <4>1
      <4>4. h[down[s]] = g[down[s]]
        BY <4>2, <4>3
      <4> QED BY <4>4
    <3> QED BY <3>1, <3>2
  <2>8. h \in Good(n)
    <3> HIDE DEF h, Val
    <3> QED BY <2>6, <2>7
  <2> QED BY <2>8, <2>2
<1>2. ASSUME NEW n \in Nat PROVE \E g : g \in Good(n)
  BY <1>1
<1> DEFINE w(n) == CHOOSE g : g \in Good(n)
           G == [s \in S |-> w(size[s] + 1)[s]]
<1>3. ASSUME NEW n \in Nat PROVE w(n) \in Good(n)
  <2> HIDE DEF Good
  <2> QED BY <1>2
<1>4. ASSUME NEW n \in Nat PROVE w(n) \in [S -> V]
                                 /\ \A s \in S : size[s] < n => w(n)[s] = Val(w(n), s)
  <2> HIDE DEF w
  <2> QED BY <1>3
<1>5. G \in [S -> V]
  <2> HIDE DEF w
  <2> QED BY <1>4
<1>6. ASSUME NEW s \in S PROVE G[s] = Val(G, s)
  <2> DEFINE n == size[s] + 1
  <2>1. n \in Nat /\ size[s] < n
    OBVIOUS
  <2>2. G[s] = w(n)[s] /\ w(n)[s] = Val(w(n), s)
    <3> HIDE DEF w, Val
    <3> QED BY <2>1, <1>4
  <2>3. CASE s \in ends
    BY <2>2, <2>3
  <2>4. CASE s \notin ends
    <3> DEFINE d == down[s]
               m == size[d] + 1
    <3>1. d \in S /\ m \in Nat /\ m < n /\ size[d] < m
      BY <2>4, <2>1
    <3>2. \A t \in S : size[t] < m => w(n)[t] = Val(w(n), t)
      <4> HIDE DEF w, Val, m, n
      <4>1. \A t \in S : size[t] \in Nat
        OBVIOUS
      <4> QED BY <1>4, <2>1, <3>1, <4>1
    <3>3. \A t \in S : size[t] < m => w(m)[t] = Val(w(m), t)
      <4> HIDE DEF w, Val, m
      <4> QED BY <1>4, <3>1
    <3>4. w(n)[d] = w(m)[d]
      <4>1. \A t \in S : size[t] < m => w(n)[t] = w(m)[t]
        <5> HIDE DEF w, m, n, Val
        <5> QED BY <3>1, <3>2, <3>3, <1>0
      <4> HIDE DEF w, m, n, d
      <4> QED BY <3>1, <4>1
    <3>5. G[d] = w(m)[d]
      BY <3>1
    <3> HIDE DEF w, G
    <3> QED BY <2>2, <2>4, <3>4, <3>5
  <2> QED BY <2>3, <2>4
<1> HIDE DEF G
<1> QED BY <1>5, <1>6

(***************************************************************************)
(* Walks.  The classifier goes through the words of a command from the     *)
(* left: it stops at some places and goes on from the others.              *)
(***************************************************************************)
Walk(g, stop, next) == g = [i \in Nat |-> IF i \in stop THEN i ELSE g[next[i]]]

\* In n words it only goes to the right.
Rightwards(n, stop, next) ==
  /\ n \in Nat /\ next \in [Nat -> Nat]
  /\ \A i \in Nat \ stop : i =< n /\ i < next[i]

LEMMA WalkExists ==
  ASSUME NEW n, NEW stop, NEW next, Rightwards(n, stop, next)
  PROVE  \E g : Walk(g, stop, next)
<1> USE DEF Rightwards
<1> DEFINE size == [i \in Nat |-> IF i =< n THEN n + 1 - i ELSE 0]
           base == [i \in Nat |-> i]
           step == [i \in Nat |-> base]
<1>1. Recursive(Nat, Nat, size, stop, base, next, step)
  BY DEF Recursive
<1>2. PICK g \in [Nat -> Nat] :
           \A s \in Nat : g[s] = IF s \in stop THEN base[s] ELSE step[s][g[next[s]]]
  <2> HIDE DEF size, base, step
  <2> QED BY <1>1, Recursion
<1>3. \A i \in Nat : g[i] = IF i \in stop THEN i ELSE g[next[i]]
  <2> SUFFICES ASSUME NEW i \in Nat PROVE g[i] = IF i \in stop THEN i ELSE g[next[i]]
    OBVIOUS
  <2>1. g[next[i]] \in Nat
    OBVIOUS
  <2> QED BY <1>2, <2>1
<1> HIDE DEF size, base, step, Rightwards
<1> QED BY <1>3 DEF Walk

\* It ends at a place that is not before the one it starts from.
LEMMA WalkForward ==
  ASSUME NEW n, NEW stop, NEW next, Rightwards(n, stop, next), NEW g, Walk(g, stop, next)
  PROVE  \A i \in Nat : g[i] \in Nat /\ i =< g[i]
<1> USE DEF Rightwards
<1> DEFINE U == {n + 1 - i : i \in {j \in Nat : j =< n /\ ~(g[j] \in Nat /\ j =< g[j])}}
<1>0. \A i \in Nat : g[i] = IF i \in stop THEN i ELSE g[next[i]]
  BY DEF Walk
<1>1. U \subseteq Nat
  OBVIOUS
<1>2. ASSUME NEW k \in Nat, ~(g[k] \in Nat /\ k =< g[k]) PROVE FALSE
  <2>1. k \notin stop
    BY <1>0, <1>2
  <2>2. n + 1 - k \in U
    BY <2>1, <1>2
  <2>3. PICK x \in U : \A y \in U : x =< y
    <3> HIDE DEF U
    <3> QED BY <1>1, <2>2, LeastNumber
  <2>4. PICK j \in Nat : j =< n /\ ~(g[j] \in Nat /\ j =< g[j]) /\ x = n + 1 - j
    OBVIOUS
  <2>5. j \notin stop
    BY <1>0, <2>4
  <2>6. next[j] \in Nat /\ j < next[j] /\ g[j] = g[next[j]]
    BY <1>0, <2>5
  <2>7. ~(g[next[j]] \in Nat /\ next[j] =< g[next[j]])
    BY <2>4, <2>6
  <2>8. next[j] \notin stop
    BY <1>0, <2>6, <2>7
  <2>9. n + 1 - next[j] \in U
    BY <2>6, <2>7, <2>8
  <2>10. x =< n + 1 - next[j]
    <3> HIDE DEF U
    <3> QED BY <2>3, <2>9
  <2> QED BY <2>4, <2>6, <2>10
<1> QED BY <1>2

\* Two walks go the same way up to m.  If the first gets no further than to
\* m + 1, where it stops, the second ends where the first does, or goes on from
\* m + 1.
LEMMA Through ==
  ASSUME NEW m \in Nat, NEW n1, NEW stop1, NEW next1, Rightwards(n1, stop1, next1),
         NEW g1, Walk(g1, stop1, next1),
         NEW n2, NEW stop2, NEW next2, Rightwards(n2, stop2, next2),
         NEW g2, Walk(g2, stop2, next2),
         m + 1 \in stop1,
         \A i \in 1..m : i \in stop1 <=> i \in stop2,
         \A i \in 1..m : i \notin stop1 /\ next1[i] =< m + 1 => next2[i] = next1[i]
  PROVE  \A i \in 1..(m + 1) :
           g1[i] =< m + 1 => g2[i] = IF g1[i] = m + 1 THEN g2[m + 1] ELSE g1[i]
<1> DEFINE Meets(i) == g2[i] = IF g1[i] = m + 1 THEN g2[m + 1] ELSE g1[i]
           U == {m + 1 - i : i \in {j \in 1..(m + 1) : g1[j] =< m + 1 /\ ~Meets(j)}}
<1>0. /\ \A i \in Nat : g1[i] = IF i \in stop1 THEN i ELSE g1[next1[i]]
      /\ \A i \in Nat : g2[i] = IF i \in stop2 THEN i ELSE g2[next2[i]]
  BY DEF Walk
<1>1. U \subseteq Nat
  <2> HIDE DEF Meets
  <2> QED OBVIOUS
<1>2. ASSUME NEW k \in 1..(m + 1), g1[k] =< m + 1, ~Meets(k) PROVE FALSE
  <2>1. m + 1 - k \in U
    BY <1>2
  <2>2. PICK x \in U : \A y \in U : x =< y
    <3> HIDE DEF U
    <3> QED BY <1>1, <2>1, LeastNumber
  <2>3. PICK j \in 1..(m + 1) : g1[j] =< m + 1 /\ ~Meets(j) /\ x = m + 1 - j
    <3> HIDE DEF Meets
    <3> QED OBVIOUS
  <2>4. j # m + 1
    BY <1>0, <2>3
  <2>5. j \in 1..m
    BY <2>4
  <2>6. j \notin stop1 /\ j \notin stop2
    BY <1>0, <2>3, <2>5
  <2>7. next1[j] \in Nat /\ j < next1[j] /\ g1[j] = g1[next1[j]]
    BY <1>0, <2>5, <2>6 DEF Rightwards
  <2>8. g1[next1[j]] \in Nat /\ next1[j] =< g1[next1[j]]
    BY <2>7, WalkForward
  <2>9. next1[j] \in 1..(m + 1)
    BY <2>3, <2>7, <2>8
  <2>10. next2[j] = next1[j] /\ g2[j] = g2[next1[j]]
    BY <1>0, <2>5, <2>6, <2>9
  <2>11. ~Meets(next1[j]) /\ g1[next1[j]] =< m + 1
    BY <2>3, <2>7, <2>10
  <2>12. m + 1 - next1[j] \in U
    <3> HIDE DEF Meets
    <3> QED BY <2>9, <2>11
  <2>13. x =< m + 1 - next1[j]
    <3> HIDE DEF U
    <3> QED BY <2>2, <2>12
  <2> HIDE DEF Meets, U
  <2> QED BY <2>3, <2>7, <2>9, <2>13
<1> QED BY <1>2

\* If both stop at m + 1, they end at the same place.
LEMMA SameWalk ==
  ASSUME NEW m \in Nat, NEW n1, NEW stop1, NEW next1, Rightwards(n1, stop1, next1),
         NEW g1, Walk(g1, stop1, next1),
         NEW n2, NEW stop2, NEW next2, Rightwards(n2, stop2, next2),
         NEW g2, Walk(g2, stop2, next2),
         m + 1 \in stop1 /\ m + 1 \in stop2,
         \A i \in 1..m : i \in stop1 <=> i \in stop2,
         \A i \in 1..m : i \notin stop1 /\ next1[i] =< m + 1 => next2[i] = next1[i]
  PROVE  \A i \in 1..(m + 1) : g1[i] =< m + 1 => g2[i] = g1[i]
<1>1. g2[m + 1] = m + 1
  BY DEF Walk
<1> QED BY <1>1, Through

\* The same walk m words further to the right.
Shift(m, stop1, next1, stop2, next2) ==
  /\ \A i \in Nat \ {0} : i \in stop1 <=> m + i \in stop2
  /\ \A i \in Nat \ {0} : i \notin stop1 => next2[m + i] = m + next1[i]

LEMMA Shifted ==
  ASSUME NEW m \in Nat, NEW n1, NEW stop1, NEW next1, Rightwards(n1, stop1, next1),
         NEW g1, Walk(g1, stop1, next1),
         NEW n2, NEW stop2, NEW next2, Rightwards(n2, stop2, next2),
         NEW g2, Walk(g2, stop2, next2),
         Shift(m, stop1, next1, stop2, next2)
  PROVE  \A i \in Nat \ {0} : g1[i] \in Nat /\ g2[m + i] = m + g1[i]
<1> USE DEF Shift
<1> DEFINE U == {n1 - i : i \in {j \in Nat \ {0} : j =< n1 /\ g2[m + j] # m + g1[j]}}
<1>0. /\ \A i \in Nat : g1[i] = IF i \in stop1 THEN i ELSE g1[next1[i]]
      /\ \A i \in Nat : g2[i] = IF i \in stop2 THEN i ELSE g2[next2[i]]
  BY DEF Walk
<1>1. U \subseteq Nat
  BY DEF Rightwards
<1>2. ASSUME NEW k \in Nat \ {0}, g2[m + k] # m + g1[k] PROVE k \notin stop1 /\ n1 - k \in U
  <2>1. k \notin stop1
    BY <1>0, <1>2
  <2>2. k =< n1
    BY <2>1 DEF Rightwards
  <2> QED BY <1>2, <2>1, <2>2
<1>3. ASSUME NEW k \in Nat \ {0}, g2[m + k] # m + g1[k] PROVE FALSE
  <2>1. n1 - k \in U
    BY <1>2, <1>3
  <2>2. PICK x \in U : \A y \in U : x =< y
    <3> HIDE DEF U
    <3> QED BY <1>1, <2>1, LeastNumber
  <2>3. PICK j \in Nat \ {0} : j =< n1 /\ g2[m + j] # m + g1[j] /\ x = n1 - j
    OBVIOUS
  <2>4. j \notin stop1 /\ m + j \notin stop2 /\ m + j \in Nat
    BY <1>2, <2>3
  <2>5. next1[j] \in Nat /\ j < next1[j] /\ g1[j] = g1[next1[j]]
    BY <1>0, <2>4 DEF Rightwards
  <2>6. g2[m + j] = g2[m + next1[j]]
    BY <1>0, <2>4
  <2>7. next1[j] \in Nat \ {0} /\ g2[m + next1[j]] # m + g1[next1[j]]
    BY <2>3, <2>5, <2>6
  <2>8. n1 - next1[j] \in U
    <3> HIDE DEF U
    <3> QED BY <1>2, <2>7
  <2>9. x =< n1 - next1[j] /\ n1 \in Nat
    <3> HIDE DEF U
    <3> QED BY <2>2, <2>8 DEF Rightwards
  <2> QED BY <2>3, <2>5, <2>9
<1> QED BY <1>3, WalkForward

-----------------------------------------------------------------------------
(***************************************************************************)
(* The walks of the two parsers.                                           *)
(***************************************************************************)
FlagStops(s)   == {i \in Nat : i > Len(s) \/ ~Dashed(Nth(s, i))}
FlagNext(s)    == [i \in Nat |-> i + (IF s[i] \in Valued THEN 2 ELSE 1)]
AssignStops(s) == {i \in Nat : i > Len(s) \/ "=" \notin Marks[Nth(s, i)] \/ Dashed(s[i])}
AssignNext     == [i \in Nat |-> i + 1]
BothStops(s)   == {i \in Nat : ~Dashed(Nth(s, i)) /\ "=" \notin Marks[Nth(s, i)]}
BothNext(s)    ==
  [i \in Nat |-> i + (IF Dashed(Nth(s, i)) /\ s[i] \in Valued THEN 2 ELSE 1)]

LEMMA Behind == ASSUME NEW s \in Seq(Words), NEW i \in Nat, i > Len(s)
                PROVE  /\ Nth(s, i) = "" /\ ~Dashed(Nth(s, i))
                       /\ "=" \notin Marks[Nth(s, i)] /\ Nth(s, i) \notin Wrappers
<1>1. Nth(s, i) = ""
  <2>1. Len(s) \in Nat /\ ~(i =< Len(s))
    OBVIOUS
  <2> QED BY <2>1 DEF Nth
<1>2. Marks[""] = {} /\ "" \notin Wrappers
  BY SafetyAssumption DEF Wrappers
<1> QED BY <1>1, <1>2 DEF Dashed

LEMMA FlagsWalk ==
  ASSUME NEW s \in Seq(Words)
  PROVE  /\ Rightwards(Len(s), FlagStops(s), FlagNext(s))
         /\ \E g : Walk(g, FlagStops(s), FlagNext(s)) /\ \A i \in Nat : PastFlags(s, i) = g[i]
<1>1. Rightwards(Len(s), FlagStops(s), FlagNext(s))
  BY DEF Rightwards, FlagStops, FlagNext
<1> DEFINE Eq(g) == g = [i \in Nat |-> IF i > Len(s) \/ ~Dashed(Nth(s, i)) THEN i
                                      ELSE g[i + (IF s[i] \in Valued THEN 2 ELSE 1)]]
<1>2. ASSUME NEW g PROVE Eq(g) <=> Walk(g, FlagStops(s), FlagNext(s))
  <2> DEFINE a == [i \in Nat |-> IF i > Len(s) \/ ~Dashed(Nth(s, i)) THEN i
                                 ELSE g[i + (IF s[i] \in Valued THEN 2 ELSE 1)]]
             b == [i \in Nat |-> IF i \in FlagStops(s) THEN i ELSE g[FlagNext(s)[i]]]
  <2>1. ASSUME NEW i \in Nat PROVE a[i] = b[i]
    BY DEF FlagStops, FlagNext
  <2>2. a = b
    BY <2>1
  <2> HIDE DEF a, b
  <2>3. Eq(g) <=> g = a
    BY DEF a
  <2>4. Walk(g, FlagStops(s), FlagNext(s)) <=> g = b
    BY DEF Walk, b
  <2> QED BY <2>2, <2>3, <2>4
<1>3. \E g : Eq(g)
  BY <1>1, <1>2, WalkExists
<1> DEFINE past == CHOOSE g : Eq(g)
<1>4. Eq(past)
  <2> HIDE DEF Eq
  <2> QED BY <1>3
<1>5. \A i \in Nat : PastFlags(s, i) = past[i]
  BY DEF PastFlags
<1> HIDE DEF past, Eq
<1> QED BY <1>1, <1>2, <1>4, <1>5

LEMMA AssignmentsWalk ==
  ASSUME NEW s \in Seq(Words)
  PROVE  /\ Rightwards(Len(s), AssignStops(s), AssignNext)
         /\ \E g : Walk(g, AssignStops(s), AssignNext) /\ \A i \in Nat : PastAssignments(s, i) = g[i]
<1>1. Rightwards(Len(s), AssignStops(s), AssignNext)
  BY DEF Rightwards, AssignStops, AssignNext
<1> DEFINE Eq(g) == g = [i \in Nat |-> IF i > Len(s) \/ "=" \notin Marks[Nth(s, i)] \/ Dashed(s[i])
                                      THEN i ELSE g[i + 1]]
<1>2. ASSUME NEW g PROVE Eq(g) <=> Walk(g, AssignStops(s), AssignNext)
  <2> DEFINE a == [i \in Nat |-> IF i > Len(s) \/ "=" \notin Marks[Nth(s, i)] \/ Dashed(s[i])
                                 THEN i ELSE g[i + 1]]
             b == [i \in Nat |-> IF i \in AssignStops(s) THEN i ELSE g[AssignNext[i]]]
  <2>1. ASSUME NEW i \in Nat PROVE a[i] = b[i]
    BY DEF AssignStops, AssignNext
  <2>2. a = b
    BY <2>1
  <2> HIDE DEF a, b
  <2>3. Eq(g) <=> g = a
    BY DEF a
  <2>4. Walk(g, AssignStops(s), AssignNext) <=> g = b
    BY DEF Walk, b
  <2> QED BY <2>2, <2>3, <2>4
<1>3. \E g : Eq(g)
  BY <1>1, <1>2, WalkExists
<1> DEFINE past == CHOOSE g : Eq(g)
<1>4. Eq(past)
  <2> HIDE DEF Eq
  <2> QED BY <1>3
<1>5. \A i \in Nat : PastAssignments(s, i) = past[i]
  BY DEF PastAssignments
<1> HIDE DEF past, Eq
<1> QED BY <1>1, <1>2, <1>4, <1>5

LEMMA BothWalk ==
  ASSUME NEW s \in Seq(Words)
  PROVE  /\ Rightwards(Len(s), BothStops(s), BothNext(s))
         /\ \E g : Walk(g, BothStops(s), BothNext(s)) /\ \A i \in Nat : PastBoth(s, i) = g[i]
<1>1. Rightwards(Len(s), BothStops(s), BothNext(s))
  <2>1. ASSUME NEW i \in Nat \ BothStops(s) PROVE i =< Len(s)
    <3>1. ~(i > Len(s))
      BY Behind DEF BothStops
    <3>2. Len(s) \in Nat /\ i \in Nat
      OBVIOUS
    <3> QED BY <3>1, <3>2
  <2> QED BY <2>1 DEF Rightwards, BothNext
<1> DEFINE Eq(g) == g = [i \in Nat |->
                          IF Dashed(Nth(s, i)) THEN g[i + (IF s[i] \in Valued THEN 2 ELSE 1)]
                          ELSE IF "=" \in Marks[Nth(s, i)] THEN g[i + 1] ELSE i]
<1>2. ASSUME NEW g PROVE Eq(g) <=> Walk(g, BothStops(s), BothNext(s))
  <2> DEFINE a == [i \in Nat |->
                     IF Dashed(Nth(s, i)) THEN g[i + (IF s[i] \in Valued THEN 2 ELSE 1)]
                     ELSE IF "=" \in Marks[Nth(s, i)] THEN g[i + 1] ELSE i]
             b == [i \in Nat |-> IF i \in BothStops(s) THEN i ELSE g[BothNext(s)[i]]]
  <2>1. ASSUME NEW i \in Nat PROVE a[i] = b[i]
    BY DEF BothStops, BothNext
  <2>2. a = b
    BY <2>1
  <2> HIDE DEF a, b
  <2>3. Eq(g) <=> g = a
    BY DEF a
  <2>4. Walk(g, BothStops(s), BothNext(s)) <=> g = b
    BY DEF Walk, b
  <2> QED BY <2>2, <2>3, <2>4
<1>3. \E g : Eq(g)
  BY <1>1, <1>2, WalkExists
<1> DEFINE past == CHOOSE g : Eq(g)
<1>4. Eq(past)
  <2> HIDE DEF Eq
  <2> QED BY <1>3
<1>5. \A i \in Nat : PastBoth(s, i) = past[i]
  BY DEF PastBoth
<1> HIDE DEF past, Eq
<1> QED BY <1>1, <1>2, <1>4, <1>5

\* A place behind a wrapper is behind it.
LEMMA PastForward ==
  ASSUME NEW s \in Seq(Words), NEW i \in Nat
  PROVE  /\ PastFlags(s, i) \in Nat /\ i =< PastFlags(s, i)
         /\ PastAssignments(s, i) \in Nat /\ i =< PastAssignments(s, i)
         /\ PastBoth(s, i) \in Nat /\ i =< PastBoth(s, i)
         /\ PastDuration(s, i) \in Nat /\ i < PastDuration(s, i)
<1>1. PastFlags(s, i) \in Nat /\ i =< PastFlags(s, i)
  BY FlagsWalk, WalkForward
<1>2. PastAssignments(s, i) \in Nat /\ i =< PastAssignments(s, i)
  BY AssignmentsWalk, WalkForward
<1>3. PastBoth(s, i) \in Nat /\ i =< PastBoth(s, i)
  BY BothWalk, WalkForward
<1>4. PastDuration(s, i) \in Nat /\ i < PastDuration(s, i)
  BY DEF PastDuration
<1> QED BY <1>1, <1>2, <1>3, <1>4

WrapperStops(s) == {i \in Nat : Nth(s, i) \notin Wrappers}
NameNext(s)     == [i \in Nat |-> PastAssignments(s, PastFlags(s, PastDuration(s, i)))]
PlaceNext(s)    == [i \in Nat |-> PastBoth(s, PastDuration(s, i))]

LEMMA NameWalk ==
  ASSUME NEW s \in Seq(Words)
  PROVE  /\ Rightwards(Len(s), WrapperStops(s), NameNext(s))
         /\ \E g : Walk(g, WrapperStops(s), NameNext(s)) /\ NamePlace(s) = g[1]
<1>1. Rightwards(Len(s), WrapperStops(s), NameNext(s))
  <2>1. ASSUME NEW i \in Nat \ WrapperStops(s) PROVE i =< Len(s)
    <3>1. ~(i > Len(s))
      BY Behind DEF WrapperStops
    <3>2. Len(s) \in Nat /\ i \in Nat
      OBVIOUS
    <3> QED BY <3>1, <3>2
  <2>2. ASSUME NEW i \in Nat PROVE NameNext(s)[i] \in Nat /\ i < NameNext(s)[i]
    <3>1. PICK d \in Nat : d = PastDuration(s, i) /\ i < d
      BY PastForward
    <3>2. PICK f \in Nat : f = PastFlags(s, d) /\ d =< f
      BY PastForward
    <3>3. PICK a \in Nat : a = PastAssignments(s, f) /\ f =< a
      BY PastForward
    <3>4. NameNext(s)[i] = a
      BY <3>1, <3>2, <3>3 DEF NameNext
    <3> QED BY <3>1, <3>2, <3>3, <3>4
  <2>3. NameNext(s) \in [Nat -> Nat]
    BY <2>2 DEF NameNext
  <2> QED BY <2>1, <2>2, <2>3 DEF Rightwards
<1> DEFINE Eq(g) == g = [i \in Nat |->
                          IF Nth(s, i) \notin Wrappers THEN i
                          ELSE g[PastAssignments(s, PastFlags(s, PastDuration(s, i)))]]
<1>2. ASSUME NEW g PROVE Eq(g) <=> Walk(g, WrapperStops(s), NameNext(s))
  <2> DEFINE a == [i \in Nat |->
                     IF Nth(s, i) \notin Wrappers THEN i
                     ELSE g[PastAssignments(s, PastFlags(s, PastDuration(s, i)))]]
             b == [i \in Nat |-> IF i \in WrapperStops(s) THEN i ELSE g[NameNext(s)[i]]]
  <2>1. ASSUME NEW i \in Nat PROVE a[i] = b[i]
    BY DEF WrapperStops, NameNext
  <2>2. a = b
    BY <2>1
  <2> HIDE DEF a, b
  <2>3. Eq(g) <=> g = a
    BY DEF a
  <2>4. Walk(g, WrapperStops(s), NameNext(s)) <=> g = b
    BY DEF Walk, b
  <2> QED BY <2>2, <2>3, <2>4
<1>3. \E g : Eq(g)
  BY <1>1, <1>2, WalkExists
<1> DEFINE place == CHOOSE g : Eq(g)
<1>4. Eq(place)
  <2> HIDE DEF Eq
  <2> QED BY <1>3
<1>5. NamePlace(s) = place[1]
  BY DEF NamePlace
<1> HIDE DEF place, Eq
<1> QED BY <1>1, <1>2, <1>4, <1>5

LEMMA PlaceWalk ==
  ASSUME NEW s \in Seq(Words)
  PROVE  /\ Rightwards(Len(s), WrapperStops(s), PlaceNext(s))
         /\ \E g : Walk(g, WrapperStops(s), PlaceNext(s)) /\ Place(s) = g[1]
<1>1. Rightwards(Len(s), WrapperStops(s), PlaceNext(s))
  <2>1. ASSUME NEW i \in Nat \ WrapperStops(s) PROVE i =< Len(s)
    <3>1. ~(i > Len(s))
      BY Behind DEF WrapperStops
    <3>2. Len(s) \in Nat /\ i \in Nat
      OBVIOUS
    <3> QED BY <3>1, <3>2
  <2>2. ASSUME NEW i \in Nat PROVE PlaceNext(s)[i] \in Nat /\ i < PlaceNext(s)[i]
    <3>1. PICK d \in Nat : d = PastDuration(s, i) /\ i < d
      BY PastForward
    <3>2. PICK b \in Nat : b = PastBoth(s, d) /\ d =< b
      BY PastForward
    <3>3. PlaceNext(s)[i] = b
      BY <3>1, <3>2 DEF PlaceNext
    <3> QED BY <3>1, <3>2, <3>3
  <2>3. PlaceNext(s) \in [Nat -> Nat]
    BY <2>2 DEF PlaceNext
  <2> QED BY <2>1, <2>2, <2>3 DEF Rightwards
<1> DEFINE Eq(g) == g = [i \in Nat |-> IF Nth(s, i) \notin Wrappers THEN i
                                      ELSE g[PastBoth(s, PastDuration(s, i))]]
<1>2. ASSUME NEW g PROVE Eq(g) <=> Walk(g, WrapperStops(s), PlaceNext(s))
  <2> DEFINE a == [i \in Nat |-> IF Nth(s, i) \notin Wrappers THEN i
                                 ELSE g[PastBoth(s, PastDuration(s, i))]]
             b == [i \in Nat |-> IF i \in WrapperStops(s) THEN i ELSE g[PlaceNext(s)[i]]]
  <2>1. ASSUME NEW i \in Nat PROVE a[i] = b[i]
    BY DEF WrapperStops, PlaceNext
  <2>2. a = b
    BY <2>1
  <2> HIDE DEF a, b
  <2>3. Eq(g) <=> g = a
    BY DEF a
  <2>4. Walk(g, WrapperStops(s), PlaceNext(s)) <=> g = b
    BY DEF Walk, b
  <2> QED BY <2>2, <2>3, <2>4
<1>3. \E g : Eq(g)
  BY <1>1, <1>2, WalkExists
<1> DEFINE place == CHOOSE g : Eq(g)
<1>4. Eq(place)
  <2> HIDE DEF Eq
  <2> QED BY <1>3
<1>5. Place(s) = place[1]
  BY DEF Place
<1> HIDE DEF place, Eq
<1> QED BY <1>1, <1>2, <1>4, <1>5

\* A command goes on behind p with what is no flag or assignment.
Continues(p, q) ==
  /\ p \in Seq(Words) /\ q \in Seq(Words) /\ Len(p) < Len(q)
  /\ \A i \in 1..Len(p) : q[i] = p[i]
  /\ LET w == q[Len(p) + 1] IN ~Dashed(w) /\ "=" \notin Marks[w]

LEMMA Same ==
  ASSUME NEW p, NEW q, Continues(p, q)
  PROVE  /\ Len(p) \in Nat /\ p \in Seq(Words) /\ q \in Seq(Words)
         /\ \A i \in 1..Len(p) : /\ Nth(q, i) = p[i] /\ Nth(p, i) = p[i] /\ q[i] = p[i]
                                /\ ~(i > Len(p)) /\ ~(i > Len(q)) /\ i \in Nat
         /\ Nth(q, Len(p) + 1) = q[Len(p) + 1] /\ Len(p) + 1 > Len(p)
         /\ \A w \in {Nth(p, Len(p) + 1), Nth(q, Len(p) + 1)} : ~Dashed(w) /\ "=" \notin Marks[w]
         /\ Nth(p, Len(p) + 1) \notin Wrappers
<1>1. p \in Seq(Words) /\ q \in Seq(Words) /\ Len(p) \in Nat /\ Len(q) \in Nat /\ Len(p) < Len(q)
  BY DEF Continues
<1>2. Nth(q, Len(p) + 1) = q[Len(p) + 1] /\ Len(p) + 1 > Len(p)
  <2>1. Len(p) + 1 =< Len(q) /\ Len(p) + 1 > Len(p)
    BY <1>1
  <2> QED BY <2>1 DEF Nth
<1>3. ASSUME NEW i \in 1..Len(p)
      PROVE  /\ Nth(q, i) = p[i] /\ Nth(p, i) = p[i] /\ q[i] = p[i]
             /\ ~(i > Len(p)) /\ ~(i > Len(q)) /\ i \in Nat
  <2>1. q[i] = p[i]
    BY DEF Continues
  <2>2. i =< Len(p) /\ i =< Len(q) /\ ~(i > Len(p)) /\ ~(i > Len(q)) /\ i \in Nat
    BY <1>1
  <2> QED BY <2>1, <2>2 DEF Nth
<1>4. LET w == Nth(p, Len(p) + 1) IN ~Dashed(w) /\ "=" \notin Marks[w] /\ w \notin Wrappers
  <2>1. Len(p) + 1 \in Nat /\ Len(p) + 1 > Len(p)
    BY <1>1
  <2> QED BY <1>1, <2>1, Behind
<1>5. LET w == Nth(q, Len(p) + 1) IN ~Dashed(w) /\ "=" \notin Marks[w]
  BY <1>2 DEF Continues
<1> QED BY <1>1, <1>2, <1>3, <1>4, <1>5

LEMMA SameFlags ==
  ASSUME NEW p, NEW q, Continues(p, q)
  PROVE  \A i \in 1..(Len(p) + 1) : PastFlags(p, i) =< Len(p) + 1 => PastFlags(q, i) = PastFlags(p, i)
<1>0. Len(p) \in Nat /\ \A i \in 1..(Len(p) + 1) : i \in Nat
  BY Same
<1>1. PICK g1 : Walk(g1, FlagStops(p), FlagNext(p)) /\ \A i \in Nat : PastFlags(p, i) = g1[i]
  BY Same, FlagsWalk
<1>2. PICK g2 : Walk(g2, FlagStops(q), FlagNext(q)) /\ \A i \in Nat : PastFlags(q, i) = g2[i]
  BY Same, FlagsWalk
<1>3. Len(p) + 1 \in FlagStops(p) /\ Len(p) + 1 \in FlagStops(q)
  BY Same DEF FlagStops, Continues
<1>4. \A i \in 1..Len(p) : i \in FlagStops(p) <=> i \in FlagStops(q)
  BY Same DEF FlagStops
<1>5. \A i \in 1..Len(p) : FlagNext(q)[i] = FlagNext(p)[i]
  BY Same DEF FlagNext
<1>6. Rightwards(Len(p), FlagStops(p), FlagNext(p)) /\ Rightwards(Len(q), FlagStops(q), FlagNext(q))
  BY Same, FlagsWalk
<1>7. \A i \in 1..(Len(p) + 1) : g1[i] =< Len(p) + 1 => g2[i] = g1[i]
  BY <1>0, <1>1, <1>2, <1>3, <1>4, <1>5, <1>6, SameWalk
<1> QED BY <1>0, <1>1, <1>2, <1>7

LEMMA SameAssignments ==
  ASSUME NEW p, NEW q, Continues(p, q)
  PROVE  \A i \in 1..(Len(p) + 1) :
           PastAssignments(p, i) =< Len(p) + 1 => PastAssignments(q, i) = PastAssignments(p, i)
<1>0. Len(p) \in Nat /\ \A i \in 1..(Len(p) + 1) : i \in Nat
  BY Same
<1>1. PICK g1 : Walk(g1, AssignStops(p), AssignNext) /\ \A i \in Nat : PastAssignments(p, i) = g1[i]
  BY Same, AssignmentsWalk
<1>2. PICK g2 : Walk(g2, AssignStops(q), AssignNext) /\ \A i \in Nat : PastAssignments(q, i) = g2[i]
  BY Same, AssignmentsWalk
<1>3. Len(p) + 1 \in AssignStops(p) /\ Len(p) + 1 \in AssignStops(q)
  BY Same DEF AssignStops, Continues
<1>4. \A i \in 1..Len(p) : i \in AssignStops(p) <=> i \in AssignStops(q)
  BY Same DEF AssignStops
<1>5. Rightwards(Len(p), AssignStops(p), AssignNext) /\ Rightwards(Len(q), AssignStops(q), AssignNext)
  BY Same, AssignmentsWalk
<1>6. \A i \in 1..(Len(p) + 1) : g1[i] =< Len(p) + 1 => g2[i] = g1[i]
  BY <1>0, <1>1, <1>2, <1>3, <1>4, <1>5, SameWalk
<1> QED BY <1>0, <1>1, <1>2, <1>6

LEMMA SameBoth ==
  ASSUME NEW p, NEW q, Continues(p, q)
  PROVE  \A i \in 1..(Len(p) + 1) : PastBoth(p, i) =< Len(p) + 1 => PastBoth(q, i) = PastBoth(p, i)
<1>0. Len(p) \in Nat /\ \A i \in 1..(Len(p) + 1) : i \in Nat
  BY Same
<1>1. PICK g1 : Walk(g1, BothStops(p), BothNext(p)) /\ \A i \in Nat : PastBoth(p, i) = g1[i]
  BY Same, BothWalk
<1>2. PICK g2 : Walk(g2, BothStops(q), BothNext(q)) /\ \A i \in Nat : PastBoth(q, i) = g2[i]
  BY Same, BothWalk
<1>3. Len(p) + 1 \in BothStops(p) /\ Len(p) + 1 \in BothStops(q)
  BY Same DEF BothStops
<1>4. \A i \in 1..Len(p) : i \in BothStops(p) <=> i \in BothStops(q)
  BY Same DEF BothStops
<1>5. \A i \in 1..Len(p) : BothNext(q)[i] = BothNext(p)[i]
  BY Same DEF BothNext
<1>6. Rightwards(Len(p), BothStops(p), BothNext(p)) /\ Rightwards(Len(q), BothStops(q), BothNext(q))
  BY Same, BothWalk
<1>7. \A i \in 1..(Len(p) + 1) : g1[i] =< Len(p) + 1 => g2[i] = g1[i]
  BY <1>0, <1>1, <1>2, <1>3, <1>4, <1>5, <1>6, SameWalk
<1> QED BY <1>0, <1>1, <1>2, <1>7

\* What stands before the command is peeled off, by both parsers, when it
\* stands alone.  A timeout takes the word behind it for its duration.
Peeled(p) ==
  /\ p \in Seq(Words) /\ p # <<>> /\ p[Len(p)] # "timeout"
  /\ NamePlace(p) = Len(p) + 1 /\ Place(p) = Len(p) + 1

LEMMA SameDuration ==
  ASSUME NEW p, NEW q, Continues(p, q), Peeled(p), NEW i \in 1..Len(p)
  PROVE  PastDuration(q, i) = PastDuration(p, i)
<1>1. CASE i = Len(p)
  <2>1. p[i] # "timeout" /\ q[i] # "timeout"
    BY <1>1, Same DEF Peeled
  <2> QED BY <2>1 DEF PastDuration
<1>2. CASE i # Len(p)
  <2>1. i + 1 \in 1..Len(p) /\ i < Len(p) /\ i < Len(q)
    BY <1>2, Same
  <2>2. q[i] = p[i] /\ q[i + 1] = p[i + 1]
    BY <2>1, Same
  <2> QED BY <2>1, <2>2 DEF PastDuration
<1> QED BY <1>1, <1>2

\* What people write before a command: a wrapper, timeout with its duration, a
\* wrapper with a flag that has a value, a wrapper with an assignment.
Usual ==
  LET W == Words \cap (Wrappers \ {"timeout"})
      X == Words \ {"timeout"}
      D == {x \in X : ~Dashed(x)}
  IN {<<w>> : w \in W}
       \cup {<<"timeout", d>> : d \in {x \in D : "timeout" \in Words}}
       \cup {<<w, f, v>> : w \in W, f \in {x \in Valued : x \in Words /\ Dashed(x)}, v \in X}
       \cup {<<w, a>> : w \in W, a \in {x \in D : "=" \in Marks[x]}}

\* One wrapper with all that is behind it.
LEMMA OneWrapper ==
  ASSUME NEW p \in Seq(Words), p # <<>>, p[1] \in Wrappers, p[Len(p)] # "timeout",
         NEW d \in Nat, d = PastDuration(p, 1),
         PastAssignments(p, PastFlags(p, d)) = Len(p) + 1, PastBoth(p, d) = Len(p) + 1
  PROVE  Peeled(p)
<1>1. Len(p) \in Nat /\ 1 =< Len(p)
  OBVIOUS
<1>2. 1 \notin WrapperStops(p)
  BY <1>1 DEF WrapperStops, Nth
<1>3. Len(p) + 1 \in WrapperStops(p)
  <2>1. Len(p) + 1 \in Nat /\ Len(p) + 1 > Len(p)
    BY <1>1
  <2> QED BY <2>1, Behind DEF WrapperStops
<1>4. NamePlace(p) = Len(p) + 1
  <2>1. PICK g : Walk(g, WrapperStops(p), NameNext(p)) /\ NamePlace(p) = g[1]
    BY NameWalk
  <2>2. NameNext(p)[1] = Len(p) + 1
    BY DEF NameNext
  <2>3. g[1] = g[Len(p) + 1] /\ g[Len(p) + 1] = Len(p) + 1
    BY <1>2, <1>3, <2>1, <2>2 DEF Walk, WrapperStops
  <2> QED BY <2>1, <2>3
<1>5. Place(p) = Len(p) + 1
  <2>1. PICK g : Walk(g, WrapperStops(p), PlaceNext(p)) /\ Place(p) = g[1]
    BY PlaceWalk
  <2>2. PlaceNext(p)[1] = Len(p) + 1
    BY DEF PlaceNext
  <2>3. g[1] = g[Len(p) + 1] /\ g[Len(p) + 1] = Len(p) + 1
    BY <1>2, <1>3, <2>1, <2>2 DEF Walk, WrapperStops
  <2> QED BY <2>1, <2>3
<1> QED BY <1>4, <1>5 DEF Peeled

\* The walks, a step at a time.
LEMMA WalkStep ==
  ASSUME NEW s \in Seq(Words), NEW i \in Nat
  PROVE  /\ PastFlags(s, i) = IF i \in FlagStops(s) THEN i ELSE PastFlags(s, FlagNext(s)[i])
         /\ PastAssignments(s, i) = IF i \in AssignStops(s) THEN i ELSE PastAssignments(s, i + 1)
         /\ PastBoth(s, i) = IF i \in BothStops(s) THEN i ELSE PastBoth(s, BothNext(s)[i])
<1>1. FlagNext(s)[i] \in Nat /\ BothNext(s)[i] \in Nat /\ AssignNext[i] = i + 1 /\ i + 1 \in Nat
  BY DEF FlagNext, BothNext, AssignNext
<1>2. PastFlags(s, i) = IF i \in FlagStops(s) THEN i ELSE PastFlags(s, FlagNext(s)[i])
  BY <1>1, FlagsWalk DEF Walk
<1>3. PastAssignments(s, i) = IF i \in AssignStops(s) THEN i ELSE PastAssignments(s, i + 1)
  BY <1>1, AssignmentsWalk DEF Walk
<1>4. PastBoth(s, i) = IF i \in BothStops(s) THEN i ELSE PastBoth(s, BothNext(s)[i])
  BY <1>1, BothWalk DEF Walk
<1> QED BY <1>2, <1>3, <1>4

\* Behind the last word every walk stops.
LEMMA WalkEnd ==
  ASSUME NEW s \in Seq(Words), NEW i \in Nat, i > Len(s)
  PROVE  PastFlags(s, i) = i /\ PastAssignments(s, i) = i /\ PastBoth(s, i) = i
  BY WalkStep, Behind DEF FlagStops, AssignStops, BothStops

\* What people write before a command is peeled off by both parsers, whatever
\* the values, durations and assignments are (safety.rs:154, preflight.rs:133).
THEOREM UsualPeeled == \A p \in Usual : Peeled(p)
<1> DEFINE W == Words \cap (Wrappers \ {"timeout"})
           X == Words \ {"timeout"}
           D == {x \in X : ~Dashed(x)}
<1>1. ASSUME NEW w \in W PROVE Peeled(<<w>>)
  <2> DEFINE p == <<w>>
  <2>1. p \in Seq(Words) /\ p # <<>> /\ Len(p) = 1 /\ p[1] = w
    OBVIOUS
  <2>2. w # "timeout" /\ w \in Wrappers
    OBVIOUS
  <2> HIDE DEF p
  <2>3. PastDuration(p, 1) = 2
    BY <2>1, <2>2 DEF PastDuration
  <2>4. PastFlags(p, 2) = 2 /\ PastAssignments(p, 2) = 2 /\ PastBoth(p, 2) = 2
    <3>1. 2 \in Nat /\ 2 > Len(p)
      BY <2>1
    <3> QED BY <2>1, <3>1, WalkEnd
  <2>8. p[Len(p)] # "timeout" /\ 2 \in Nat /\ Len(p) + 1 = 2
    BY <2>1, <2>2
  <2>9. Peeled(p)
    BY <2>1, <2>2, <2>3, <2>4, <2>8, OneWrapper
  <2> QED BY <2>9 DEF p
<1>2. ASSUME NEW d \in D, "timeout" \in Words PROVE Peeled(<<"timeout", d>>)
  <2> DEFINE p == <<"timeout", d>>
  <2>1. p \in Seq(Words) /\ p # <<>> /\ Len(p) = 2 /\ p[1] = "timeout" /\ p[2] = d
    BY <1>2
  <2>2. d # "timeout" /\ ~Dashed(d) /\ "timeout" \in Wrappers
    BY DEF Wrappers
  <2> HIDE DEF p
  <2>3. PastDuration(p, 1) = 3
    BY <2>1, <2>2 DEF PastDuration
  <2>4. PastFlags(p, 3) = 3 /\ PastAssignments(p, 3) = 3 /\ PastBoth(p, 3) = 3
    <3>1. 3 \in Nat /\ 3 > Len(p)
      BY <2>1
    <3> QED BY <2>1, <3>1, WalkEnd
  <2>8. p[Len(p)] # "timeout" /\ 3 \in Nat /\ Len(p) + 1 = 3
    BY <2>1, <2>2
  <2>9. Peeled(p)
    BY <2>1, <2>2, <2>3, <2>4, <2>8, OneWrapper
  <2> QED BY <2>9 DEF p
<1>3. ASSUME NEW w \in W, NEW f \in Valued, f \in Words, Dashed(f), NEW v \in X
      PROVE  Peeled(<<w, f, v>>)
  <2> DEFINE p == <<w, f, v>>
  <2>1. p \in Seq(Words) /\ p # <<>> /\ Len(p) = 3 /\ p[1] = w /\ p[2] = f /\ p[3] = v
    BY <1>3
  <2>2. w # "timeout" /\ w \in Wrappers /\ v # "timeout"
    OBVIOUS
  <2> HIDE DEF p
  <2>3. PastDuration(p, 1) = 2
    BY <2>1, <2>2 DEF PastDuration
  <2>4. Nth(p, 2) = f /\ Dashed(f) /\ f \in Valued
    BY <1>3, <2>1 DEF Nth
  <2>5. 2 \notin FlagStops(p) /\ FlagNext(p)[2] = 4 /\ 2 \notin BothStops(p) /\ BothNext(p)[2] = 4
    BY <2>1, <2>4 DEF FlagStops, FlagNext, BothStops, BothNext
  <2>6. PastFlags(p, 4) = 4 /\ PastAssignments(p, 4) = 4 /\ PastBoth(p, 4) = 4
    <3>1. 4 \in Nat /\ 4 > Len(p)
      BY <2>1
    <3> QED BY <2>1, <3>1, WalkEnd
  <2>7. PastFlags(p, 2) = 4 /\ PastBoth(p, 2) = 4
    BY <2>1, <2>5, <2>6, WalkStep
  <2>8. p[Len(p)] # "timeout" /\ 2 \in Nat /\ Len(p) + 1 = 4
    BY <2>1, <2>2
  <2>9. Peeled(p)
    BY <2>1, <2>2, <2>3, <2>6, <2>7, <2>8, OneWrapper
  <2> QED BY <2>9 DEF p
<1>4. ASSUME NEW w \in W, NEW a \in D, "=" \in Marks[a] PROVE Peeled(<<w, a>>)
  <2> DEFINE p == <<w, a>>
  <2>1. p \in Seq(Words) /\ p # <<>> /\ Len(p) = 2 /\ p[1] = w /\ p[2] = a
    OBVIOUS
  <2>2. w # "timeout" /\ w \in Wrappers /\ a # "timeout" /\ ~Dashed(a)
    OBVIOUS
  <2> HIDE DEF p
  <2>3. PastDuration(p, 1) = 2
    BY <2>1, <2>2 DEF PastDuration
  <2>4. Nth(p, 2) = a
    BY <2>1 DEF Nth
  <2>5. 2 \in FlagStops(p) /\ 2 \notin AssignStops(p) /\ 2 \notin BothStops(p) /\ BothNext(p)[2] = 3
    BY <1>4, <2>1, <2>2, <2>4 DEF FlagStops, AssignStops, BothStops, BothNext
  <2>6. PastAssignments(p, 3) = 3 /\ PastBoth(p, 3) = 3
    <3>1. 3 \in Nat /\ 3 > Len(p)
      BY <2>1
    <3> QED BY <2>1, <3>1, WalkEnd
  <2>7. PastFlags(p, 2) = 2 /\ PastAssignments(p, 2) = 3 /\ PastBoth(p, 2) = 3
    BY <2>1, <2>5, <2>6, WalkStep
  <2>8. p[Len(p)] # "timeout" /\ 2 \in Nat /\ Len(p) + 1 = 3
    BY <2>1, <2>2
  <2>9. Peeled(p)
    BY <2>1, <2>2, <2>3, <2>7, <2>8, OneWrapper
  <2> QED BY <2>9 DEF p
<1> HIDE DEF W, X, D
<1>5. Usual = {<<w>> : w \in W}
                \cup {<<"timeout", d>> : d \in {x \in D : "timeout" \in Words}}
                \cup {<<w, f, v>> : w \in W, f \in {x \in Valued : x \in Words /\ Dashed(x)}, v \in X}
                \cup {<<w, a>> : w \in W, a \in {x \in D : "=" \in Marks[x]}}
  BY DEF Usual, W, X, D
<1> QED BY <1>1, <1>2, <1>3, <1>4, <1>5

\* The same is peeled off before something else: both parsers get to the word
\* behind it.
LEMMA PeeledThrough ==
  ASSUME NEW p, NEW q, Continues(p, q), Peeled(p)
  PROVE  /\ \A g : Walk(g, WrapperStops(q), NameNext(q)) => g[1] = g[Len(p) + 1]
         /\ \A g : Walk(g, WrapperStops(q), PlaceNext(q)) => g[1] = g[Len(p) + 1]
<1>0. Len(p) \in Nat /\ Len(p) # 0 /\ p \in Seq(Words) /\ q \in Seq(Words)
  BY Same DEF Peeled
<1>1. Len(p) + 1 \in WrapperStops(p)
  BY Same DEF WrapperStops
<1>2. \A i \in 1..Len(p) : i \in WrapperStops(p) <=> i \in WrapperStops(q)
  BY Same DEF WrapperStops
<1>3. ASSUME NEW g2, Walk(g2, WrapperStops(q), NameNext(q)) PROVE g2[1] = g2[Len(p) + 1]
  <2>1. PICK g1 : Walk(g1, WrapperStops(p), NameNext(p)) /\ NamePlace(p) = g1[1]
    BY <1>0, NameWalk
  <2>2. g1[1] = Len(p) + 1 /\ 1 \in 1..(Len(p) + 1)
    BY <1>0, <2>1 DEF Peeled
  <2>3. ASSUME NEW i \in 1..Len(p), NameNext(p)[i] =< Len(p) + 1
        PROVE  NameNext(q)[i] = NameNext(p)[i]
    <3>0. i \in Nat
      BY Same
    <3>1. PICK d \in Nat : d = PastDuration(p, i) /\ d = PastDuration(q, i) /\ i < d
      <4>1. PastDuration(q, i) = PastDuration(p, i)
        BY SameDuration
      <4> QED BY <1>0, <3>0, <4>1, PastForward
    <3>2. PICK f \in Nat : f = PastFlags(p, d) /\ d =< f
      BY <1>0, PastForward
    <3>3. PICK a \in Nat : a = PastAssignments(p, f) /\ f =< a
      BY <1>0, PastForward
    <3>4. NameNext(p)[i] = a /\ i \in Nat
      BY <3>0, <3>1, <3>2, <3>3 DEF NameNext
    <3>5. d \in 1..(Len(p) + 1) /\ f \in 1..(Len(p) + 1) /\ a =< Len(p) + 1
      BY <2>3, <3>1, <3>2, <3>3, <3>4, <1>0
    <3>6. PastFlags(q, d) = f
      BY <3>2, <3>5, SameFlags
    <3>7. PastAssignments(q, f) = a
      BY <3>3, <3>5, SameAssignments
    <3> QED BY <3>1, <3>4, <3>6, <3>7 DEF NameNext
  <2>4. \A i \in 1..(Len(p) + 1) :
          g1[i] =< Len(p) + 1 => g2[i] = IF g1[i] = Len(p) + 1 THEN g2[Len(p) + 1] ELSE g1[i]
    <3>1. Rightwards(Len(p), WrapperStops(p), NameNext(p)) /\ Rightwards(Len(q), WrapperStops(q), NameNext(q))
      BY <1>0, NameWalk
    <3> QED BY <1>0, <1>1, <1>2, <1>3, <2>1, <2>3, <3>1, Through
  <2> QED BY <1>0, <2>2, <2>4
<1>4. ASSUME NEW g2, Walk(g2, WrapperStops(q), PlaceNext(q)) PROVE g2[1] = g2[Len(p) + 1]
  <2>1. PICK g1 : Walk(g1, WrapperStops(p), PlaceNext(p)) /\ Place(p) = g1[1]
    BY <1>0, PlaceWalk
  <2>2. g1[1] = Len(p) + 1 /\ 1 \in 1..(Len(p) + 1)
    BY <1>0, <2>1 DEF Peeled
  <2>3. ASSUME NEW i \in 1..Len(p), PlaceNext(p)[i] =< Len(p) + 1
        PROVE  PlaceNext(q)[i] = PlaceNext(p)[i]
    <3>0. i \in Nat
      BY Same
    <3>1. PICK d \in Nat : d = PastDuration(p, i) /\ d = PastDuration(q, i) /\ i < d
      <4>1. PastDuration(q, i) = PastDuration(p, i)
        BY SameDuration
      <4> QED BY <1>0, <3>0, <4>1, PastForward
    <3>2. PICK b \in Nat : b = PastBoth(p, d) /\ d =< b
      BY <1>0, PastForward
    <3>3. PlaceNext(p)[i] = b /\ i \in Nat
      BY <3>0, <3>1, <3>2 DEF PlaceNext
    <3>4. d \in 1..(Len(p) + 1) /\ b =< Len(p) + 1
      BY <2>3, <3>1, <3>2, <3>3, <1>0
    <3>5. PastBoth(q, d) = b
      BY <3>2, <3>4, SameBoth
    <3> QED BY <3>1, <3>3, <3>5 DEF PlaceNext
  <2>4. \A i \in 1..(Len(p) + 1) :
          g1[i] =< Len(p) + 1 => g2[i] = IF g1[i] = Len(p) + 1 THEN g2[Len(p) + 1] ELSE g1[i]
    <3>1. Rightwards(Len(p), WrapperStops(p), PlaceNext(p)) /\ Rightwards(Len(q), WrapperStops(q), PlaceNext(q))
      BY <1>0, PlaceWalk
    <3> QED BY <1>0, <1>1, <1>2, <1>4, <2>1, <2>3, <3>1, Through
  <2> QED BY <1>0, <2>2, <2>4
<1> QED BY <1>3, <1>4

\* A name behind it is found.
LEMMA PeeledBefore ==
  ASSUME NEW p, NEW q, Continues(p, q), Peeled(p), q[Len(p) + 1] \notin Wrappers
  PROVE  NamePlace(q) = Len(p) + 1 /\ Place(q) = Len(p) + 1
<1>1. Len(p) + 1 \in WrapperStops(q) /\ Len(p) + 1 \in Nat /\ q \in Seq(Words)
  BY Same DEF WrapperStops
<1>2. NamePlace(q) = Len(p) + 1
  <2>1. PICK g : Walk(g, WrapperStops(q), NameNext(q)) /\ NamePlace(q) = g[1]
    BY <1>1, NameWalk
  <2>2. g[1] = g[Len(p) + 1]
    BY <2>1, PeeledThrough
  <2> QED BY <1>1, <2>1, <2>2 DEF Walk
<1>3. Place(q) = Len(p) + 1
  <2>1. PICK g : Walk(g, WrapperStops(q), PlaceNext(q)) /\ Place(q) = g[1]
    BY <1>1, PlaceWalk
  <2>2. g[1] = g[Len(p) + 1]
    BY <2>1, PeeledThrough
  <2> QED BY <1>1, <2>1, <2>2 DEF Walk
<1> QED BY <1>2, <1>3

\* q stands behind p.
Joins(p, q, r) ==
  /\ p \in Seq(Words) /\ q \in Seq(Words) /\ r = p \o q

LEMMA Further ==
  ASSUME NEW p, NEW q, NEW r, Joins(p, q, r)
  PROVE  /\ p \in Seq(Words) /\ q \in Seq(Words) /\ r \in Seq(Words)
         /\ Len(r) = Len(p) + Len(q) /\ Len(p) \in Nat /\ Len(q) \in Nat
         /\ \A i \in 1..Len(p) : r[i] = p[i]
<1>1. /\ p \in Seq(Words) /\ q \in Seq(Words) /\ r \in Seq(Words)
      /\ Len(r) = Len(p) + Len(q) /\ Len(p) \in Nat /\ Len(q) \in Nat
      /\ \A i \in 1..(Len(p) + Len(q)) : r[i] = IF i <= Len(p) THEN p[i] ELSE q[i - Len(p)]
  BY ConcatProperties DEF Joins
<1> QED BY <1>1

LEMMA FurtherAt ==
  ASSUME NEW p, NEW q, NEW r, Joins(p, q, r), NEW i \in Nat \ {0}
  PROVE  /\ Len(p) + i \in Nat /\ Nth(r, Len(p) + i) = Nth(q, i)
         /\ (Len(p) + i > Len(r) <=> i > Len(q)) /\ (Len(p) + i < Len(r) <=> i < Len(q))
         /\ ~(i > Len(q)) => i \in 1..Len(q) /\ r[Len(p) + i] = q[i]
<1>1. /\ Len(r) = Len(p) + Len(q) /\ Len(p) \in Nat /\ Len(q) \in Nat
      /\ \A k \in 1..(Len(p) + Len(q)) : r[k] = IF k <= Len(p) THEN p[k] ELSE q[k - Len(p)]
  BY ConcatProperties DEF Joins
<1>2. /\ Len(p) + i \in Nat
      /\ (Len(p) + i > Len(r) <=> i > Len(q)) /\ (Len(p) + i < Len(r) <=> i < Len(q))
      /\ (Len(p) + i =< Len(r) <=> i =< Len(q))
  BY <1>1
<1>3. ASSUME ~(i > Len(q)) PROVE i \in 1..Len(q) /\ r[Len(p) + i] = q[i]
  <2>1. i \in 1..Len(q) /\ Len(p) + i \in 1..(Len(p) + Len(q)) /\ ~(Len(p) + i <= Len(p)) /\ (Len(p) + i) - Len(p) = i
    BY <1>1, <1>3
  <2> QED BY <1>1, <2>1
<1>4. Nth(r, Len(p) + i) = Nth(q, i)
  <2>1. i =< Len(q) => ~(i > Len(q))
    BY <1>1
  <2> QED BY <1>2, <1>3, <2>1 DEF Nth
<1> QED BY <1>2, <1>3, <1>4

\* The walks over q, with p before it.
LEMMA ShiftedWalks ==
  ASSUME NEW p, NEW q, NEW r, Joins(p, q, r)
  PROVE  /\ Shift(Len(p), FlagStops(q), FlagNext(q), FlagStops(r), FlagNext(r))
         /\ Shift(Len(p), AssignStops(q), AssignNext, AssignStops(r), AssignNext)
         /\ Shift(Len(p), BothStops(q), BothNext(q), BothStops(r), BothNext(r))
<1> DEFINE m == Len(p)
<1>1. m \in Nat /\ q \in Seq(Words)
  BY Further
<1> SUFFICES ASSUME NEW k \in Nat \ {0}
             PROVE  /\ k \in FlagStops(q) <=> m + k \in FlagStops(r)
                    /\ k \notin FlagStops(q) => FlagNext(r)[m + k] = m + FlagNext(q)[k]
                    /\ k \in AssignStops(q) <=> m + k \in AssignStops(r)
                    /\ AssignNext[m + k] = m + AssignNext[k]
                    /\ k \in BothStops(q) <=> m + k \in BothStops(r)
                    /\ k \notin BothStops(q) => BothNext(r)[m + k] = m + BothNext(q)[k]
  BY DEF Shift
<1>2. /\ m + k \in Nat /\ Nth(r, m + k) = Nth(q, k) /\ (m + k > Len(r) <=> k > Len(q))
      /\ ~(k > Len(q)) => r[m + k] = q[k]
  BY FurtherAt
<1> HIDE DEF m
<1>3. k \in FlagStops(q) <=> m + k \in FlagStops(r)
  BY <1>2 DEF FlagStops
<1>4. k \notin FlagStops(q) => FlagNext(r)[m + k] = m + FlagNext(q)[k]
  BY <1>1, <1>2 DEF FlagStops, FlagNext
<1>5. k \in AssignStops(q) <=> m + k \in AssignStops(r)
  BY <1>2 DEF AssignStops
<1>6. AssignNext[m + k] = m + AssignNext[k]
  BY <1>1, <1>2 DEF AssignNext
<1>7. k \in BothStops(q) <=> m + k \in BothStops(r)
  BY <1>2 DEF BothStops
<1>8. ASSUME k \notin BothStops(q) PROVE BothNext(r)[m + k] = m + BothNext(q)[k]
  <2>1. ~(k > Len(q))
    BY <1>1, <1>8, Behind DEF BothStops
  <2> QED BY <1>1, <1>2, <2>1 DEF BothNext
<1> QED BY <1>3, <1>4, <1>5, <1>6, <1>7, <1>8

LEMMA FurtherWalks ==
  ASSUME NEW p, NEW q, NEW r, Joins(p, q, r), NEW i \in Nat \ {0}
  PROVE  /\ PastFlags(q, i) \in Nat /\ PastFlags(r, Len(p) + i) = Len(p) + PastFlags(q, i)
         /\ PastAssignments(q, i) \in Nat
         /\ PastAssignments(r, Len(p) + i) = Len(p) + PastAssignments(q, i)
         /\ PastBoth(q, i) \in Nat /\ PastBoth(r, Len(p) + i) = Len(p) + PastBoth(q, i)
<1> DEFINE m == Len(p)
<1>1. r \in Seq(Words) /\ q \in Seq(Words) /\ m \in Nat /\ m + i \in Nat
  BY Further
<1>2. /\ Shift(m, FlagStops(q), FlagNext(q), FlagStops(r), FlagNext(r))
      /\ Shift(m, AssignStops(q), AssignNext, AssignStops(r), AssignNext)
      /\ Shift(m, BothStops(q), BothNext(q), BothStops(r), BothNext(r))
  BY ShiftedWalks
<1> HIDE DEF m
<1>3. PastFlags(q, i) \in Nat /\ PastFlags(r, m + i) = m + PastFlags(q, i)
  <2>1. PICK g1 : Walk(g1, FlagStops(q), FlagNext(q)) /\ \A k \in Nat : PastFlags(q, k) = g1[k]
    BY <1>1, FlagsWalk
  <2>2. PICK g2 : Walk(g2, FlagStops(r), FlagNext(r)) /\ \A k \in Nat : PastFlags(r, k) = g2[k]
    BY <1>1, FlagsWalk
  <2>3. Rightwards(Len(q), FlagStops(q), FlagNext(q)) /\ Rightwards(Len(r), FlagStops(r), FlagNext(r))
    BY <1>1, FlagsWalk
  <2>4. g1[i] \in Nat /\ g2[m + i] = m + g1[i]
    BY <1>1, <1>2, <2>1, <2>2, <2>3, Shifted
  <2> QED BY <1>1, <2>1, <2>2, <2>4
<1>4. PastAssignments(q, i) \in Nat /\ PastAssignments(r, m + i) = m + PastAssignments(q, i)
  <2>1. PICK g1 : Walk(g1, AssignStops(q), AssignNext) /\ \A k \in Nat : PastAssignments(q, k) = g1[k]
    BY <1>1, AssignmentsWalk
  <2>2. PICK g2 : Walk(g2, AssignStops(r), AssignNext) /\ \A k \in Nat : PastAssignments(r, k) = g2[k]
    BY <1>1, AssignmentsWalk
  <2>3. Rightwards(Len(q), AssignStops(q), AssignNext) /\ Rightwards(Len(r), AssignStops(r), AssignNext)
    BY <1>1, AssignmentsWalk
  <2>4. g1[i] \in Nat /\ g2[m + i] = m + g1[i]
    BY <1>1, <1>2, <2>1, <2>2, <2>3, Shifted
  <2> QED BY <1>1, <2>1, <2>2, <2>4
<1>5. PastBoth(q, i) \in Nat /\ PastBoth(r, m + i) = m + PastBoth(q, i)
  <2>1. PICK g1 : Walk(g1, BothStops(q), BothNext(q)) /\ \A k \in Nat : PastBoth(q, k) = g1[k]
    BY <1>1, BothWalk
  <2>2. PICK g2 : Walk(g2, BothStops(r), BothNext(r)) /\ \A k \in Nat : PastBoth(r, k) = g2[k]
    BY <1>1, BothWalk
  <2>3. Rightwards(Len(q), BothStops(q), BothNext(q)) /\ Rightwards(Len(r), BothStops(r), BothNext(r))
    BY <1>1, BothWalk
  <2>4. g1[i] \in Nat /\ g2[m + i] = m + g1[i]
    BY <1>1, <1>2, <2>1, <2>2, <2>3, Shifted
  <2> QED BY <1>1, <2>1, <2>2, <2>4
<1> QED BY <1>3, <1>4, <1>5 DEF m

LEMMA ShiftedPlaces ==
  ASSUME NEW p, NEW q, NEW r, Joins(p, q, r)
  PROVE  /\ Shift(Len(p), WrapperStops(q), NameNext(q), WrapperStops(r), NameNext(r))
         /\ Shift(Len(p), WrapperStops(q), PlaceNext(q), WrapperStops(r), PlaceNext(r))
<1> DEFINE m == Len(p)
<1>1. m \in Nat /\ q \in Seq(Words) /\ Len(q) \in Nat
  BY Further
<1>2. ASSUME NEW k \in Nat \ {0} PROVE k \in WrapperStops(q) <=> m + k \in WrapperStops(r)
  <2>1. m + k \in Nat /\ Nth(r, m + k) = Nth(q, k)
    BY FurtherAt
  <2> HIDE DEF m
  <2> QED BY <2>1 DEF WrapperStops
<1>3. ASSUME NEW k \in Nat \ {0}, k \notin WrapperStops(q)
      PROVE  NameNext(r)[m + k] = m + NameNext(q)[k] /\ PlaceNext(r)[m + k] = m + PlaceNext(q)[k]
  <2>1. ~(k > Len(q))
    BY <1>1, <1>3, Behind DEF WrapperStops
  <2>2. m + k \in Nat /\ r[m + k] = q[k] /\ (m + k < Len(r) <=> k < Len(q))
    BY <2>1, FurtherAt
  <2>3. k < Len(q) => r[(m + k) + 1] = q[k + 1]
    <3>1. k < Len(q) => k + 1 \in Nat \ {0} /\ (m + k) + 1 = m + (k + 1) /\ ~(k + 1 > Len(q))
      BY <1>1
    <3>2. k < Len(q) => r[m + (k + 1)] = q[k + 1]
      BY <3>1, FurtherAt
    <3> QED BY <3>1, <3>2
  <2> HIDE DEF m
  <2>4. PICK d \in Nat \ {0} : d = PastDuration(q, k) /\ PastDuration(r, m + k) = m + d
    <3>1. CASE q[k] = "timeout" /\ k < Len(q) /\ ~Dashed(q[k + 1])
      <4>1. PastDuration(q, k) = k + 2 /\ PastDuration(r, m + k) = (m + k) + 2
        BY <2>2, <2>3, <3>1 DEF PastDuration
      <4> QED BY <1>1, <4>1
    <3>2. CASE ~(q[k] = "timeout" /\ k < Len(q) /\ ~Dashed(q[k + 1]))
      <4>1. PastDuration(q, k) = k + 1 /\ PastDuration(r, m + k) = (m + k) + 1
        BY <2>2, <2>3, <3>2 DEF PastDuration
      <4> QED BY <1>1, <4>1
    <3> QED BY <3>1, <3>2
  <2>5. PICK f \in Nat \ {0} : f = PastFlags(q, d) /\ PastFlags(r, m + d) = m + f
    <3>1. PastFlags(q, d) \in Nat /\ PastFlags(r, m + d) = m + PastFlags(q, d)
      BY FurtherWalks DEF m
    <3>2. d \in Nat /\ d =< PastFlags(q, d)
      BY <1>1, PastForward
    <3> QED BY <3>1, <3>2
  <2>6. PastAssignments(q, f) \in Nat /\ PastAssignments(r, m + f) = m + PastAssignments(q, f)
    BY FurtherWalks DEF m
  <2>7. PastBoth(q, d) \in Nat /\ PastBoth(r, m + d) = m + PastBoth(q, d)
    BY FurtherWalks DEF m
  <2>8. NameNext(r)[m + k] = PastAssignments(r, m + f) /\ NameNext(q)[k] = PastAssignments(q, f)
    BY <2>2, <2>4, <2>5 DEF NameNext
  <2>9. PlaceNext(r)[m + k] = PastBoth(r, m + d) /\ PlaceNext(q)[k] = PastBoth(q, d)
    BY <2>2, <2>4 DEF PlaceNext
  <2> QED BY <2>6, <2>7, <2>8, <2>9
<1> QED BY <1>2, <1>3 DEF Shift

\* What is peeled off alone is peeled off one behind the other, if wrappers do
\* not look like flags or assignments: `sudo -u deploy env A=1 timeout 5 rm`
\* is seen as the rm (safety.rs:160, preflight.rs:161).
THEOREM Chained ==
  ASSUME \A w \in Wrappers \cap Words : ~Dashed(w) /\ "=" \notin Marks[w],
         NEW p, Peeled(p), NEW q, Peeled(q)
  PROVE  Peeled(p \o q)
<1> DEFINE r == p \o q
           m == Len(p)
<1>1. Joins(p, q, r)
  BY DEF Joins, Peeled
<1> HIDE DEF r
<1>2. /\ r \in Seq(Words) /\ p \in Seq(Words) /\ q \in Seq(Words)
      /\ m \in Nat /\ Len(q) \in Nat /\ Len(q) # 0 /\ Len(r) = m + Len(q)
      /\ \A i \in 1..m : r[i] = p[i]
      /\ \A i \in {1, Len(q)} : i \in 1..Len(q) /\ r[m + i] = q[i]
  <2>1. p \in Seq(Words) /\ q \in Seq(Words) /\ q # <<>>
    BY DEF Peeled
  <2>2. Len(q) # 0 /\ Len(q) \in Nat
    BY <2>1
  <2>3. ASSUME NEW i \in {1, Len(q)} PROVE i \in 1..Len(q) /\ r[m + i] = q[i]
    <3>1. i \in Nat \ {0} /\ ~(i > Len(q))
      BY <2>2
    <3> QED BY <1>1, <3>1, FurtherAt
  <2> QED BY <1>1, <2>1, <2>2, <2>3, Further
<1>3. /\ Shift(m, WrapperStops(q), NameNext(q), WrapperStops(r), NameNext(r))
      /\ Shift(m, WrapperStops(q), PlaceNext(q), WrapperStops(r), PlaceNext(r))
  BY <1>1, ShiftedPlaces
<1>4. q[1] \in Wrappers /\ q[1] \in Words
  <2>1. Nth(q, 1) = q[1] /\ q[1] \in Words
    <3>1. 1 \in 1..Len(q) /\ 1 =< Len(q)
      BY <1>2
    <3>2. q[1] \in Words
      BY <1>2, <3>1
    <3> QED BY <3>1, <3>2 DEF Nth
  <2>2. PICK g : Walk(g, WrapperStops(q), PlaceNext(q)) /\ Place(q) = g[1]
    BY <1>2, PlaceWalk
  <2>3. 1 \notin WrapperStops(q)
    <3>1. g[1] # 1
      BY <1>2, <2>2 DEF Peeled
    <3> QED BY <2>2, <3>1 DEF Walk
  <2> QED BY <2>1, <2>3 DEF WrapperStops
<1>5. Continues(p, r)
  <2>1. r[m + 1] = q[1] /\ m < Len(r)
    BY <1>2
  <2>2. ~Dashed(q[1]) /\ "=" \notin Marks[q[1]]
    BY <1>4
  <2> QED BY <1>2, <2>1, <2>2 DEF Continues
<1>6. NamePlace(r) = Len(r) + 1
  <2>1. PICK g1 : Walk(g1, WrapperStops(q), NameNext(q)) /\ NamePlace(q) = g1[1]
    BY <1>2, NameWalk
  <2>2. PICK g2 : Walk(g2, WrapperStops(r), NameNext(r)) /\ NamePlace(r) = g2[1]
    BY <1>2, NameWalk
  <2>3. g2[1] = g2[m + 1]
    BY <1>5, <2>2, PeeledThrough
  <2>4. Rightwards(Len(q), WrapperStops(q), NameNext(q)) /\ Rightwards(Len(r), WrapperStops(r), NameNext(r))
    BY <1>2, NameWalk
  <2>5. g2[m + 1] = m + g1[1]
    BY <1>2, <1>3, <2>1, <2>2, <2>4, Shifted
  <2>6. g1[1] = Len(q) + 1
    BY <2>1 DEF Peeled
  <2> QED BY <1>2, <2>2, <2>3, <2>5, <2>6
<1>7. Place(r) = Len(r) + 1
  <2>1. PICK g1 : Walk(g1, WrapperStops(q), PlaceNext(q)) /\ Place(q) = g1[1]
    BY <1>2, PlaceWalk
  <2>2. PICK g2 : Walk(g2, WrapperStops(r), PlaceNext(r)) /\ Place(r) = g2[1]
    BY <1>2, PlaceWalk
  <2>3. g2[1] = g2[m + 1]
    BY <1>5, <2>2, PeeledThrough
  <2>4. Rightwards(Len(q), WrapperStops(q), PlaceNext(q)) /\ Rightwards(Len(r), WrapperStops(r), PlaceNext(r))
    BY <1>2, PlaceWalk
  <2>5. g2[m + 1] = m + g1[1]
    BY <1>2, <1>3, <2>1, <2>2, <2>4, Shifted
  <2>6. g1[1] = Len(q) + 1
    BY <2>1 DEF Peeled
  <2> QED BY <1>2, <2>2, <2>3, <2>5, <2>6
<1>8. r # <<>> /\ r[Len(r)] # "timeout"
  <2>1. Len(q) \in 1..Len(q) /\ q[Len(q)] # "timeout"
    BY <1>2 DEF Peeled
  <2>2. r[Len(r)] = q[Len(q)] /\ Len(r) # 0
    BY <1>2, <2>1
  <2> QED BY <1>2, <2>1, <2>2
<1>9. Peeled(r)
  BY <1>2, <1>6, <1>7, <1>8 DEF Peeled
<1> QED BY <1>9 DEF r

-----------------------------------------------------------------------------
(***************************************************************************)
(* The classifier's verdict.                                               *)
(***************************************************************************)
LEMMA LeastOf == ASSUME NEW T \in SUBSET Nat, T # {}
                 PROVE  Min(T) \in T /\ \A y \in T : Min(T) =< y
<1>1. \E x \in T : \A y \in T : x =< y
  BY LeastNumber
<1> QED BY <1>1 DEF Min

LEMMA WorstOf ==
  ASSUME NEW S \in SUBSET Risks
  PROVE  Worst(S) \in Risks /\ Worst(S) \in S \cup {0} /\ \A x \in S : x =< Worst(S)
<1> DEFINE T == S \cup {0}
<1>1. T \subseteq {0, 1, 2, 3, 4} /\ 0 \in T
  BY DEF Risks
<1>2. \E x \in T : \A y \in T : x >= y
  <2> HIDE DEF T
  <2>1. CASE 4 \in T
    BY <1>1, <2>1
  <2>2. CASE 4 \notin T /\ 3 \in T
    BY <1>1, <2>2
  <2>3. CASE 4 \notin T /\ 3 \notin T /\ 2 \in T
    BY <1>1, <2>3
  <2>4. CASE 4 \notin T /\ 3 \notin T /\ 2 \notin T /\ 1 \in T
    BY <1>1, <2>4
  <2>5. CASE 4 \notin T /\ 3 \notin T /\ 2 \notin T /\ 1 \notin T
    BY <1>1, <2>5
  <2> QED BY <2>1, <2>2, <2>3, <2>4, <2>5
<1>3. Worst(S) = Max(T)
  BY DEF Worst
<1>4. Max(T) \in T /\ \A y \in T : Max(T) >= y
  <2> HIDE DEF T
  <2> QED BY <1>2 DEF Max
<1>5. \A y \in T : y \in 0..4
  BY <1>1
<1>6. S \subseteq T
  OBVIOUS
<1>7. Worst(S) \in T /\ \A y \in T : y =< Worst(S)
  <2> HIDE DEF T
  <2> QED BY <1>3, <1>4, <1>5
<1> QED BY <1>5, <1>6, <1>7 DEF Risks

LEMMA WorstMonotone ==
  ASSUME NEW S \in SUBSET Risks, NEW T \in SUBSET Risks, \A x \in S : \E y \in T : x =< y
  PROVE  Worst(S) =< Worst(T)
<1>1. /\ Worst(S) \in S \cup {0} /\ Worst(S) \in 0..4
      /\ Worst(T) \in 0..4 /\ \A y \in T : y =< Worst(T)
  BY WorstOf DEF Risks
<1>2. CASE Worst(S) = 0
  BY <1>1, <1>2
<1>3. CASE Worst(S) \in S
  <2>1. PICK y \in T : Worst(S) =< y
    BY <1>3
  <2>2. y \in 0..4 /\ y =< Worst(T)
    BY <1>1 DEF Risks
  <2> QED BY <1>1, <2>1, <2>2
<1> QED BY <1>1, <1>2, <1>3

\* The tail of a command is shorter.
LEMMA AfterShorter ==
  ASSUME NEW s \in Seq(Words), NEW i \in Nat
  PROVE  /\ After(s, i) \in Seq(Words)
         /\ Len(After(s, i)) = IF i =< Len(s) THEN Len(s) - i ELSE 0
         /\ \A j \in 1..Len(After(s, i)) : After(s, i)[j] = s[i + j]
<1>1. Len(s) \in Nat /\ i + 1 \in Int /\ \A j \in (i + 1)..Len(s) : s[j] \in Words
  OBVIOUS
<1> DEFINE m == i + 1
           n == Len(s)
<1>2. After(s, i) = SubSeq(s, m, n) /\ m \in Int /\ n \in Int /\ \A j \in m..n : s[j] \in Words
  BY <1>1 DEF After
<1>3. /\ SubSeq(s, m, n) \in Seq(Words)
      /\ Len(SubSeq(s, m, n)) = IF m <= n THEN n - m + 1 ELSE 0
      /\ \A j \in 1..(n - m + 1) : SubSeq(s, m, n)[j] = s[m + j - 1]
  <2> HIDE DEF m, n
  <2> QED BY <1>2, SubSeqProperties
<1>4. /\ After(s, i) \in Seq(Words)
      /\ Len(After(s, i)) = IF i + 1 <= Len(s) THEN Len(s) - (i + 1) + 1 ELSE 0
      /\ \A j \in 1..(Len(s) - (i + 1) + 1) : After(s, i)[j] = s[(i + 1) + j - 1]
  BY <1>2, <1>3
<1>5. Len(After(s, i)) = IF i =< Len(s) THEN Len(s) - i ELSE 0
  BY <1>1, <1>4
<1>6. \A j \in 1..Len(After(s, i)) : j \in 1..(Len(s) - (i + 1) + 1) /\ (i + 1) + j - 1 = i + j
  BY <1>1, <1>5
<1> QED BY <1>4, <1>5, <1>6

LEMMA ArgumentsShorter ==
  ASSUME NEW s \in Seq(Words), s # <<>>
  PROVE  Arguments(s) \in Seq(Words) /\ Len(Arguments(s)) < Len(s)
<1> DEFINE at == {i \in DOMAIN s : s[i] = CommandName(s)}
           k == IF at = {} THEN 1 ELSE Min(at)
<1>1. k \in Nat /\ 1 =< k
  <2>1. at \subseteq Nat /\ \A i \in at : 1 =< i
    OBVIOUS
  <2> HIDE DEF at
  <2>2. CASE at # {}
    <3>1. Min(at) \in at
      BY <2>1, <2>2, LeastOf
    <3> QED BY <2>1, <2>2, <3>1
  <2> QED BY <2>2
<1>2. Arguments(s) = After(s, k)
  BY DEF Arguments
<1> HIDE DEF at, k
<1>3. Len(s) \in Nat /\ Len(s) # 0
  OBVIOUS
<1> QED BY <1>1, <1>2, <1>3, AfterShorter

LEMMA PayloadShorter ==
  ASSUME NEW a \in Seq(Words), NEW name
  PROVE  Payload(name, a) \in Seq(Words) /\ Len(Payload(name, a)) =< Len(a)
<1>1. CASE name = "xargs"
  <2> DEFINE starts == {i \in DOMAIN a : ~Dashed(a[i]) /\ "9" \notin Marks[a[i]]}
             k == IF starts = {} THEN Len(a) ELSE Min(starts) - 1
  <2>1. k \in Nat
    <3>1. starts \subseteq Nat /\ (\A i \in starts : 1 =< i) /\ Len(a) \in Nat
      OBVIOUS
    <3> HIDE DEF starts
    <3>2. CASE starts # {}
      <4>1. Min(starts) \in Nat /\ 1 =< Min(starts)
        BY <3>1, <3>2, LeastOf
      <4> QED BY <3>2, <4>1
    <3> QED BY <3>1, <3>2
  <2>2. Payload(name, a) = After(a, k)
    BY <1>1 DEF Payload
  <2> HIDE DEF k
  <2> QED BY <2>1, <2>2, AfterShorter
<1>2. CASE name # "xargs"
  <2> DEFINE execs == {i \in DOMAIN a : a[i] = "-exec"}
             k == IF execs = {} THEN Len(a) ELSE Min(execs)
             from == After(a, k)
             ends == {i \in DOMAIN from : from[i] \in {";", "+"}}
             m == IF ends = {} THEN Len(from) ELSE Min(ends) - 1
  <2>1. k \in Nat
    <3>1. execs \subseteq Nat /\ Len(a) \in Nat
      OBVIOUS
    <3> HIDE DEF execs
    <3> QED BY <3>1, LeastOf
  <2>2. from \in Seq(Words) /\ Len(from) =< Len(a)
    <3> HIDE DEF k
    <3> QED BY <2>1, AfterShorter
  <2>3. m \in 0..Len(from)
    <3> HIDE DEF from
    <3>1. ends \subseteq 1..Len(from) /\ ends \subseteq Nat /\ Len(from) \in Nat
      <4>1. DOMAIN from = 1..Len(from) /\ Len(from) \in Nat
        BY <2>2
      <4>2. ends \subseteq DOMAIN from
        OBVIOUS
      <4> HIDE DEF ends
      <4> QED BY <4>1, <4>2
    <3> HIDE DEF ends
    <3>2. CASE ends # {}
      <4>1. Min(ends) \in 1..Len(from)
        BY <3>1, <3>2, LeastOf
      <4> QED BY <3>1, <3>2, <4>1
    <3> QED BY <3>1, <3>2
  <2>4. Payload(name, a) = SubSeq(from, 1, m)
    BY <1>2 DEF Payload
  <2> HIDE DEF from, m
  <2> QED BY <2>2, <2>3, <2>4
<1> QED BY <1>1, <1>2

LEMMA FileRiskType == ASSUME NEW a, NEW name \in {"rm", "dd", "shred", "chmod", "sed", "mv"}
                      PROVE FileRisk(name, a) \in Risks
  BY DEF FileRisk, Risks, ReadOnly, Mutating, Destructive
LEMMA SystemRiskType == ASSUME NEW a, NEW name \in {"kill", "shutdown", "mount", "systemctl", "apt"}
                        PROVE SystemRisk(name, a) \in Risks
  BY DEF SystemRisk, Risks, ReadOnly, Mutating, Privileged
LEMMA GitRiskType == ASSUME NEW a PROVE GitRisk(a) \in Risks
  BY DEF GitRisk, Risks, ReadOnly, Mutating, Remote, Destructive
LEMMA DockerRiskType == ASSUME NEW a PROVE DockerRisk(a) \in Risks
  BY DEF DockerRisk, Risks, ReadOnly, Mutating, Remote, Destructive
LEMMA KubeRiskType == ASSUME NEW a PROVE KubeRisk(a) \in Risks
  BY WorstOf DEF KubeRisk, Risks, ReadOnly, Remote, Privileged, Destructive
LEMMA CloudRiskType == ASSUME NEW a, NEW name \in {"terraform", "aws"} PROVE CloudRisk(name, a) \in Risks
  BY DEF CloudRisk, Risks, ReadOnly, Remote, Destructive
LEMMA DataRiskType == ASSUME NEW a, NEW name \in {"npm", "pip", "yarn", "psql"}
                      PROVE DataRisk(name, a) \in Risks
  BY DEF DataRisk, Risks, ReadOnly, Mutating, Remote, Destructive
LEMMA NetworkRiskType == ASSUME NEW a, NEW name \in {"curl", "rsync", "ssh", "gh"}
                         PROVE NetworkRisk(name, a) \in Risks
  BY DEF NetworkRisk, Risks, ReadOnly, Mutating, Remote, Destructive
LEMMA OtherRiskType == ASSUME NEW a, NEW name PROVE OtherRisk(name, a) \in Risks
  BY DEF OtherRisk, Risks, ReadOnly, Mutating, Remote, Privileged, Destructive

LEMMA ToolRiskType == ASSUME NEW a, NEW name PROVE ToolRisk(name, a) \in Risks
  BY FileRiskType, SystemRiskType, GitRiskType, DockerRiskType, KubeRiskType, CloudRiskType,
     DataRiskType, NetworkRiskType, OtherRiskType DEF ToolRisk

\* classify_command's recursion into what `find -exec` and `xargs` run.
Finds(s) == CommandName(s) \in {"find", "xargs"}
RootRisk(s) == IF Nth(s, 1) = "sudo" THEN Privileged ELSE ReadOnly
FindRisk(s) == IF CommandName(s) = "find" /\ "-delete" \in ToSet(Arguments(s)) THEN Destructive ELSE ReadOnly
Inner(s) == Payload(CommandName(s), Arguments(s))

LEMMA InnerShorter ==
  ASSUME NEW s \in Seq(Words), s # <<>>
  PROVE  Inner(s) \in Seq(Words) /\ Len(Inner(s)) < Len(s)
<1>1. Arguments(s) \in Seq(Words) /\ Len(Arguments(s)) < Len(s)
  BY ArgumentsShorter
<1>2. Inner(s) \in Seq(Words) /\ Len(Inner(s)) =< Len(Arguments(s))
  BY <1>1, PayloadShorter DEF Inner
<1> HIDE DEF Inner
<1>3. Len(s) \in Nat /\ Len(Arguments(s)) \in Nat /\ Len(Inner(s)) \in Nat
  BY <1>1, <1>2
<1> QED BY <1>1, <1>2, <1>3

\* The verdict's equation has a solution, so it holds of the verdict.
LEMMA RiskEquation ==
  ASSUME NEW s \in Seq(Words)
  PROVE  RiskOf[s] = IF s = <<>> THEN ReadOnly
                     ELSE IF Finds(s) THEN Worst({RootRisk(s), RiskOf[Inner(s)], FindRisk(s)})
                     ELSE Worst({RootRisk(s), ToolRisk(CommandName(s), Arguments(s))})
<1> DEFINE Val(r, t) == IF t = <<>> THEN ReadOnly
                        ELSE IF Finds(t) THEN Worst({RootRisk(t), r[Inner(t)], FindRisk(t)})
                        ELSE Worst({RootRisk(t), ToolRisk(CommandName(t), Arguments(t))})
           Eq(r) == r = [t \in Seq(Words) |->
                          LET name == CommandName(t)
                              a    == Arguments(t)
                              root == IF Nth(t, 1) = "sudo" THEN Privileged ELSE ReadOnly
                          IN IF t = <<>> THEN ReadOnly
                             ELSE IF name \in {"find", "xargs"}
                             THEN Worst({root, r[Payload(name, a)],
                                         IF name = "find" /\ "-delete" \in ToSet(a) THEN Destructive ELSE ReadOnly})
                             ELSE Worst({root, ToolRisk(name, a)})]
           size == [t \in Seq(Words) |-> Len(t)]
           ends == {t \in Seq(Words) : t = <<>> \/ ~Finds(t)}
           base == [t \in Seq(Words) |-> IF t = <<>> THEN ReadOnly
                                         ELSE Worst({RootRisk(t), ToolRisk(CommandName(t), Arguments(t))})]
           down == [t \in Seq(Words) |-> IF t = <<>> THEN t ELSE Inner(t)]
           step == [t \in Seq(Words) |-> [v \in Risks |-> Worst({RootRisk(t), v, FindRisk(t)})]]
<1>1. ASSUME NEW r PROVE Eq(r) <=> r = [t \in Seq(Words) |-> Val(r, t)]
  BY DEF Finds, RootRisk, FindRisk, Inner
<1>2. ASSUME NEW t \in Seq(Words), NEW v \in Risks
      PROVE  /\ Worst({RootRisk(t), v, FindRisk(t)}) \in Risks
             /\ Worst({RootRisk(t), ToolRisk(CommandName(t), Arguments(t))}) \in Risks
  <2>1. {RootRisk(t), FindRisk(t), ToolRisk(CommandName(t), Arguments(t))} \subseteq Risks
    BY ToolRiskType DEF RootRisk, FindRisk, ReadOnly, Privileged, Destructive, Risks
  <2> QED BY <2>1, WorstOf
<1>3. Recursive(Seq(Words), Risks, size, ends, base, down, step)
  <2>1. size \in [Seq(Words) -> Nat]
    OBVIOUS
  <2>2. base \in [Seq(Words) -> Risks]
    <3>1. ReadOnly \in Risks
      BY DEF ReadOnly, Risks
    <3> QED BY <1>2, <3>1
  <2>3. down \in [Seq(Words) -> Seq(Words)]
    BY InnerShorter
  <2>4. step \in [Seq(Words) -> [Risks -> Risks]]
    BY <1>2
  <2>5. ASSUME NEW t \in Seq(Words) \ ends PROVE size[down[t]] < size[t]
    BY InnerShorter
  <2> HIDE DEF size, ends, base, down, step
  <2> QED BY <2>1, <2>2, <2>3, <2>4, <2>5 DEF Recursive
<1>4. PICK g \in [Seq(Words) -> Risks] :
        \A t \in Seq(Words) : g[t] = IF t \in ends THEN base[t] ELSE step[t][g[down[t]]]
  <2> HIDE DEF size, ends, base, down, step
  <2> QED BY <1>3, Recursion
<1>5. ASSUME NEW t \in Seq(Words) PROVE g[t] = Val(g, t)
  <2>1. CASE t \in ends
    BY <1>4, <2>1
  <2>2. CASE t \notin ends
    <3>1. Inner(t) \in Seq(Words) /\ down[t] = Inner(t) /\ t # <<>> /\ Finds(t)
      BY <2>2, InnerShorter
    <3>2. g[Inner(t)] \in Risks
      BY <3>1
    <3>3. g[t] = step[t][g[Inner(t)]]
      BY <1>4, <2>2, <3>1
    <3> QED BY <3>1, <3>2, <3>3
  <2> QED BY <2>1, <2>2
<1>6. g = [t \in Seq(Words) |-> Val(g, t)]
  <2> HIDE DEF Val
  <2> QED BY <1>5
<1>7. Eq(g)
  <2> HIDE DEF Eq, Val
  <2> QED BY <1>1, <1>6
<1>8. RiskOf = CHOOSE r : Eq(r)
  BY DEF RiskOf
<1>9. Eq(RiskOf)
  <2> HIDE DEF Eq
  <2> QED BY <1>7, <1>8
<1>10. RiskOf = [t \in Seq(Words) |-> Val(RiskOf, t)]
  <2> HIDE DEF Eq, Val
  <2> QED BY <1>1, <1>9
<1>11. RiskOf[s] = Val(RiskOf, s)
  <2> HIDE DEF Val
  <2> QED BY <1>10
<1> QED BY <1>11

LEMMA RootRiskType ==
  ASSUME NEW s PROVE {RootRisk(s), FindRisk(s), ToolRisk(CommandName(s), Arguments(s))} \subseteq Risks
  BY ToolRiskType DEF RootRisk, FindRisk, ReadOnly, Privileged, Destructive, Risks

\* By the length of the command.
LEMMA RiskType == \A s \in Seq(Words) : RiskOf[s] \in Risks
<1> DEFINE U == {Len(s) : s \in {t \in Seq(Words) : RiskOf[t] \notin Risks}}
<1> SUFFICES ASSUME NEW t \in Seq(Words), RiskOf[t] \notin Risks PROVE FALSE
  OBVIOUS
<1>1. U \subseteq Nat /\ Len(t) \in U
  OBVIOUS
<1>2. PICK x \in U : \A y \in U : x =< y
  <2> HIDE DEF U
  <2> QED BY <1>1, LeastNumber
<1>3. PICK s \in Seq(Words) : RiskOf[s] \notin Risks /\ x = Len(s)
  OBVIOUS
<1>4. CASE s = <<>>
  <2>1. RiskOf[s] = ReadOnly
    BY <1>4, RiskEquation
  <2> QED BY <1>3, <2>1 DEF ReadOnly, Risks
<1>5. CASE s # <<>> /\ ~Finds(s)
  <2>1. RiskOf[s] = Worst({RootRisk(s), ToolRisk(CommandName(s), Arguments(s))})
    BY <1>5, RiskEquation
  <2>2. {RootRisk(s), ToolRisk(CommandName(s), Arguments(s))} \subseteq Risks
    BY RootRiskType
  <2> QED BY <1>3, <2>1, <2>2, WorstOf
<1>6. CASE s # <<>> /\ Finds(s)
  <2>1. RiskOf[s] = Worst({RootRisk(s), RiskOf[Inner(s)], FindRisk(s)})
    BY <1>6, RiskEquation
  <2>2. Inner(s) \in Seq(Words) /\ Len(Inner(s)) < Len(s)
    BY <1>6, InnerShorter
  <2>3. RiskOf[Inner(s)] \in Risks
    <3> SUFFICES ASSUME RiskOf[Inner(s)] \notin Risks PROVE FALSE
      OBVIOUS
    <3>1. Len(Inner(s)) \in U
      BY <2>2
    <3>2. x =< Len(Inner(s))
      <4> HIDE DEF U
      <4> QED BY <1>2, <3>1
    <3>3. Len(s) \in Nat /\ Len(Inner(s)) \in Nat
      BY <2>2
    <3> QED BY <1>3, <2>2, <3>2, <3>3
  <2>4. {RootRisk(s), RiskOf[Inner(s)], FindRisk(s)} \subseteq Risks
    BY <2>3, RootRiskType
  <2> QED BY <1>3, <2>1, <2>4, WorstOf
<1> QED BY <1>4, <1>5, <1>6

-----------------------------------------------------------------------------
(***************************************************************************)
(* What is behind a wrapper is seen.                                       *)
(***************************************************************************)

\* A command that begins with its name, and the name is not among the words p
\* before it.
NameFirst(p, s) ==
  /\ s \in Seq(Words) /\ s # <<>>
  /\ ~Dashed(s[1]) /\ "=" \notin Marks[s[1]] /\ s[1] \notin Wrappers \cup ToSet(p)

LEMMA Bare ==
  ASSUME NEW s \in Seq(Words), s # <<>>, s[1] \notin Wrappers
  PROVE  NamePlace(s) = 1 /\ Place(s) = 1 /\ CommandName(s) = s[1] /\ Arguments(s) = After(s, 1)
<1>1. Len(s) \in Nat /\ 1 =< Len(s) /\ 1 \in DOMAIN s
  OBVIOUS
<1>2. Nth(s, 1) = s[1]
  BY <1>1 DEF Nth
<1>3. 1 \in WrapperStops(s)
  BY <1>2 DEF WrapperStops
<1>4. NamePlace(s) = 1
  BY <1>3, NameWalk DEF Walk
<1>5. Place(s) = 1
  BY <1>3, PlaceWalk DEF Walk
<1>6. CommandName(s) = s[1]
  BY <1>2, <1>4 DEF CommandName
<1> DEFINE at == {i \in DOMAIN s : s[i] = CommandName(s)}
<1>7. 1 \in at /\ at \subseteq Nat /\ \A i \in at : 1 =< i
  BY <1>1, <1>6
<1>8. Min(at) = 1
  <2> HIDE DEF at
  <2>1. Min(at) \in at /\ Min(at) =< 1
    BY <1>7, LeastOf
  <2>2. Min(at) \in Nat /\ 1 =< Min(at)
    BY <1>7, <2>1
  <2> QED BY <2>1, <2>2
<1>9. Arguments(s) = After(s, 1)
  BY <1>7, <1>8 DEF Arguments
<1> QED BY <1>4, <1>5, <1>6, <1>9

LEMMA Wrapped ==
  ASSUME NEW p, NEW s, Peeled(p), NameFirst(p, s)
  PROVE  /\ p \o s \in Seq(Words) /\ p \o s # <<>>
         /\ NamePlace(p \o s) = Len(p) + 1 /\ Place(p \o s) = Len(p) + 1
         /\ CommandName(p \o s) = s[1] /\ Nth(p \o s, Len(p) + 1) = s[1]
         /\ Arguments(p \o s) = After(s, 1) /\ After(p \o s, Len(p) + 1) = After(s, 1)
<1> DEFINE q == p \o s
           m == Len(p) + 1
<1>1. p \in Seq(Words) /\ s \in Seq(Words) /\ s # <<>> /\ p # <<>>
  BY DEF Peeled, NameFirst
<1>2. /\ q \in Seq(Words) /\ Len(q) = Len(p) + Len(s)
      /\ \A i \in 1..(Len(p) + Len(s)) : q[i] = IF i <= Len(p) THEN p[i] ELSE s[i - Len(p)]
  BY <1>1, ConcatProperties
<1> HIDE DEF q
<1>3. Len(p) \in Nat /\ Len(s) \in Nat /\ Len(s) # 0 /\ Len(p) # 0
  BY <1>1
<1>4. q[m] = s[1] /\ \A i \in 1..Len(p) : q[i] = p[i]
  BY <1>2, <1>3
<1>5. Continues(p, q)
  BY <1>1, <1>2, <1>3, <1>4 DEF Continues, NameFirst
<1>6. NamePlace(q) = m /\ Place(q) = m
  BY <1>4, <1>5, PeeledBefore DEF NameFirst
<1>7. Nth(q, m) = s[1]
  BY <1>4, <1>5, Same
<1>8. CommandName(q) = s[1]
  BY <1>6, <1>7 DEF CommandName
<1>9. After(q, m) = After(s, 1)
  <2>1. /\ After(q, m) \in Seq(Words) /\ Len(After(q, m)) = Len(s) - 1
        /\ \A j \in 1..(Len(s) - 1) : After(q, m)[j] = q[m + j]
    BY <1>2, <1>3, AfterShorter
  <2>2. /\ After(s, 1) \in Seq(Words) /\ Len(After(s, 1)) = Len(s) - 1
        /\ \A j \in 1..(Len(s) - 1) : After(s, 1)[j] = s[1 + j]
    BY <1>1, <1>3, AfterShorter
  <2>3. \A j \in 1..(Len(s) - 1) : q[m + j] = s[1 + j]
    BY <1>2, <1>3
  <2> HIDE DEF m
  <2> QED BY <2>1, <2>2, <2>3, SeqEqual
<1>10. Arguments(q) = After(q, m)
  <2> DEFINE at == {i \in DOMAIN q : q[i] = CommandName(q)}
  <2>1. m \in at /\ at \subseteq Nat
    BY <1>2, <1>3, <1>4, <1>8
  <2>2. ASSUME NEW i \in at PROVE m =< i
    <3>1. i \in Nat /\ i >= 1 /\ q[i] = s[1]
      BY <1>2, <1>8
    <3>2. ASSUME i =< Len(p) PROVE FALSE
      <4>1. i \in 1..Len(p) /\ p[i] = s[1]
        BY <1>3, <1>4, <3>1, <3>2
      <4>2. s[1] \in ToSet(p)
        BY <1>1, <4>1 DEF ToSet
      <4> QED BY <4>2 DEF NameFirst
    <3> QED BY <1>3, <3>1, <3>2
  <2>3. Min(at) = m
    <3> HIDE DEF at
    <3>1. Min(at) \in at /\ Min(at) =< m
      BY <2>1, LeastOf
    <3>2. m \in Nat /\ Min(at) \in Nat /\ m =< Min(at)
      BY <2>1, <2>2, <3>1, <1>3
    <3> QED BY <3>1, <3>2
  <2> QED BY <2>1, <2>3 DEF Arguments
<1> QED BY <1>2, <1>3, <1>6, <1>7, <1>8, <1>9, <1>10 DEF q

\* Wrapping takes nothing from the verdict: what runs is the same, and sudo
\* only adds to it.
LEMMA WrappedRisk ==
  ASSUME NEW p, NEW s, Peeled(p), NameFirst(p, s)
  PROVE  RiskOf[s] =< RiskOf[p \o s]
<1> DEFINE q == p \o s
<1>1. s \in Seq(Words) /\ s # <<>> /\ s[1] \notin Wrappers
  BY DEF NameFirst
<1>2. q \in Seq(Words) /\ q # <<>>
  BY Wrapped
<1>3. CommandName(q) = CommandName(s) /\ Arguments(q) = Arguments(s)
  BY <1>1, Wrapped, Bare
<1> HIDE DEF q
<1>4. Inner(q) = Inner(s) /\ (Finds(q) <=> Finds(s)) /\ FindRisk(q) = FindRisk(s)
  BY <1>3 DEF Inner, Finds, FindRisk
<1>5. RootRisk(s) = 0
  <2>1. Nth(s, 1) = s[1] /\ s[1] # "sudo"
    <3>1. 1 =< Len(s)
      BY <1>1
    <3> QED BY <1>1, <3>1 DEF Nth, Wrappers
  <2> QED BY <2>1 DEF RootRisk, ReadOnly
<1>6. RootRisk(q) \in Risks /\ 0 =< RootRisk(q)
  BY RootRiskType DEF Risks
<1>7. \A x \in Risks : x =< x
  BY DEF Risks
<1>8. CASE Finds(s)
  <2> DEFINE S == {RootRisk(s), RiskOf[Inner(s)], FindRisk(s)}
             T == {RootRisk(q), RiskOf[Inner(s)], FindRisk(s)}
  <2>1. RiskOf[s] = Worst(S) /\ RiskOf[q] = Worst(T)
    BY <1>1, <1>2, <1>4, <1>8, RiskEquation
  <2>2. RiskOf[Inner(s)] \in Risks
    BY <1>1, InnerShorter, RiskType
  <2>3. S \subseteq Risks /\ T \subseteq Risks
    BY <2>2, RootRiskType
  <2>4. \A x \in S : \E y \in T : x =< y
    BY <1>5, <1>6, <1>7, <2>3
  <2> HIDE DEF S, T
  <2> QED BY <2>1, <2>3, <2>4, WorstMonotone DEF q
<1>9. CASE ~Finds(s)
  <2> DEFINE r == ToolRisk(CommandName(s), Arguments(s))
             S == {RootRisk(s), r}
             T == {RootRisk(q), r}
  <2>1. RiskOf[s] = Worst(S) /\ RiskOf[q] = Worst(T)
    BY <1>1, <1>2, <1>3, <1>4, <1>9, RiskEquation
  <2>2. S \subseteq Risks /\ T \subseteq Risks
    BY RootRiskType
  <2>3. \A x \in S : \E y \in T : x =< y
    BY <1>5, <1>6, <1>7, <2>2
  <2> HIDE DEF S, T
  <2> QED BY <2>1, <2>2, <2>3, WorstMonotone DEF q
<1> QED BY <1>8, <1>9

LEMMA WrappedSimple ==
  ASSUME NEW p, NEW s, Peeled(p), NameFirst(p, s)
  PROVE  Simple(p \o s).name = Simple(s).name /\ Simple(p \o s).args = Simple(s).args
<1>1. s \in Seq(Words) /\ s # <<>> /\ s[1] \notin Wrappers
  BY DEF NameFirst
<1>2. Place(s) = 1 /\ Nth(s, 1) = s[1]
  <2>1. 1 =< Len(s)
    BY <1>1
  <2> QED BY <1>1, <2>1, Bare DEF Nth
<1>3. Simple(s).name = s[1] /\ Simple(s).args = After(s, 1)
  BY <1>2 DEF Simple
<1>4. Simple(p \o s).name = s[1] /\ Simple(p \o s).args = After(s, 1)
  BY Wrapped DEF Simple
<1> QED BY <1>3, <1>4

\* The lines have commands that begin with their names, unless they begin with
\* a wrapper.
Written ==
  \A l \in Lines : \A i \in DOMAIN l : l[i].words[1] \notin Wrappers =>
    \A p \in WrappedBy : NameFirst(p, l[i].words)

LEMMA NothingUnseen ==
  ASSUME \A p \in WrappedBy : Peeled(p), Written
  PROVE  Unseen = {}
<1> SUFFICES ASSUME NEW l \in Unseen PROVE FALSE
  OBVIOUS
<1>1. PICK i \in {j \in DOMAIN l : l[j].words[1] \notin Wrappers}, p \in WrappedBy :
         LET s == l[i].words IN
         \/ RiskOf[p \o s] < RiskOf[s]
         \/ CommandName(p \o s) # CommandName(s)
         \/ Simple(p \o s).name # Simple(s).name
         \/ Simple(p \o s).args # Simple(s).args
  BY DEF Unseen
<1> DEFINE s == l[i].words
<1>2. l \in Lines /\ Peeled(p) /\ NameFirst(p, s)
  BY <1>1 DEF Unseen, Written
<1> HIDE DEF s
<1>3. RiskOf[s] =< RiskOf[p \o s] /\ RiskOf[s] \in 0..4 /\ RiskOf[p \o s] \in 0..4
  BY <1>2, WrappedRisk, Wrapped, RiskType DEF NameFirst, Risks
<1>4. CommandName(p \o s) = CommandName(s)
  BY <1>2, Wrapped, Bare DEF NameFirst
<1>5. Simple(p \o s).name = Simple(s).name /\ Simple(p \o s).args = Simple(s).args
  BY <1>2, WrappedSimple
<1> QED BY <1>1, <1>3, <1>4, <1>5 DEF s

\* Whatever can be put before a command, if both parsers peel it off when it
\* stands alone, then a command behind it is seen as it is without: its name
\* and its arguments are the same to the classifier and to the checks, and the
\* verdict is no milder, however deep find and xargs are nested in it
\* (safety.rs:154).
THEOREM SeesThrough ==
  ASSUME \A p \in WrappedBy : Peeled(p), Written
  PROVE  Spec => []SeesThroughWrappers
<1>1. SeesThroughWrappers
  BY NothingUnseen DEF SeesThroughWrappers
<1> QED BY <1>1, PTL

-----------------------------------------------------------------------------
(***************************************************************************)
(* Where there is more to lose.                                            *)
(***************************************************************************)

\* What SumFunction computes: the sums of a over the subsets of T.
Sums(h, T, a) ==
  h = [s \in SUBSET T |->
         IF s = {} THEN 0
         ELSE LET x == CHOOSE x \in s : TRUE IN a[x] + h[s \ {x}]]

LEMMA SumIsFold ==
  ASSUME NEW a PROVE SumFunction(a) = (CHOOSE h : Sums(h, DOMAIN a, a))[DOMAIN a]
  BY DEF SumFunction, SumFunctionOnSet, FoldFunctionOnSet, MapThenFoldSet, Sums

One(s) == CHOOSE x \in s : TRUE

LEMMA Smaller ==
  ASSUME NEW T, IsFiniteSet(T), NEW s \in SUBSET T, s # {}
  PROVE  /\ One(s) \in s /\ s \ {One(s)} \in SUBSET T
         /\ Cardinality(s) \in Nat /\ Cardinality(s \ {One(s)}) \in Nat
         /\ Cardinality(s \ {One(s)}) < Cardinality(s)
<1>1. One(s) \in s
  BY DEF One
<1>2. IsFiniteSet(s) /\ Cardinality(s) \in Nat
  BY FS_Subset, FS_CardinalityType
<1>3. IsFiniteSet(s \ {One(s)}) /\ Cardinality(s \ {One(s)}) = Cardinality(s) - 1
  BY <1>1, <1>2, FS_RemoveElement
<1>4. Cardinality(s \ {One(s)}) \in Nat
  BY <1>3, FS_CardinalityType
<1> QED BY <1>1, <1>2, <1>3, <1>4

LEMMA SumsExist ==
  ASSUME NEW T, IsFiniteSet(T), NEW a \in [T -> Nat]
  PROVE  \E h : Sums(h, T, a)
<1> DEFINE size == [s \in SUBSET T |-> Cardinality(s)]
           base == [s \in SUBSET T |-> 0]
           down == [s \in SUBSET T |-> s \ {One(s)}]
           step == [s \in SUBSET T |-> [k \in Nat |-> IF s = {} THEN 0 ELSE a[One(s)] + k]]
<1>1. Recursive(SUBSET T, Nat, size, {{}}, base, down, step)
  <2>1. size \in [SUBSET T -> Nat]
    BY FS_Subset, FS_CardinalityType
  <2>2. base \in [SUBSET T -> Nat]
    OBVIOUS
  <2>3. down \in [SUBSET T -> SUBSET T]
    OBVIOUS
  <2>4. ASSUME NEW s \in SUBSET T, NEW k \in Nat PROVE step[s][k] \in Nat
    BY Smaller
  <2>5. step \in [SUBSET T -> [Nat -> Nat]]
    BY <2>4
  <2>6. ASSUME NEW s \in (SUBSET T) \ {{}} PROVE size[down[s]] < size[s]
    BY Smaller
  <2> HIDE DEF size, base, down, step
  <2> QED BY <2>1, <2>2, <2>3, <2>5, <2>6 DEF Recursive
<1>2. PICK h \in [SUBSET T -> Nat] :
        \A s \in SUBSET T : h[s] = IF s \in {{}} THEN base[s] ELSE step[s][h[down[s]]]
  <2> HIDE DEF size, base, down, step
  <2> QED BY <1>1, Recursion
<1>3. ASSUME NEW s \in SUBSET T
      PROVE  h[s] = IF s = {} THEN 0 ELSE a[One(s)] + h[s \ {One(s)}]
  <2>1. CASE s = {}
    BY <1>2, <2>1
  <2>2. CASE s # {}
    <3>1. down[s] \in SUBSET T /\ down[s] = s \ {One(s)} /\ h[down[s]] \in Nat
      OBVIOUS
    <3>2. h[s] = step[s][h[down[s]]]
      BY <1>2, <2>2
    <3> QED BY <2>2, <3>1, <3>2
  <2> QED BY <2>1, <2>2
<1>4. h = [s \in SUBSET T |-> IF s = {} THEN 0 ELSE a[One(s)] + h[s \ {One(s)}]]
  BY <1>3
<1> QED BY <1>4 DEF Sums, One

LEMMA SumsGrow ==
  ASSUME NEW T, IsFiniteSet(T), NEW a \in [T -> Nat], NEW b \in [T -> Nat],
         \A x \in T : a[x] =< b[x], NEW h, Sums(h, T, a), NEW g, Sums(g, T, b)
  PROVE  \A s \in SUBSET T : h[s] \in Nat /\ g[s] \in Nat /\ h[s] =< g[s]
<1> DEFINE Right(s) == h[s] \in Nat /\ g[s] \in Nat /\ h[s] =< g[s]
           U == {Cardinality(s) : s \in {t \in SUBSET T : ~Right(t)}}
<1> SUFFICES ASSUME NEW t \in SUBSET T, ~Right(t) PROVE FALSE
  OBVIOUS
<1>1. U \subseteq Nat
  BY FS_Subset, FS_CardinalityType
<1>2. PICK x \in U : \A y \in U : x =< y
  <2>1. Cardinality(t) \in U
    OBVIOUS
  <2> HIDE DEF U
  <2> QED BY <1>1, <2>1, LeastNumber
<1>3. PICK s \in SUBSET T : ~Right(s) /\ x = Cardinality(s)
  OBVIOUS
<1>4. /\ h[s] = IF s = {} THEN 0 ELSE a[One(s)] + h[s \ {One(s)}]
      /\ g[s] = IF s = {} THEN 0 ELSE b[One(s)] + g[s \ {One(s)}]
  BY DEF Sums, One
<1>5. s # {}
  BY <1>3, <1>4
<1> DEFINE r == s \ {One(s)}
<1>6. One(s) \in T /\ r \in SUBSET T /\ Cardinality(r) < Cardinality(s) /\ Cardinality(r) \in Nat /\ Cardinality(s) \in Nat
  BY <1>5, Smaller
<1>7. Right(r)
  <2> SUFFICES ASSUME ~Right(r) PROVE FALSE
    OBVIOUS
  <2>1. Cardinality(r) \in U
    <3> HIDE DEF Right, r
    <3> QED BY <1>6
  <2>2. x =< Cardinality(r)
    <3> HIDE DEF U
    <3> QED BY <1>2, <2>1
  <2> QED BY <1>3, <1>6, <2>2
<1>8. a[One(s)] \in Nat /\ b[One(s)] \in Nat /\ a[One(s)] =< b[One(s)]
  BY <1>6
<1> QED BY <1>3, <1>4, <1>5, <1>7, <1>8

LEMMA SumGrows ==
  ASSUME NEW T, IsFiniteSet(T), NEW a \in [T -> Nat], NEW b \in [T -> Nat],
         \A x \in T : a[x] =< b[x]
  PROVE  SumFunction(a) \in Nat /\ SumFunction(b) \in Nat /\ SumFunction(a) =< SumFunction(b)
<1>1. DOMAIN a = T /\ DOMAIN b = T
  OBVIOUS
<1> DEFINE h == CHOOSE h : Sums(h, T, a)
           g == CHOOSE g : Sums(g, T, b)
<1>2. Sums(h, T, a) /\ Sums(g, T, b)
  BY SumsExist
<1>3. SumFunction(a) = h[T] /\ SumFunction(b) = g[T]
  BY <1>1, SumIsFold
<1> HIDE DEF h, g
<1> QED BY <1>2, <1>3, SumsGrow

\* For every finding in A there is one in B that is no less severe, and that
\* is silenced with it at most.
Severities == {Info, Warn, Block}
Covers(g, f) ==
  /\ f.sev \in Severities /\ g.sev \in Severities /\ f.sev =< g.sev
  /\ g.check = f.check \/ g.check \in Deciding
Covered(A, B) == \A f \in A : \E g \in B : Covers(g, f)

LEMMA CoveredCup ==
  ASSUME NEW A, NEW B, NEW C, NEW D, Covered(A, B), Covered(C, D)
  PROVE  Covered(A \cup C, B \cup D)
  BY DEF Covered

LEMMA SeverityOrder == Info =< Info /\ Info =< Warn /\ Info =< Block /\ Warn =< Warn /\ Warn =< Block /\ Block =< Block
  BY DEF Info, Warn, Block

LEMMA FSev == \A s \in Severities : \A c : F(s, c).sev \in Severities /\ F(s, c).sev = s /\ F(s, c).check = c
  BY DEF F

LEMMA CloudCovered ==
  ASSUME NEW c, NEW v, NEW w, Safer(v, w)
  PROVE  Covered(CloudGuards(c, v), CloudGuards(c, w))
<1> DEFINE sub     == Nth(c.args, 1)
           writes  == c.name = "kubectl" /\ sub \in {"apply", "delete", "create", "scale", "exec"}
           prod(x) == Prodish(x.kube) \/ \E a \in ToSet(c.args) : Prodish(a)
           plans   == c.name = "terraform" /\ sub \in {"apply", "destroy"}
           K(x) == When(writes /\ prod(x), F(Block, "prod")) \cup When(writes /\ ~prod(x), F(Info, "kube-ctx"))
           P(x) == When(plans, F(IF Prodish(x.aws) \/ sub = "destroy" THEN Block ELSE Warn, "terraform"))
           A(x) == When(c.name = "aws" /\ Prodish(x.aws) /\ Some(c.args, {"rm", "rb", "delete"}), F(Block, "prod"))
<1>1. (Prodish(v.kube) => Prodish(w.kube)) /\ (Prodish(v.aws) => Prodish(w.aws))
  BY DEF Safer
<1>2. Covered(K(v), K(w))
  BY <1>1, SeverityOrder, FSev DEF Covered, Covers, Deciding, When, Severities
<1>3. Covered(P(v), P(w))
  BY <1>1, SeverityOrder, FSev DEF Covered, Covers, Deciding, When, Severities
<1>4. Covered(A(v), A(w))
  BY <1>1, SeverityOrder, FSev DEF Covered, Covers, Deciding, When, Severities
<1>5. CloudGuards(c, v) = (K(v) \cup P(v)) \cup A(v) /\ CloudGuards(c, w) = (K(w) \cup P(w)) \cup A(w)
  BY DEF CloudGuards
<1> HIDE DEF K, P, A
<1>6. Covered(K(v) \cup P(v), K(w) \cup P(w))
  BY <1>2, <1>3, CoveredCup
<1>7. Covered((K(v) \cup P(v)) \cup A(v), (K(w) \cup P(w)) \cup A(w))
  BY <1>4, <1>6, CoveredCup
<1> QED BY <1>5, <1>7, Zenon

LEMMA GitCovered ==
  ASSUME NEW c, NEW v, NEW w, Safer(v, w)
  PROVE  Covered(GitGuards(c, v), GitGuards(c, w))
<1> DEFINE a     == c.args
           sub   == IF c.name = "git" THEN Nth(a, 1) ELSE ""
           guarded(x) == x.branch \in Protected
           force == \/ Has(a, "--force") \/ "-f" \in ToSet(a)
                    \/ (~Has(a, "--force-with-lease") /\ Has(a, "+"))
           C(x) == When(sub = "commit" /\ guarded(x), F(Warn, "main-commit"))
           P(x) == When(sub = "push" /\ force, F(IF guarded(x) THEN Block ELSE Warn, "force-push"))
           D(x) == When(sub \in {"checkout", "pull", "rebase", "merge"} /\ x.dirty, F(Info, "dirty"))
           A(x) == When(sub = "add" /\ (".env" \in ToSet(a) \/ (x.secret /\ Some(a, {"-A", "."}))),
                        F(Block, "secret-file"))
<1>1. (guarded(v) => guarded(w)) /\ (v.dirty => w.dirty) /\ (v.secret => w.secret)
  BY DEF Safer
<1>2. Covered(C(v), C(w))
  BY <1>1, SeverityOrder, FSev DEF Covered, Covers, Deciding, When, Severities
<1>3. Covered(P(v), P(w))
  BY <1>1, SeverityOrder, FSev DEF Covered, Covers, Deciding, When, Severities
<1>4. Covered(D(v), D(w))
  BY <1>1, SeverityOrder, FSev DEF Covered, Covers, Deciding, When, Severities
<1>5. Covered(A(v), A(w))
  BY <1>1, SeverityOrder, FSev DEF Covered, Covers, Deciding, When, Severities
<1>6. /\ GitGuards(c, v) = ((C(v) \cup P(v)) \cup D(v)) \cup A(v)
      /\ GitGuards(c, w) = ((C(w) \cup P(w)) \cup D(w)) \cup A(w)
  BY DEF GitGuards
<1> HIDE DEF C, P, D, A
<1>7. Covered(C(v) \cup P(v), C(w) \cup P(w))
  BY <1>2, <1>3, CoveredCup
<1>8. Covered((C(v) \cup P(v)) \cup D(v), (C(w) \cup P(w)) \cup D(w))
  BY <1>4, <1>7, CoveredCup
<1>9. Covered(((C(v) \cup P(v)) \cup D(v)) \cup A(v), ((C(w) \cup P(w)) \cup D(w)) \cup A(w))
  BY <1>5, <1>8, CoveredCup
<1> QED BY <1>6, <1>9, Zenon

LEMMA GuardsCovered ==
  ASSUME NEW c, NEW v, NEW w, Safer(v, w)
  PROVE  Covered(Guards(c, v), Guards(c, w))
<1>1. PythonGuards(c, v) = PythonGuards(c, w) /\ NodeGuards(c, v) = NodeGuards(c, w)
  BY DEF Safer, PythonGuards, NodeGuards
<1>2. Covered(PythonGuards(c, w), PythonGuards(c, w))
  BY SeverityOrder, FSev DEF PythonGuards, Covered, Covers, When, Severities
<1>3. Covered(NodeGuards(c, w), NodeGuards(c, w))
  <2>1. ASSUME NEW f \in NodeGuards(c, w) PROVE Covers(f, f)
    <3>1. f = F(Warn, "pkg-manager") \/ f = F(Warn, "sudo-npm")
      BY InWhen, Zenon DEF NodeGuards
    <3> QED BY <3>1, SeverityOrder, FSev DEF Covers, Severities
  <2> QED BY <2>1 DEF Covered
<1>4. Covered(SystemGuards(c), SystemGuards(c))
  BY SeverityOrder, FSev DEF SystemGuards, Covered, Covers, When, Severities
<1>5. Covered(PythonGuards(c, v) \cup NodeGuards(c, v), PythonGuards(c, w) \cup NodeGuards(c, w))
  BY <1>1, <1>2, <1>3, CoveredCup
<1>6. Covered((PythonGuards(c, v) \cup NodeGuards(c, v)) \cup CloudGuards(c, v),
              (PythonGuards(c, w) \cup NodeGuards(c, w)) \cup CloudGuards(c, w))
  BY <1>5, CloudCovered, CoveredCup
<1>7. Covered(((PythonGuards(c, v) \cup NodeGuards(c, v)) \cup CloudGuards(c, v)) \cup GitGuards(c, v),
              ((PythonGuards(c, w) \cup NodeGuards(c, w)) \cup CloudGuards(c, w)) \cup GitGuards(c, w))
  BY <1>6, GitCovered, CoveredCup
<1>8. Covered((((PythonGuards(c, v) \cup NodeGuards(c, v)) \cup CloudGuards(c, v)) \cup GitGuards(c, v))
                \cup SystemGuards(c),
              (((PythonGuards(c, w) \cup NodeGuards(c, w)) \cup CloudGuards(c, w)) \cup GitGuards(c, w))
                \cup SystemGuards(c))
  BY <1>4, <1>7, CoveredCup
<1> QED BY <1>8, Zenon DEF Guards

LEMMA InsightsCovered ==
  ASSUME NEW v, NEW w, Safer(v, w)
  PROVE  Covered(Insights(v), Insights(w))
<1>1. Insights(v) = Insights(w)
  BY DEF Safer, Insights
<1>2. ASSUME NEW f \in Insights(w) PROVE Covers(f, f)
  <2>1. f = F(Warn, "streak") \/ f = F(Info, "duration")
    BY InWhen, Zenon DEF Insights
  <2> QED BY <2>1, SeverityOrder, FSev DEF Covers, Severities
<1> QED BY <1>1, <1>2 DEF Covered

\* What the checks look at has its type: files have sizes, commands have words.
File == [kind : STRING, n : Nat, git : BOOLEAN]

WellFormed ==
  /\ "." \in Words
  /\ FindBlocks \in Nat /\ \A o \in OptionSets : o.block_files \in Nat
  /\ \A l \in Lines : \A i \in DOMAIN l : l[i].words \in Seq(Words) /\ l[i].over \in Words
  /\ \A w \in Worlds : w.files \in [Words -> File] /\ w.changed \in Nat /\ w.untracked \in Nat

LEMMA FilesGrow ==
  ASSUME WellFormed, NEW v \in Worlds, NEW w \in Worlds, Safer(v, w), NEW t \in Words
  PROVE  /\ v.files[t].kind \in {w.files[t].kind, "missing"}
         /\ v.files[t].n \in Nat /\ w.files[t].n \in Nat /\ v.files[t].n =< w.files[t].n
         /\ v.files[t].git => w.files[t].git
         /\ v.files[t].git \in BOOLEAN /\ w.files[t].git \in BOOLEAN
<1>1. v.files \in [Words -> File] /\ w.files \in [Words -> File]
  BY DEF WellFormed
<1>2. v.files[t] \in File /\ w.files[t] \in File /\ DOMAIN w.files = Words
  BY <1>1
<1> QED BY <1>2 DEF Safer, File

LEMMA PlainWords ==
  ASSUME NEW c, c.args \in Seq(Words)
  PROVE  /\ IsFiniteSet(Plain(c.args)) /\ Plain(c.args) \subseteq 1..Len(c.args)
         /\ \A i \in Plain(c.args) : c.args[i] \in Words
<1>1. Len(c.args) \in Nat /\ Plain(c.args) \subseteq 1..Len(c.args)
  BY DEF Plain
<1>2. IsFiniteSet(1..Len(c.args))
  BY <1>1, FS_Interval
<1> QED BY <1>1, <1>2, FS_Subset

LEMMA TotalGrows ==
  ASSUME WellFormed, NEW v \in Worlds, NEW w \in Worlds, Safer(v, w),
         NEW c, c.args \in Seq(Words)
  PROVE  /\ SumFunction(Lost(c, v)) \in Nat /\ SumFunction(Lost(c, w)) \in Nat
         /\ SumFunction(Lost(c, v)) =< SumFunction(Lost(c, w))
<1> DEFINE T == Plain(c.args)
           a == Lost(c, v)
           b == Lost(c, w)
<1>1. ASSUME NEW i \in T PROVE a[i] \in Nat /\ b[i] \in Nat /\ a[i] =< b[i]
  <2> DEFINE t == c.args[i]
             r == HasFlag(c.args, "r", "--recursive") \/ HasFlag(c.args, "R", "--recursive")
  <2>1. t \in Words
    BY PlainWords
  <2>2. /\ a[i] = IF v.files[t].kind \in {"file", "glob"} \/ (v.files[t].kind = "dir" /\ r) THEN v.files[t].n ELSE 0
        /\ b[i] = IF w.files[t].kind \in {"file", "glob"} \/ (w.files[t].kind = "dir" /\ r) THEN w.files[t].n ELSE 0
    BY DEF Lost, Whole
  <2> HIDE DEF t, r, a, b
  <2>3. /\ v.files[t].kind \in {w.files[t].kind, "missing"}
        /\ v.files[t].n \in Nat /\ w.files[t].n \in Nat /\ v.files[t].n =< w.files[t].n
    BY <2>1, FilesGrow
  <2> QED BY <2>2, <2>3
<1>2. a \in [T -> Nat] /\ b \in [T -> Nat]
  <2>1. a = [i \in T |-> a[i]] /\ b = [i \in T |-> b[i]]
    BY DEF Lost
  <2> HIDE DEF a, b, T
  <2> QED BY <1>1, <2>1
<1>3. IsFiniteSet(T)
  BY PlainWords
<1> HIDE DEF a, b, T
<1>4. SumFunction(a) \in Nat /\ SumFunction(b) \in Nat /\ SumFunction(a) =< SumFunction(b)
  BY <1>1, <1>2, <1>3, SumGrows
<1> QED BY <1>4 DEF a, b

\* An excuse in B, which keeps the fallback away, is there in A too, or there
\* is nothing at all to lose in A.
Excused(A, B) == \A g \in B : g.note = "" \/ \E f \in A : f.note \in {g.note, "nothing matches"}

LEMMA ExcusedCup ==
  ASSUME NEW A, NEW B, NEW C, NEW D, Excused(A, B), Excused(C, D)
  PROVE  Excused(A \cup C, B \cup D)
  BY DEF Excused

LEMMA NotedSev == ASSUME NEW s, NEW n PROVE Noted(s, n).sev = s /\ Noted(s, n).note = n
  BY DEF Noted

LEMMA Kinds == Info \in Severities /\ Warn \in Severities /\ Block \in Severities
  BY DEF Severities

LEMMA CoveredOne ==
  ASSUME NEW f, NEW g, Covers(g, f)
  PROVE  Covered({f}, {g})
  BY DEF Covered

LEMMA NotedCovers ==
  ASSUME NEW s \in Severities, NEW t \in Severities, s =< t, NEW n, NEW m
  PROVE  Covers(Noted(t, m), Noted(s, n))
  BY NotedSev, Noting DEF Covers

LEMMA NotedOne ==
  ASSUME NEW s \in Severities, NEW t \in Severities, s =< t, NEW n, NEW m
  PROVE  Covered({Noted(s, n)}, {Noted(t, m)})
  BY NotedCovers, CoveredOne

LEMMA NotedCovered ==
  ASSUME NEW p, NEW q, p => q, NEW s \in Severities, NEW t \in Severities, s =< t, NEW n
  PROVE  Covered(When(p, Noted(s, n)), When(q, Noted(t, n)))
<1> DEFINE f == Noted(s, n)
           g == Noted(t, n)
<1>1. Covers(g, f)
  BY NotedCovers
<1> HIDE DEF f, g
<1>2. Covered(When(p, f), When(q, g))
  BY <1>1 DEF Covered, When
<1> QED BY <1>2 DEF f, g

LEMMA WhenExcused ==
  ASSUME NEW A, NEW p, NEW f, f.note = "" PROVE Excused(A, When(p, f)) /\ Excused(A, {f})
  BY DEF Excused, When

LEMMA NotedExcused ==
  ASSUME NEW A, NEW p, NEW s
  PROVE  Excused(A, When(p, Noted(s, ""))) /\ Excused(A, {Noted(s, "")})
<1>1. Noted(s, "").note = ""
  BY NotedSev
<1> QED BY <1>1, WhenExcused

\* Grave if p or q says so, else mild.
LEMMA GraverCovered ==
  ASSUME NEW p, NEW q, p => q, NEW r, NEW s \in Severities, NEW t \in Severities, s =< t, NEW n
  PROVE  /\ Covered(When(r, Noted(IF p THEN t ELSE s, n)), When(r, Noted(IF q THEN t ELSE s, n)))
         /\ Covered({Noted(IF p THEN t ELSE s, n)}, {Noted(IF q THEN t ELSE s, n)})
<1> DEFINE a == IF p THEN t ELSE s
           b == IF q THEN t ELSE s
<1>1. a \in Severities /\ b \in Severities /\ a =< b
  BY SeverityOrder DEF Severities
<1> HIDE DEF a, b
<1>2. Covered(When(r, Noted(a, n)), When(r, Noted(b, n)))
  BY <1>1, NotedCovered
<1>3. Covered({Noted(a, n)}, {Noted(b, n)})
  BY <1>1, NotedOne
<1> QED BY <1>2, <1>3 DEF a, b

LEMMA RmCovered ==
  ASSUME WellFormed, NEW v \in Worlds, NEW w \in Worlds, Safer(v, w), NEW o \in OptionSets,
         NEW c, c.args \in Seq(Words)
  PROVE  /\ Covered(RmPreview(c, v, o), RmPreview(c, w, o))
         /\ Excused(RmPreview(c, v, o), RmPreview(c, w, o))
<1> DEFINE T          == Plain(c.args)
           file(x, i) == x.files[c.args[i]]
           total(x)   == SumFunction(Lost(c, x))
           all(x)     == \A i \in T : file(x, i).kind = "missing"
           gone(x)    == total(x) = 0 /\ all(x)
           big(x)     == total(x) >= o.block_files
           inner(x)   == \E i \in T : Whole(c, file(x, i)) /\ file(x, i).git
           repo(x)    == x.repo /\ \E i \in T : c.args[i] \notin BuildOutputs
           tracked(x) == inner(x) \/ repo(x)
           R(x) == IF T = {} THEN {}
                   ELSE IF gone(x) THEN {Noted(Info, "nothing matches")}
                   ELSE IF o.safe_rm THEN {Noted(IF big(x) THEN Warn ELSE Info, "to trash")}
                   ELSE {Noted(IF big(x) \/ tracked(x) THEN Block ELSE Warn, "")}
<1>1. RmPreview(c, v, o) = R(v) /\ RmPreview(c, w, o) = R(w)
  BY DEF RmPreview
<1>2. total(v) \in Nat /\ total(w) \in Nat /\ total(v) =< total(w)
  BY TotalGrows
<1>3. ASSUME NEW i \in T
      PROVE  /\ file(v, i).kind \in {file(w, i).kind, "missing"}
             /\ file(v, i).git => file(w, i).git
  BY PlainWords, FilesGrow
<1>4. gone(w) => gone(v)
  <2> HIDE DEF T, total, file
  <2> QED BY <1>2, <1>3
<1>5. big(v) => big(w)
  <2>1. o.block_files \in Nat
    BY DEF WellFormed
  <2> HIDE DEF total
  <2> QED BY <1>2, <2>1
<1>6. tracked(v) => tracked(w)
  <2>1. inner(v) => inner(w)
    <3> SUFFICES ASSUME NEW i \in T, Whole(c, file(v, i)), file(v, i).git PROVE inner(w)
      OBVIOUS
    <3>1. file(w, i).git /\ file(v, i).kind = "dir" /\ file(w, i).kind = "dir"
      <4> HIDE DEF file, T
      <4> QED BY <1>3 DEF Whole
    <3>2. Whole(c, file(w, i))
      <4> HIDE DEF file, T
      <4> QED BY <3>1 DEF Whole
    <3> HIDE DEF file, T
    <3> QED BY <3>1, <3>2
  <2>2. repo(v) => repo(w)
    BY DEF Safer
  <2> HIDE DEF inner, repo
  <2> QED BY <2>1, <2>2
<1> HIDE DEF gone, big, tracked
<1>7. CASE T = {}
  <2>1. R(v) = {} /\ R(w) = {}
    BY <1>7
  <2> QED BY <1>1, <2>1 DEF Covered, Excused
<1>8. CASE T # {} /\ gone(v)
  <2>1. R(v) = {Noted(Info, "nothing matches")} /\ Noted(Info, "nothing matches").note = "nothing matches"
    BY <1>8, NotedSev
  <2>2. Excused(R(v), R(w))
    <3> HIDE DEF R
    <3> QED BY <2>1 DEF Excused
  <2>3. \E t \in Severities : \E m : R(w) = {Noted(t, m)}
    <3>1. CASE gone(w)
      BY <1>8, <3>1, Kinds
    <3>2. CASE ~gone(w) /\ o.safe_rm
      BY <1>8, <3>2, Kinds
    <3>3. CASE ~gone(w) /\ ~o.safe_rm
      BY <1>8, <3>3, Kinds
    <3> QED BY <3>1, <3>2, <3>3
  <2> HIDE DEF R
  <2>4. PICK t \in Severities : \E m : R(w) = {Noted(t, m)}
    BY <2>3
  <2>5. PICK m : R(w) = {Noted(t, m)}
    BY <2>4
  <2>6. Info =< t
    BY SeverityOrder DEF Severities
  <2>7. Covered(R(v), R(w))
    <3>1. Covered({Noted(Info, "nothing matches")}, {Noted(t, m)})
      BY <2>6, Kinds, NotedOne
    <3> QED BY <2>1, <2>5, <3>1
  <2> QED BY <1>1, <2>2, <2>7
<1>9. CASE T # {} /\ ~gone(v) /\ o.safe_rm
  <2> DEFINE N(x) == Noted(IF big(x) THEN Warn ELSE Info, "to trash")
  <2>1. R(v) = {N(v)} /\ R(w) = {N(w)}
    BY <1>4, <1>9
  <2>2. N(v).note = "to trash" /\ N(w).note = "to trash"
    BY NotedSev
  <2>3. Covered({N(v)}, {N(w)})
    BY <1>5, GraverCovered, Kinds, SeverityOrder
  <2> HIDE DEF N, R
  <2> QED BY <1>1, <2>1, <2>2, <2>3 DEF Excused
<1>10. CASE T # {} /\ ~gone(v) /\ ~o.safe_rm
  <2> DEFINE N(x) == Noted(IF big(x) \/ tracked(x) THEN Block ELSE Warn, "")
  <2>1. R(v) = {N(v)} /\ R(w) = {N(w)}
    BY <1>4, <1>10
  <2>2. N(w).note = ""
    BY NotedSev
  <2>3. Covered({N(v)}, {N(w)})
    BY <1>5, <1>6, GraverCovered, Kinds, SeverityOrder
  <2> HIDE DEF N, R
  <2> QED BY <1>1, <2>1, <2>2, <2>3 DEF Excused
<1> QED BY <1>7, <1>8, <1>9, <1>10

LEMMA LastPlain ==
  ASSUME NEW a \in Seq(Words), Plain(a) # {}
  PROVE  Max(Plain(a)) \in Plain(a)
<1>1. Plain(a) \subseteq 1..Len(a) /\ Len(a) \in Nat
  BY DEF Plain
<1> DEFINE back(i) == Len(a) - i
           U       == {back(i) : i \in Plain(a)}
<1>2. U \in SUBSET Nat /\ U # {}
  BY <1>1
<1>3. PICK x \in U : \A y \in U : x =< y
  <2> HIDE DEF U
  <2> QED BY <1>2, LeastNumber
<1>4. PICK m \in Plain(a) : x = back(m)
  OBVIOUS
<1>5. ASSUME NEW i \in Plain(a) PROVE m >= i
  <2>1. back(m) =< back(i)
    <3>1. back(i) \in U
      OBVIOUS
    <3> HIDE DEF U, back
    <3> QED BY <1>3, <1>4, <3>1
  <2>2. i \in Nat /\ m \in Nat
    BY <1>1
  <2> QED BY <1>1, <2>1, <2>2
<1> QED BY <1>5 DEF Max

LEMMA FileCovered ==
  ASSUME WellFormed, NEW v \in Worlds, NEW w \in Worlds, Safer(v, w), NEW o \in OptionSets,
         NEW c, c.args \in Seq(Words)
  PROVE  /\ Covered(FilePreview(c, v, o), FilePreview(c, w, o))
         /\ Excused(FilePreview(c, v, o), FilePreview(c, w, o))
<1> DEFINE a     == c.args
           start == IF a = <<>> \/ Dashed(Nth(a, 1)) THEN "." ELSE a[1]
           last  == a[Max(Plain(a))]
           find(x)  == {Noted(IF x.files[start].n >= FindBlocks THEN Block ELSE Warn, "")}
           rsync(x) == When(Plain(a) # {} /\ x.files[last].n > 0, Noted(Warn, ""))
           shred(x) == When(\E i \in Plain(a) : x.files[a[i]].kind # "missing", Noted(Block, ""))
<1>1. CASE c.name = "rm"
  <2>1. FilePreview(c, v, o) = RmPreview(c, v, o) /\ FilePreview(c, w, o) = RmPreview(c, w, o)
    BY <1>1 DEF FilePreview
  <2> QED BY <2>1, RmCovered, Zenon
<1>2. CASE c.name = "find" /\ "-delete" \in ToSet(a)
  <2>1. FilePreview(c, v, o) = find(v) /\ FilePreview(c, w, o) = find(w)
    BY <1>2 DEF FilePreview
  <2>2. start \in Words
    <3>1. a # <<>> => a[1] \in Words
      OBVIOUS
    <3> QED BY <3>1 DEF WellFormed
  <2> HIDE DEF start
  <2>3. v.files[start].n \in Nat /\ w.files[start].n \in Nat /\ v.files[start].n =< w.files[start].n
    BY <2>2, FilesGrow
  <2>4. FindBlocks \in Nat
    BY DEF WellFormed
  <2>5. v.files[start].n >= FindBlocks => w.files[start].n >= FindBlocks
    BY <2>3, <2>4
  <2>6. Covered(find(v), find(w))
    BY <2>5, GraverCovered, SeverityOrder, Kinds
  <2>7. Excused(find(v), find(w))
    BY NotedExcused, Zenon
  <2> HIDE DEF find
  <2> QED BY <2>1, <2>6, <2>7
<1>3. CASE c.name = "rsync" /\ "--delete" \in ToSet(a)
  <2>1. FilePreview(c, v, o) = rsync(v) /\ FilePreview(c, w, o) = rsync(w)
    BY <1>3 DEF FilePreview
  <2>2. ASSUME Plain(a) # {}, v.files[last].n > 0 PROVE w.files[last].n > 0
    <3>1. Max(Plain(a)) \in Plain(a)
      BY <2>2, LastPlain
    <3>2. last \in Words
      BY <3>1, PlainWords
    <3> HIDE DEF last
    <3>3. v.files[last].n \in Nat /\ w.files[last].n \in Nat /\ v.files[last].n =< w.files[last].n
      BY <3>2, FilesGrow
    <3> QED BY <2>2, <3>3
  <2> HIDE DEF last
  <2>3. Covered(rsync(v), rsync(w))
    BY <2>2, NotedCovered, SeverityOrder, Kinds
  <2>4. Excused(rsync(v), rsync(w))
    BY WhenExcused, NotedSev, Kinds
  <2> HIDE DEF rsync
  <2> QED BY <2>1, <2>3, <2>4
<1>4. CASE c.name = "shred"
  <2>1. FilePreview(c, v, o) = shred(v) /\ FilePreview(c, w, o) = shred(w)
    BY <1>4 DEF FilePreview
  <2>2. ASSUME NEW i \in Plain(a), v.files[a[i]].kind # "missing"
        PROVE  w.files[a[i]].kind # "missing"
    <3>1. v.files[a[i]].kind \in {w.files[a[i]].kind, "missing"}
      BY PlainWords, FilesGrow
    <3> QED BY <2>2, <3>1
  <2>3. Covered(shred(v), shred(w))
    BY <2>2, NotedCovered, SeverityOrder, Kinds
  <2>4. Excused(shred(v), shred(w))
    BY WhenExcused, NotedSev, Kinds
  <2> HIDE DEF shred
  <2> QED BY <2>1, <2>3, <2>4
<1>5. CASE /\ c.name \notin {"rm", "shred"}
           /\ ~(c.name = "find" /\ "-delete" \in ToSet(a))
           /\ ~(c.name = "rsync" /\ "--delete" \in ToSet(a))
  <2>1. FilePreview(c, v, o) = {} /\ FilePreview(c, w, o) = {}
    BY <1>5 DEF FilePreview
  <2> QED BY <2>1 DEF Covered, Excused
<1> QED BY <1>1, <1>2, <1>3, <1>4, <1>5

LEMMA GitPreviewCovered ==
  ASSUME WellFormed, NEW v \in Worlds, NEW w \in Worlds, Safer(v, w), NEW c
  PROVE  /\ Covered(GitPreview(c, v), GitPreview(c, w))
         /\ Excused(GitPreview(c, v), GitPreview(c, w))
<1> DEFINE a    == c.args
           sub  == IF c.name = "git" THEN Nth(a, 1) ELSE ""
           hard == sub = "reset" /\ Has(a, "--hard")
           H(x) == When(hard, Noted(IF x.changed > 0 THEN Block ELSE Info, ""))
           C(x) == When(sub = "clean" /\ Has(a, "f"), Noted(IF x.untracked > 0 THEN Block ELSE Info, ""))
           K(x) == When(/\ sub \in {"checkout", "restore"} /\ Some(a, {"--", "."}) /\ ~Has(a, "--staged")
                        /\ x.changed > 0, Noted(Block, ""))
           S(x) == When(sub = "stash" /\ Nth(a, 2) \in {"drop", "clear"}, Noted(Warn, ""))
           B(x) == When(sub = "branch" /\ "-D" \in ToSet(a) /\ ~x.merged, Noted(Block, ""))
<1>1. /\ v.changed > 0 => w.changed > 0
      /\ v.untracked > 0 => w.untracked > 0
      /\ w.merged => v.merged
  BY DEF WellFormed, Safer
<1>2. Covered(H(v), H(w)) /\ Excused(H(v), H(w))
  <2>1. Covered(H(v), H(w))
    BY <1>1, GraverCovered, SeverityOrder, Kinds
  <2>2. Excused(H(v), H(w))
    BY NotedExcused, Zenon
  <2> HIDE DEF H
  <2> QED BY <2>1, <2>2
<1>3. Covered(C(v), C(w)) /\ Excused(C(v), C(w))
  <2>1. Covered(C(v), C(w))
    BY <1>1, GraverCovered, SeverityOrder, Kinds
  <2>2. Excused(C(v), C(w))
    BY NotedExcused, Zenon
  <2> HIDE DEF C
  <2> QED BY <2>1, <2>2
<1>4. Covered(K(v), K(w)) /\ Excused(K(v), K(w))
  <2>1. Covered(K(v), K(w))
    BY <1>1, NotedCovered, SeverityOrder, Kinds
  <2>2. Excused(K(v), K(w))
    BY NotedExcused, Zenon
  <2> HIDE DEF K
  <2> QED BY <2>1, <2>2
<1>5. Covered(S(v), S(w)) /\ Excused(S(v), S(w))
  <2>1. Covered(S(v), S(w))
    BY <1>1, NotedCovered, SeverityOrder, Kinds
  <2>2. Excused(S(v), S(w))
    BY NotedExcused, Zenon
  <2> HIDE DEF S
  <2> QED BY <2>1, <2>2
<1>6. Covered(B(v), B(w)) /\ Excused(B(v), B(w))
  <2>1. Covered(B(v), B(w))
    BY <1>1, NotedCovered, SeverityOrder, Kinds
  <2>2. Excused(B(v), B(w))
    BY NotedExcused, Zenon
  <2> HIDE DEF B
  <2> QED BY <2>1, <2>2
<1>7. /\ GitPreview(c, v) = (((H(v) \cup C(v)) \cup K(v)) \cup S(v)) \cup B(v)
      /\ GitPreview(c, w) = (((H(w) \cup C(w)) \cup K(w)) \cup S(w)) \cup B(w)
  BY Zenon DEF GitPreview
<1> HIDE DEF H, C, K, S, B
<1>8. /\ Covered(H(v) \cup C(v), H(w) \cup C(w))
      /\ Excused(H(v) \cup C(v), H(w) \cup C(w))
  BY <1>2, <1>3, CoveredCup, ExcusedCup
<1>9. /\ Covered((H(v) \cup C(v)) \cup K(v), (H(w) \cup C(w)) \cup K(w))
      /\ Excused((H(v) \cup C(v)) \cup K(v), (H(w) \cup C(w)) \cup K(w))
  BY <1>4, <1>8, CoveredCup, ExcusedCup
<1>10. /\ Covered(((H(v) \cup C(v)) \cup K(v)) \cup S(v), ((H(w) \cup C(w)) \cup K(w)) \cup S(w))
       /\ Excused(((H(v) \cup C(v)) \cup K(v)) \cup S(v), ((H(w) \cup C(w)) \cup K(w)) \cup S(w))
  BY <1>5, <1>9, CoveredCup, ExcusedCup
<1>11. /\ Covered((((H(v) \cup C(v)) \cup K(v)) \cup S(v)) \cup B(v),
                  (((H(w) \cup C(w)) \cup K(w)) \cup S(w)) \cup B(w))
       /\ Excused((((H(v) \cup C(v)) \cup K(v)) \cup S(v)) \cup B(v),
                  (((H(w) \cup C(w)) \cup K(w)) \cup S(w)) \cup B(w))
  BY <1>6, <1>10, CoveredCup, ExcusedCup
<1> QED BY <1>7, <1>11, Zenon

LEMMA PlaceForward == ASSUME NEW s \in Seq(Words) PROVE Place(s) \in Nat
<1>1. PICK g : Walk(g, WrapperStops(s), PlaceNext(s)) /\ Place(s) = g[1]
  BY PlaceWalk
<1>2. g[1] \in Nat
  BY <1>1, PlaceWalk, WalkForward
<1> QED BY <1>1, <1>2

LEMMA CommandWords ==
  ASSUME WellFormed, NEW l \in Lines, NEW c \in Commands(l)
  PROVE  c.args \in Seq(Words)
<1>1. PICK i \in DOMAIN l : c = Simple(l[i].words)
  BY DEF Commands
<1>2. l[i].words \in Seq(Words)
  BY DEF WellFormed
<1> QED BY <1>1, <1>2, PlaceForward, AfterShorter DEF Simple

\* Guards and insights are no excuse.
LEMMA NoNote == ASSUME NEW s, NEW c PROVE F(s, c).note = ""
  BY DEF F

LEMMA GuardsQuiet == ASSUME NEW c, NEW w, NEW f \in Guards(c, w) PROVE f.note = ""
<1> DEFINE Said(g) == \E s, k : g = F(s, k)
<1>1. f \in PythonGuards(c, w) => Said(f)
  BY InWhen, Zenon DEF PythonGuards
<1>2. f \in NodeGuards(c, w) => Said(f)
  BY InWhen, Zenon DEF NodeGuards
<1>3. f \in CloudGuards(c, w) => Said(f)
  BY InWhen, Zenon DEF CloudGuards
<1>4. f \in GitGuards(c, w) => Said(f)
  BY InWhen, Zenon DEF GitGuards
<1>5. f \in SystemGuards(c) => Said(f)
  BY InWhen, Zenon DEF SystemGuards
<1>6. Said(f)
  BY <1>1, <1>2, <1>3, <1>4, <1>5 DEF Guards
<1> QED BY <1>6, NoNote

LEMMA InsightsQuiet == ASSUME NEW w, NEW f \in Insights(w) PROVE f.note = ""
<1>1. f = F(Warn, "streak") \/ f = F(Info, "duration")
  BY InWhen, Zenon DEF Insights
<1> QED BY <1>1, NoNote

\* What is said of one command.
Told(c, w, o) == Guards(c, w) \cup Previews(c, w, o)

LEMMA ToldCovered ==
  ASSUME WellFormed, NEW v \in Worlds, NEW w \in Worlds, Safer(v, w), NEW o \in OptionSets,
         NEW c, c.args \in Seq(Words)
  PROVE  Covered(Told(c, v, o), Told(c, w, o)) /\ Excused(Told(c, v, o), Told(c, w, o))
<1>1. Covered(Previews(c, v, o), Previews(c, w, o)) /\ Excused(Previews(c, v, o), Previews(c, w, o))
  BY FileCovered, GitPreviewCovered, CoveredCup, ExcusedCup DEF Previews
<1>2. Covered(Guards(c, v), Guards(c, w)) /\ Excused(Guards(c, v), Guards(c, w))
  BY GuardsCovered, GuardsQuiet DEF Excused
<1> QED BY <1>1, <1>2, CoveredCup, ExcusedCup DEF Told

LEMMA SpecificCovered ==
  ASSUME WellFormed, NEW v \in Worlds, NEW w \in Worlds, Safer(v, w), NEW o \in OptionSets,
         NEW l \in Lines
  PROVE  /\ Covered(Specific(l, v, o), Specific(l, w, o))
         /\ Excused(Specific(l, v, o), Specific(l, w, o))
<1> DEFINE A(x) == UNION {Told(c, x, o) : c \in Commands(l)}
<1>1. Covered(Insights(v), Insights(w)) /\ Excused(Insights(v), Insights(w))
  BY InsightsCovered, InsightsQuiet DEF Excused
<1>2. ASSUME NEW c \in Commands(l)
      PROVE  Covered(Told(c, v, o), Told(c, w, o)) /\ Excused(Told(c, v, o), Told(c, w, o))
  BY CommandWords, ToldCovered
<1>3. Covered(A(v), A(w))
  <2> SUFFICES ASSUME NEW f \in A(v)
               PROVE  \E g \in A(w) : Covers(g, f)
    BY DEF Covered
  <2>1. PICK c \in Commands(l) : f \in Told(c, v, o)
    OBVIOUS
  <2>2. \E g \in Told(c, w, o) : Covers(g, f)
    BY <1>2, <2>1 DEF Covered
  <2>3. Told(c, w, o) \subseteq A(w)
    OBVIOUS
  <2> HIDE DEF A
  <2> QED BY <2>2, <2>3
<1>4. Excused(A(v), A(w))
  <2> SUFFICES ASSUME NEW g \in A(w), g.note # ""
               PROVE  \E f \in A(v) : f.note \in {g.note, "nothing matches"}
    BY DEF Excused
  <2>1. PICK c \in Commands(l) : g \in Told(c, w, o)
    OBVIOUS
  <2>2. \E f \in Told(c, v, o) : f.note \in {g.note, "nothing matches"}
    BY <1>2, <2>1 DEF Excused
  <2>3. Told(c, v, o) \subseteq A(v)
    OBVIOUS
  <2> HIDE DEF A
  <2> QED BY <2>2, <2>3
<1>5. Specific(l, v, o) = Insights(v) \cup A(v) /\ Specific(l, w, o) = Insights(w) \cup A(w)
  BY DEF Specific, Told
<1> HIDE DEF A
<1> QED BY <1>1, <1>3, <1>4, <1>5, CoveredCup, ExcusedCup

\* The user has silenced no check that can decide.
Heeding == \A o \in OptionSets : o.ignore \cap Deciding = {}

LEMMA RunCovered ==
  ASSUME WellFormed, Heeding, NEW v \in Worlds, NEW w \in Worlds, Safer(v, w), NEW o \in OptionSets,
         NEW l \in Lines
  PROVE  Covered(Run(l, v, o), Run(l, w, o))
<1> DEFINE A(x)       == Specific(l, x, o)
           noop(x)    == \E f \in A(x) : f.note = "nothing matches"
           trashed(x) == o.safe_rm /\ \E f \in A(x) : f.note = "to trash"
           unsaid(x)  == Assess(l) = Destructive /\ ~noop(x) /\ ~trashed(x) /\ ~Blocks(A(x))
           D          == F(Block, "destructive")
           R(x)       == A(x) \cup When(unsaid(x), D)
<1>1. /\ Run(l, v, o) = {f \in R(v) : f.check \notin o.ignore}
      /\ Run(l, w, o) = {f \in R(w) : f.check \notin o.ignore}
  BY Zenon DEF Run
<1>2. Covered(A(v), A(w)) /\ Excused(A(v), A(w))
  BY SpecificCovered
<1>3. ASSUME NEW g \in A(w), g.sev = Block PROVE g.check \in Deciding
  BY <1>3, WhatDecides
<1> HIDE DEF A
<1>4. noop(w) => noop(v)
  BY <1>2 DEF Excused
<1>5. trashed(w) => trashed(v) \/ noop(v)
  BY <1>2 DEF Excused
<1>6. ASSUME unsaid(v) PROVE unsaid(w) \/ Blocks(A(w))
  <2> HIDE DEF noop, trashed
  <2> QED BY <1>4, <1>5, <1>6
<1>7. D.sev = Block /\ D.check = "destructive"
  BY FSev, Kinds
<1>8. ASSUME unsaid(v) PROVE \E g \in R(w) : Covers(g, D)
  <2>1. CASE unsaid(w)
    <3>1. D \in When(unsaid(w), D)
      BY <2>1 DEF When
    <3>2. Covers(D, D)
      <4> HIDE DEF D
      <4> QED BY <1>7, Kinds, SeverityOrder DEF Covers
    <3> HIDE DEF D, unsaid
    <3> QED BY <3>1, <3>2
  <2>2. CASE Blocks(A(w))
    <3>1. PICK g \in A(w) : g.sev = Block
      BY <2>2 DEF Blocks
    <3>2. Covers(g, D)
      <4> HIDE DEF D
      <4> QED BY <1>3, <1>7, <3>1, Kinds, SeverityOrder DEF Covers
    <3> HIDE DEF D
    <3> QED BY <3>1, <3>2
  <2> HIDE DEF unsaid, R, D
  <2> QED BY <1>6, <1>8, <2>1, <2>2
<1>9. Covered(R(v), R(w))
  <2> SUFFICES ASSUME NEW f \in R(v) PROVE \E g \in R(w) : Covers(g, f)
    BY DEF Covered
  <2>1. CASE f \in A(v)
    BY <1>2, <2>1 DEF Covered
  <2>2. CASE f \in When(unsaid(v), D)
    <3>1. unsaid(v) /\ f = D
      BY <2>2 DEF When
    <3> HIDE DEF unsaid, R, D
    <3> QED BY <1>8, <3>1
  <2> HIDE DEF unsaid, D
  <2> QED BY <2>1, <2>2
<1>10. o.ignore \cap Deciding = {}
  BY DEF Heeding
<1> HIDE DEF R
<1>11. ASSUME NEW f \in Run(l, v, o) PROVE \E g \in Run(l, w, o) : Covers(g, f)
  <2>1. f \in R(v) /\ f.check \notin o.ignore
    BY <1>1
  <2>2. PICK g \in R(w) : Covers(g, f)
    BY <1>9, <2>1 DEF Covered
  <2>3. g.check \notin o.ignore
    BY <1>10, <2>1, <2>2 DEF Covers
  <2> QED BY <1>1, <2>2, <2>3
<1> QED BY <1>11 DEF Covered

LEMMA FindingsCovered ==
  ASSUME WellFormed, Heeding, NEW v \in Worlds, NEW w \in Worlds, Safer(v, w), NEW o \in OptionSets,
         NEW l \in Lines
  PROVE  Covered(Findings(l, v, o), Findings(l, w, o))
<1>1. Covered(Run(l, v, o), Run(l, w, o))
  BY RunCovered
<1>2. Truncates(l, v) => Truncates(l, w)
  <2> SUFFICES ASSUME NEW i \in DOMAIN l, l[i].over # "", v.files[l[i].over].kind = "file"
               PROVE  w.files[l[i].over].kind = "file"
    BY DEF Truncates
  <2>1. l[i].over \in Words
    BY DEF WellFormed
  <2>2. v.files[l[i].over].kind \in {w.files[l[i].over].kind, "missing"}
    BY <2>1, FilesGrow
  <2> QED BY <2>2
<1> DEFINE T(x) == When(Truncates(l, x), F(Warn, "truncate"))
<1>3. Covered(T(v), T(w))
  BY <1>2, FSev, Kinds, SeverityOrder DEF Covered, Covers, When
<1>4. /\ Findings(l, v, o) = IF o.enabled THEN Run(l, v, o) \cup T(v) ELSE {}
      /\ Findings(l, w, o) = IF o.enabled THEN Run(l, w, o) \cup T(w) ELSE {}
  BY DEF Findings
<1> HIDE DEF T
<1>5. Covered({}, {})
  BY DEF Covered
<1>6. Covered(Run(l, v, o) \cup T(v), Run(l, w, o) \cup T(w))
  BY <1>1, <1>3, CoveredCup
<1> QED BY <1>4, <1>5, <1>6

LEMMA SaferSelf ==
  ASSUME WellFormed, NEW w \in Worlds
  PROVE  Safer(w, w)
<1>1. w.files \in [Words -> File] /\ w.changed \in Nat /\ w.untracked \in Nat
  BY DEF WellFormed
<1>2. ASSUME NEW t \in DOMAIN w.files PROVE w.files[t].n =< w.files[t].n
  BY <1>1 DEF File
<1> QED BY <1>1, <1>2 DEF Safer

LEMMA GravityGrows ==
  ASSUME WellFormed, Heeding, NEW v \in Worlds, NEW w \in Worlds, Safer(v, w), NEW o \in OptionSets,
         NEW l \in Lines
  PROVE  Gravity(l, v, o) \in Risks /\ Gravity(l, w, o) \in Risks
         /\ Gravity(l, v, o) =< Gravity(l, w, o)
<1> DEFINE S(x) == {f.sev : f \in Findings(l, x, o)}
<1>1. Covered(Findings(l, v, o), Findings(l, w, o)) /\ Covered(Findings(l, w, o), Findings(l, w, o))
  BY FindingsCovered, SaferSelf
<1>2. Severities \subseteq Risks
  BY DEF Severities, Risks, Info, Warn, Block
<1>3. S(v) \in SUBSET Risks /\ S(w) \in SUBSET Risks
  BY <1>1, <1>2 DEF Covered, Covers
<1>4. ASSUME NEW x \in S(v) PROVE \E y \in S(w) : x =< y
  <2>1. PICK f \in Findings(l, v, o) : x = f.sev
    OBVIOUS
  <2>2. PICK g \in Findings(l, w, o) : f.sev =< g.sev
    BY <1>1 DEF Covered, Covers
  <2>3. g.sev \in S(w)
    OBVIOUS
  <2> QED BY <2>1, <2>2, <2>3
<1>5. Gravity(l, v, o) = Worst(S(v)) /\ Gravity(l, w, o) = Worst(S(w))
  BY DEF Gravity
<1> HIDE DEF S
<1>6. Worst(S(v)) \in Risks /\ Worst(S(w)) \in Risks
  BY <1>3, WorstOf
<1>7. Worst(S(v)) =< Worst(S(w))
  BY <1>3, <1>4, WorstMonotone
<1> QED BY <1>5, <1>6, <1>7

LEMMA NothingInverted == ASSUME WellFormed, Heeding PROVE Inverted = {}
<1> SUFFICES ASSUME NEW r \in Inverted PROVE FALSE
  OBVIOUS
<1>1. PICK o \in OptionSets : r \in {<<o, l>> : l \in {k \in Lines : \E v, w \in Worlds :
                              Safer(v, w) /\ Gravity(k, v, o) > Gravity(k, w, o)}}
  BY DEF Inverted
<1>2. PICK l \in Lines : \E v, w \in Worlds :
                              Safer(v, w) /\ Gravity(l, v, o) > Gravity(l, w, o)
  BY <1>1
<1>3. PICK v \in Worlds, w \in Worlds : Safer(v, w) /\ Gravity(l, v, o) > Gravity(l, w, o)
  BY <1>2
<1>4. Gravity(l, v, o) \in 0..4 /\ Gravity(l, w, o) \in 0..4 /\ Gravity(l, v, o) =< Gravity(l, w, o)
  BY <1>3, GravityGrows DEF Risks
<1> QED BY <1>3, <1>4

\* Unless the user has silenced a check that can decide, more to lose never
\* means that less is said: of any line, in any two worlds of which one has no
\* more to lose, the gravest finding is no milder where there is more, however
\* many commands the line has and targets they name.  The fallback of the
\* classifier and the previews that stand in for it leave no gap
\* (preflight.rs:107).
THEOREM MoreIsSaid ==
  ASSUME WellFormed, Heeding
  PROVE  Spec => []MoreToLose
<1>1. MoreToLose
  BY NothingInverted DEF MoreToLose
<1> QED BY <1>1, PTL
=============================================================================
