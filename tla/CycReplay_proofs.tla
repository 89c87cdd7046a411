-------------------------- MODULE CycReplay_proofs --------------------------
(***************************************************************************)
(* The replay recorder keeps its promises for every queue, every size and  *)
(* number of segments and every length of the play.                        *)
(***************************************************************************)
EXTENDS CycReplay, SequenceTheorems, FiniteSetTheorems, TLAPS

-----------------------------------------------------------------------------
(* Sums over a finite set.  Induction is on the smallest counterexample, in   *)
(* the well-founded order the library has on finite sets and on numbers.      *)

(* A set of subsets of a finite set has a smallest one in it.                 *)
LEMMA Smallest ==
  ASSUME NEW S, IsFiniteSet(S), NEW T \in SUBSET SUBSET S, T # {}
  PROVE  \E x \in T : \A y \in T : y \subseteq x => y = x
<1>1. IsWellFoundedOn(StrictSubsetOrdering(S), FiniteSubsetsOf(S))
  BY FS_StrictSubsetOrderingWellFounded
<1>2. T \subseteq FiniteSubsetsOf(S)
  BY FS_Subset DEF FiniteSubsetsOf
<1>3. PICK x \in T : \A y \in T : ~ (<<y, x>> \in StrictSubsetOrdering(S))
  BY <1>1, <1>2, WFMin
<1> QED
  BY <1>3 DEF StrictSubsetOrdering

(* A set of natural numbers has a least one.                                  *)
LEMMA Least ==
  ASSUME NEW T \in SUBSET Nat, T # {}
  PROVE  \E x \in T : \A y \in T : x <= y
<1>1. PICK x \in T : \A y \in T : ~ (<<y, x>> \in OpToRel(<, Nat))
  BY NatLessThanWellFounded, WFMin
<1>2. \A y \in T : ~ (y < x)
  BY <1>1 DEF OpToRel
<1> QED
  BY <1>2

SumOver(f, S) == MapThenSumSet(LAMBDA n : f[n], S)

(* What the library's recursive function is on one subset.                    *)
SumStep(f, g, s) ==
  IF s = {} THEN 0 ELSE LET c == CHOOSE x \in s : TRUE IN f[c] + g[s \ {c}]
Sums(f, S, g) == g = [s \in SUBSET S |-> SumStep(f, g, s)]

LEMMA SumDef ==
  ASSUME NEW f, NEW S
  PROVE  SumOver(f, S) = (CHOOSE g : Sums(f, S, g))[S]
  BY Zenon DEF SumOver, MapThenSumSet, MapThenFoldSet, Sums, SumStep

LEMMA SumsAt ==
  ASSUME NEW f, NEW S, NEW g, Sums(f, S, g), NEW s \in SUBSET S
  PROVE  /\ s = {} => g[s] = 0
         /\ s # {} => LET c == CHOOSE x \in s : TRUE
                      IN c \in s /\ s \ {c} \in SUBSET S /\ g[s] = f[c] + g[s \ {c}]
<1>1. g[s] = SumStep(f, g, s)
  BY DEF Sums
<1> QED
  BY <1>1 DEF SumStep

LEMMA SumsTop ==
  ASSUME NEW f, NEW S, NEW g, Sums(f, S, g)
  PROVE  /\ S = {} => g[S] = 0
         /\ S # {} => LET c == CHOOSE x \in S : TRUE
                      IN c \in S /\ g[S] = f[c] + g[S \ {c}]
<1>1. g[S] = SumStep(f, g, S)
  BY DEF Sums
<1> QED
  BY <1>1 DEF SumStep

(* Two such functions agree where both are defined.                           *)
LEMMA SumsAgree ==
  ASSUME NEW f, NEW S, IsFiniteSet(S), NEW T \in SUBSET S,
         NEW g, Sums(f, S, g), NEW h, Sums(f, T, h)
  PROVE  \A s \in SUBSET T : g[s] = h[s]
<1> DEFINE B == {s \in SUBSET T : g[s] # h[s]}
<1> SUFFICES ASSUME B # {} PROVE FALSE
  OBVIOUS
<1>0. B \in SUBSET SUBSET S
  OBVIOUS
<1>1. PICK x \in B : \A y \in B : y \subseteq x => y = x
  <2> HIDE DEF B
  <2> QED
    BY <1>0, Smallest
<1>2. x \in SUBSET S /\ x \in SUBSET T
  OBVIOUS
<1>3. CASE x = {}
  <2>1. g[x] = 0 /\ h[x] = 0
    BY <1>2, <1>3, SumsAt
  <2> QED
    BY <2>1
<1>4. CASE x # {}
  <2> DEFINE c == CHOOSE y \in x : TRUE
  <2>1. c \in x /\ g[x] = f[c] + g[x \ {c}] /\ h[x] = f[c] + h[x \ {c}]
    BY <1>2, <1>4, SumsAt
  <2>2. x \ {c} \notin B
    BY <1>1, <2>1
  <2> QED
    BY <2>1, <2>2
<1> QED
  BY <1>3, <1>4

LEMMA SumsExist ==
  ASSUME NEW f, NEW S, IsFiniteSet(S)
  PROVE  \E g : Sums(f, S, g)
<1> DEFINE B == {s \in SUBSET S : ~ \E g : Sums(f, s, g)}
<1> SUFFICES ASSUME B # {} PROVE FALSE
  OBVIOUS
<1>0. B \in SUBSET SUBSET S
  OBVIOUS
<1>1. PICK x \in B : \A y \in B : y \subseteq x => y = x
  <2> HIDE DEF B
  <2> QED
    BY <1>0, Smallest
<1> DEFINE h(t) == CHOOSE g : Sums(f, t, g)
           G == [t \in SUBSET x |->
                   IF t = {} THEN 0
                   ELSE LET c == CHOOSE y \in t : TRUE IN f[c] + h(t \ {c})[t \ {c}]]
<1>2. ASSUME NEW t \in SUBSET x, t # x PROVE Sums(f, t, h(t))
  <2>1. t \notin B
    BY <1>1, <1>2
  <2> QED
    BY <2>1
<1>3. ASSUME NEW t \in SUBSET x, t # x PROVE G[t] = h(t)[t]
  <2>0. Sums(f, t, h(t))
    BY <1>2, <1>3
  <2>1. CASE t = {}
    BY <2>0, <2>1, SumsAt
  <2>2. CASE t # {}
    <3> DEFINE c == CHOOSE y \in t : TRUE
               u == t \ {c}
    <3>1. c \in t /\ h(t)[t] = f[c] + h(t)[u]
      BY <2>0, <2>2, SumsAt
    <3>2. u \in SUBSET x /\ u # x /\ u \in SUBSET t
      BY <3>1
    <3>3. Sums(f, u, h(u))
      BY <1>2, <3>2
    <3>4. IsFiniteSet(t)
      BY FS_Subset
    <3>5. h(t)[u] = h(u)[u]
      BY <2>0, <3>2, <3>3, <3>4, SumsAgree
    <3>6. G[t] = f[c] + h(u)[u]
      BY <2>2
    <3> QED
      BY <3>1, <3>5, <3>6
  <2> QED
    BY <2>1, <2>2
<1>4. ASSUME NEW t \in SUBSET x PROVE G[t] = SumStep(f, G, t)
  <2>1. CASE t = {}
    BY <2>1 DEF SumStep
  <2>2. CASE t # {}
    <3> DEFINE c == CHOOSE y \in t : TRUE
               u == t \ {c}
    <3>1. c \in t
      BY <2>2
    <3>2. u \in SUBSET x /\ u # x
      BY <3>1
    <3>3. G[u] = h(u)[u]
      BY <1>3, <3>2
    <3>4. G[t] = f[c] + h(u)[u]
      BY <2>2
    <3>5. SumStep(f, G, t) = f[c] + G[u]
      BY <2>2 DEF SumStep
    <3> HIDE DEF G, h
    <3> QED
      BY <3>3, <3>4, <3>5
  <2> QED
    BY <2>1, <2>2
<1>5. Sums(f, x, G)
  <2> DEFINE R == [t \in SUBSET x |-> SumStep(f, G, t)]
  <2>1. DOMAIN G = SUBSET x /\ DOMAIN R = SUBSET x
    OBVIOUS
  <2>2. G = [t \in SUBSET x |-> G[t]]
    OBVIOUS
  <2> HIDE DEF G
  <2>3. G = R
    BY <1>4, <2>2
  <2> QED
    BY <2>3 DEF Sums
<1>6. \E g : Sums(f, x, g)
  BY <1>5
<1> QED
  BY <1>6

(* The sum's own equation. *)
LEMMA SumEq ==
  ASSUME NEW f, NEW S, IsFiniteSet(S)
  PROVE  /\ S = {} => SumOver(f, S) = 0
         /\ S # {} => LET c == CHOOSE x \in S : TRUE
                      IN c \in S /\ SumOver(f, S) = f[c] + SumOver(f, S \ {c})
<1> DEFINE h(t) == CHOOSE g : Sums(f, t, g)
<1>1. \A t : IsFiniteSet(t) => Sums(f, t, h(t))
  BY SumsExist
<1>2. \A t : SumOver(f, t) = h(t)[t]
  BY SumDef
<1>3. CASE S = {}
  <2>1. Sums(f, S, h(S))
    BY <1>1
  <2>2. SumOver(f, S) = h(S)[S]
    BY <1>2
  <2> HIDE DEF h
  <2>3. h(S)[S] = 0
    BY <1>3, <2>1, SumsTop
  <2> QED
    BY <1>3, <2>2, <2>3
<1>4. CASE S # {}
  <2> DEFINE c == CHOOSE x \in S : TRUE
             u == S \ {c}
  <2>1. Sums(f, S, h(S))
    BY <1>1
  <2>2. IsFiniteSet(u) /\ u \in SUBSET S
    BY FS_Subset
  <2>3. Sums(f, u, h(u))
    BY <1>1, <2>2
  <2> HIDE DEF h
  <2>a. \A g : Sums(f, S, g) => c \in S /\ g[S] = f[c] + g[u]
    BY <1>4, SumsTop
  <2> HIDE DEF c, u
  <2>4. c \in S /\ h(S)[S] = f[c] + h(S)[u]
    BY <2>1, <2>a
  <2>5. h(S)[u] = h(u)[u]
    BY <2>1, <2>2, <2>3, SumsAgree
  <2> QED
    BY <1>2, <1>4, <2>4, <2>5 DEF c, u
<1> QED
  BY <1>3, <1>4

(* A sum of integers is one, of natural numbers is one. *)
LEMMA SumInt ==
  ASSUME NEW f, NEW S, IsFiniteSet(S), \A s \in S : f[s] \in Int
  PROVE  SumOver(f, S) \in Int
<1> DEFINE B == {s \in SUBSET S : SumOver(f, s) \notin Int}
           c(x) == CHOOSE y \in x : TRUE
<1> SUFFICES ASSUME B # {} PROVE FALSE
  OBVIOUS
<1>0. B \in SUBSET SUBSET S
  OBVIOUS
<1>1. PICK x \in B : \A y \in B : y \subseteq x => y = x
  <2> HIDE DEF B
  <2> QED
    BY <1>0, Smallest
<1>2. IsFiniteSet(x)
  BY FS_Subset
<1>a. x # {}
  <2> SUFFICES ASSUME x = {} PROVE FALSE
    OBVIOUS
  <2>1. SumOver(f, x) = 0
    BY <1>2, SumEq
  <2> QED
    BY <2>1
<1>3. c(x) \in x /\ SumOver(f, x) = f[c(x)] + SumOver(f, x \ {c(x)})
  BY <1>2, <1>a, SumEq
<1> HIDE DEF c
<1>4. x \ {c(x)} \notin B
  BY <1>1, <1>3
<1> QED
  BY <1>3, <1>4

LEMMA SumNat ==
  ASSUME NEW f, NEW S, IsFiniteSet(S), \A s \in S : f[s] \in Nat
  PROVE  SumOver(f, S) \in Nat
<1> DEFINE B == {s \in SUBSET S : SumOver(f, s) \notin Nat}
           c(x) == CHOOSE y \in x : TRUE
<1> SUFFICES ASSUME B # {} PROVE FALSE
  OBVIOUS
<1>0. B \in SUBSET SUBSET S
  OBVIOUS
<1>1. PICK x \in B : \A y \in B : y \subseteq x => y = x
  <2> HIDE DEF B
  <2> QED
    BY <1>0, Smallest
<1>2. IsFiniteSet(x)
  BY FS_Subset
<1>a. x # {}
  <2> SUFFICES ASSUME x = {} PROVE FALSE
    OBVIOUS
  <2>1. SumOver(f, x) = 0
    BY <1>2, SumEq
  <2> QED
    BY <2>1
<1>3. c(x) \in x /\ SumOver(f, x) = f[c(x)] + SumOver(f, x \ {c(x)})
  BY <1>2, <1>a, SumEq
<1> HIDE DEF c
<1>4. x \ {c(x)} \notin B
  BY <1>1, <1>3
<1> QED
  BY <1>3, <1>4

(* Any one of the summands can be taken out first. *)
LEMMA SumTake ==
  ASSUME NEW f, NEW S, IsFiniteSet(S), \A s \in S : f[s] \in Int, NEW x \in S
  PROVE  SumOver(f, S) = f[x] + SumOver(f, S \ {x})
<1> DEFINE B == {s \in SUBSET S : \E y \in s : SumOver(f, s) # f[y] + SumOver(f, s \ {y})}
<1> SUFFICES ASSUME B # {} PROVE FALSE
  OBVIOUS
<1>0. B \in SUBSET SUBSET S
  OBVIOUS
<1>1. PICK t \in B : \A u \in B : u \subseteq t => u = t
  <2> HIDE DEF B
  <2> QED
    BY <1>0, Smallest
<1>2. \A u \in SUBSET t : IsFiniteSet(u) /\ SumOver(f, u) \in Int
  BY FS_Subset, SumInt
<1>3. PICK y \in t : SumOver(f, t) # f[y] + SumOver(f, t \ {y})
  OBVIOUS
<1> DEFINE c == CHOOSE z \in t : TRUE
<1>4. c \in t /\ SumOver(f, t) = f[c] + SumOver(f, t \ {c})
  BY <1>2, <1>3, SumEq
<1> HIDE DEF c
<1>5. c # y
  BY <1>3, <1>4
<1>6. t \ {c} \notin B /\ t \ {y} \notin B /\ t \ {c} \in SUBSET t /\ t \ {y} \in SUBSET t
  BY <1>1, <1>3, <1>4
<1>7. SumOver(f, t \ {c}) = f[y] + SumOver(f, (t \ {c}) \ {y})
  BY <1>3, <1>5, <1>6
<1>8. SumOver(f, t \ {y}) = f[c] + SumOver(f, (t \ {y}) \ {c})
  BY <1>4, <1>5, <1>6
<1>9. (t \ {c}) \ {y} = (t \ {y}) \ {c} /\ (t \ {c}) \ {y} \in SUBSET t
  OBVIOUS
<1>10. SumOver(f, (t \ {c}) \ {y}) \in Int /\ f[c] \in Int /\ f[y] \in Int
  BY <1>2, <1>3, <1>4, <1>9
<1> QED
  BY <1>3, <1>4, <1>7, <1>8, <1>9, <1>10

(* Only what is summed matters. *)
LEMMA SumSame ==
  ASSUME NEW f, NEW g, NEW S, IsFiniteSet(S), \A s \in S : f[s] = g[s]
  PROVE  SumOver(f, S) = SumOver(g, S)
<1> DEFINE B == {s \in SUBSET S : SumOver(f, s) # SumOver(g, s)}
<1> SUFFICES ASSUME B # {} PROVE FALSE
  OBVIOUS
<1>0. B \in SUBSET SUBSET S
  OBVIOUS
<1>1. PICK x \in B : \A y \in B : y \subseteq x => y = x
  <2> HIDE DEF B
  <2> QED
    BY <1>0, Smallest
<1>2. IsFiniteSet(x)
  BY FS_Subset
<1> DEFINE c == CHOOSE y \in x : TRUE
<1>3. CASE x = {}
  <2>1. SumOver(f, x) = 0 /\ SumOver(g, x) = 0
    BY <1>2, <1>3, SumEq
  <2> QED
    BY <2>1
<1>4. CASE x # {}
  <2>1. c \in x /\ SumOver(f, x) = f[c] + SumOver(f, x \ {c}) /\ SumOver(g, x) = g[c] + SumOver(g, x \ {c})
    BY <1>2, <1>4, SumEq
  <2>2. x \ {c} \notin B
    BY <1>1, <2>1
  <2> QED
    BY <2>1, <2>2
<1> QED
  BY <1>3, <1>4

-----------------------------------------------------------------------------
(* Totals of a function. *)

LEMMA TotalDef == ASSUME NEW f PROVE Total(f) = SumOver(f, DOMAIN f)
  BY Zenon DEF Total, SumOver

LEMMA TotalNat ==
  ASSUME NEW S, IsFiniteSet(S), NEW f \in [S -> Nat]
  PROVE  Total(f) \in Nat
<1>1. DOMAIN f = S /\ \A s \in S : f[s] \in Nat
  OBVIOUS
<1> QED
  BY <1>1, TotalDef, SumNat

(* One summand changes. *)
LEMMA TotalExcept ==
  ASSUME NEW S, IsFiniteSet(S), NEW f \in [S -> Nat], NEW x \in S, NEW v \in Nat
  PROVE  Total([f EXCEPT ![x] = v]) = Total(f) - f[x] + v
<1> DEFINE g == [f EXCEPT ![x] = v]
           T == S \ {x}
<1>1. /\ DOMAIN f = S /\ \A s \in S : f[s] \in Int
      /\ DOMAIN g = S /\ \A s \in S : g[s] \in Int
      /\ \A s \in T : f[s] \in Int /\ f[s] = g[s]
      /\ g[x] = v
  OBVIOUS
<1>2. IsFiniteSet(T)
  BY FS_Subset
<1> HIDE DEF g
<1>3. Total(g) = g[x] + SumOver(g, T) /\ Total(f) = f[x] + SumOver(f, T)
  BY <1>1, TotalDef, SumTake
<1>4. SumOver(f, T) = SumOver(g, T) /\ SumOver(f, T) \in Int
  BY <1>1, <1>2, SumSame, SumInt
<1>5. Total(g) = Total(f) - f[x] + v
  BY <1>1, <1>3, <1>4
<1> QED
  BY <1>5 DEF g

LEMMA TotalZero ==
  ASSUME NEW S, IsFiniteSet(S), NEW f, DOMAIN f = S, \A s \in S : f[s] = 0
  PROVE  Total(f) = 0
<1> DEFINE B == {s \in SUBSET S : SumOver(f, s) # 0}
<1>a. ASSUME B # {} PROVE FALSE
  <2>0. B \in SUBSET SUBSET S
    OBVIOUS
  <2>1. PICK x \in B : \A y \in B : y \subseteq x => y = x
    <3> HIDE DEF B
    <3> QED
      BY <1>a, <2>0, Smallest
  <2>2. IsFiniteSet(x)
    BY FS_Subset
  <2> DEFINE c == CHOOSE y \in x : TRUE
  <2>a. x # {}
    <3> SUFFICES ASSUME x = {} PROVE FALSE
      OBVIOUS
    <3>1. SumOver(f, x) = 0
      BY <2>2, SumEq
    <3> QED
      BY <3>1
  <2>3. c \in x /\ SumOver(f, x) = f[c] + SumOver(f, x \ {c})
    BY <2>2, <2>a, SumEq
  <2> HIDE DEF c
  <2>4. x \ {c} \notin B
    BY <2>1, <2>3
  <2> QED
    BY <2>3, <2>4
<1> QED
  BY <1>a, TotalDef

(* A summand is at most the total. *)
LEMMA TotalAtLeast ==
  ASSUME NEW S, IsFiniteSet(S), NEW f \in [S -> Nat], NEW x \in S
  PROVE  f[x] <= Total(f)
<1>1. f[x] \in Nat /\ Total(f) \in Nat /\ Total([f EXCEPT ![x] = 0]) \in Nat
  BY TotalNat
<1>2. Total([f EXCEPT ![x] = 0]) = Total(f) - f[x] + 0
  <2>1. 0 \in Nat
    OBVIOUS
  <2> QED
    BY <2>1, TotalExcept, Zenon
<1> QED
  BY <1>1, <1>2

-----------------------------------------------------------------------------
(* The disk after each command that waits. *)

(* The recursive function of Ahead, by its equation. *)
AheadFits(d, q, n, g) ==
  g = [i \in 0 .. n |-> IF i = 0 THEN d ELSE Apply(q[i], g[i - 1])]

LEMMA AheadExists ==
  ASSUME NEW d, NEW q, NEW n \in Nat
  PROVE  \E g : AheadFits(d, q, n, g)
<1> DEFINE B == {k \in Nat : ~ \E g : AheadFits(d, q, k, g)}
<1> SUFFICES ASSUME B # {} PROVE FALSE
  OBVIOUS
<1>0. B \in SUBSET Nat
  OBVIOUS
<1>1. PICK k \in B : \A m \in B : k <= m
  <2> HIDE DEF B
  <2> QED
    BY <1>0, Least
<1>2. CASE k = 0
  <2> DEFINE g == [i \in 0 .. 0 |-> d]
             r == [i \in 0 .. 0 |-> IF i = 0 THEN d ELSE Apply(q[i], g[i - 1])]
  <2>1. g = r
    OBVIOUS
  <2>2. AheadFits(d, q, 0, g)
    BY <2>1 DEF AheadFits
  <2> QED
    BY <1>2, <2>2
<1>3. CASE k # 0
  <2>1. k - 1 \in Nat /\ k - 1 \notin B
    BY <1>1, <1>3
  <2>2. PICK g : AheadFits(d, q, k - 1, g)
    BY <2>1
  <2> DEFINE h == [i \in 0 .. k |-> IF i = k THEN Apply(q[k], g[k - 1]) ELSE g[i]]
             r == [i \in 0 .. k |-> IF i = 0 THEN d ELSE Apply(q[i], h[i - 1])]
  <2>3. \A i \in 0 .. k - 1 : g[i] = IF i = 0 THEN d ELSE Apply(q[i], g[i - 1])
    BY <2>1, <2>2 DEF AheadFits
  <2>4. \A i \in 0 .. k : h[i] = r[i]
    <3> SUFFICES ASSUME NEW i \in 0 .. k PROVE h[i] = r[i]
      OBVIOUS
    <3>1. CASE i = k
      <4>1. h[i - 1] = g[i - 1]
        BY <2>1, <3>1
      <4> QED
        BY <1>3, <3>1, <4>1
    <3>2. CASE i # k
      <4>1. i \in 0 .. k - 1 /\ h[i] = g[i] /\ (i # 0 => h[i - 1] = g[i - 1])
        BY <2>1, <3>2
      <4>2. h[i] = IF i = 0 THEN d ELSE Apply(q[i], g[i - 1])
        BY <2>3, <4>1
      <4> QED
        BY <4>1, <4>2
    <3> QED
      BY <3>1, <3>2
  <2>5. h = r
    <3>1. h = [i \in 0 .. k |-> h[i]] /\ r = [i \in 0 .. k |-> r[i]]
      OBVIOUS
    <3> HIDE DEF h, r
    <3> QED
      BY <2>4, <3>1
  <2>6. AheadFits(d, q, k, h)
    BY <2>5 DEF AheadFits
  <2> QED
    BY <2>6
<1> QED
  BY <1>2, <1>3

(* The first disk is the one now, each other what a command makes of the one  *)
(* before.                                                                    *)
LEMMA AheadAt ==
  ASSUME NEW d, NEW q, Len(q) \in Nat
  PROVE  /\ Ahead(d, q)[0] = d
         /\ \A i \in 1 .. Len(q) : Ahead(d, q)[i] = Apply(q[i], Ahead(d, q)[i - 1])
<1>1. Ahead(d, q) = CHOOSE g : AheadFits(d, q, Len(q), g)
  BY DEF Ahead, AheadFits
<1>2. AheadFits(d, q, Len(q), Ahead(d, q))
  BY <1>1, AheadExists
<1> HIDE <1>1
<1>3. \A i \in 0 .. Len(q) :
        Ahead(d, q)[i] = IF i = 0 THEN d ELSE Apply(q[i], Ahead(d, q)[i - 1])
  BY <1>2 DEF AheadFits
<1> QED
  BY <1>3

(* A command put at the end leaves the disks before it as they were. *)
LEMMA AheadAppend ==
  ASSUME NEW d, NEW C, NEW q \in Seq(C), NEW c \in C
  PROVE  /\ \A i \in 0 .. Len(q) : Ahead(d, Append(q, c))[i] = Ahead(d, q)[i]
         /\ Ahead(d, Append(q, c))[Len(q) + 1] = Apply(c, Ahead(d, q)[Len(q)])
<1> DEFINE p == Append(q, c)
           a == Ahead(d, q)
           b == Ahead(d, p)
<1>1. /\ Len(q) \in Nat /\ Len(p) = Len(q) + 1 /\ p[Len(q) + 1] = c
      /\ \A i \in 1 .. Len(q) : p[i] = q[i]
  BY AppendProperties, LenProperties
<1>2. a[0] = d /\ \A i \in 1 .. Len(q) : a[i] = Apply(q[i], a[i - 1])
  BY <1>1, AheadAt
<1>3. Len(p) \in Nat
  BY <1>1
<1> HIDE DEF p
<1>4. b[0] = d /\ \A i \in 1 .. Len(p) : b[i] = Apply(p[i], b[i - 1])
  BY <1>3, AheadAt
<1> HIDE DEF a, b
<1>5. ASSUME NEW B, B = {i \in 0 .. Len(q) : b[i] # a[i]}, B # {} PROVE FALSE
  <2>1. B \in SUBSET Nat
    BY <1>5
  <2>2. PICK k \in B : \A m \in B : k <= m
    BY <1>5, <2>1, Least
  <2>3. k \in 1 .. Len(q) /\ b[k] # a[k]
    BY <1>1, <1>2, <1>4, <1>5
  <2>4. k - 1 \in 0 .. Len(q) /\ ~ (k <= k - 1)
    BY <1>1, <2>3
  <2>5. b[k - 1] = a[k - 1]
    BY <1>5, <2>2, <2>4
  <2> QED
    BY <1>1, <1>2, <1>4, <2>3, <2>5
<1>6. \A i \in 0 .. Len(q) : b[i] = a[i]
  BY <1>5
<1>7. b[Len(q) + 1] = Apply(c, b[Len(q)])
  BY <1>1, <1>4
<1> QED
  BY <1>1, <1>6, <1>7 DEF a, b, p

(* A command taken from the front and carried out leaves the rest. *)
LEMMA AheadTail ==
  ASSUME NEW d, NEW C, NEW q \in Seq(C), q # <<>>
  PROVE  \A i \in 0 .. Len(q) - 1 : Ahead(Apply(Head(q), d), Tail(q))[i] = Ahead(d, q)[i + 1]
<1> DEFINE p == Tail(q)
           a == Ahead(d, q)
           b == Ahead(Apply(Head(q), d), p)
<1>1. /\ Len(q) \in Nat \ {0} /\ Len(p) = Len(q) - 1 /\ Head(q) = q[1]
      /\ \A i \in 1 .. Len(q) - 1 : p[i] = q[i + 1]
  BY HeadTailProperties, EmptySeq, LenProperties
<1>2. a[0] = d /\ \A i \in 1 .. Len(q) : a[i] = Apply(q[i], a[i - 1])
  BY <1>1, AheadAt
<1>3. Len(p) \in Nat
  BY <1>1
<1> HIDE DEF p
<1>4. b[0] = Apply(q[1], d) /\ \A i \in 1 .. Len(p) : b[i] = Apply(p[i], b[i - 1])
  BY <1>1, <1>3, AheadAt
<1> HIDE DEF a, b
<1>5. ASSUME NEW B, B = {i \in 0 .. Len(q) - 1 : b[i] # a[i + 1]}, B # {} PROVE FALSE
  <2>1. B \in SUBSET Nat
    BY <1>1, <1>5
  <2>2. PICK k \in B : \A m \in B : k <= m
    BY <1>5, <2>1, Least
  <2>3. k \in 0 .. Len(q) - 1 /\ b[k] # a[k + 1]
    BY <1>5
  <2>4. k # 0
    <3>1. a[1] = Apply(q[1], a[0])
      BY <1>1, <1>2
    <3> QED
      BY <1>2, <1>4, <2>3, <3>1
  <2>5. k - 1 \in 0 .. Len(q) - 1 /\ ~ (k <= k - 1) /\ k \in 1 .. Len(p) /\ k + 1 \in 1 .. Len(q)
    BY <1>1, <2>3, <2>4
  <2>6. b[k - 1] = a[k]
    BY <1>5, <2>2, <2>5
  <2>7. b[k] = Apply(p[k], b[k - 1]) /\ a[k + 1] = Apply(q[k + 1], a[k]) /\ p[k] = q[k + 1]
    BY <1>1, <1>2, <1>4, <2>5
  <2> QED
    BY <2>3, <2>6, <2>7
<1>6. \A i \in 0 .. Len(q) - 1 : b[i] = a[i + 1]
  BY <1>5
<1> QED
  BY <1>6 DEF a, b, p

-----------------------------------------------------------------------------
(* Prefixes, and a buffer written out in two goes. *)

LEMMA PrefixIff ==
  ASSUME NEW S, NEW s \in Seq(S), NEW t \in Seq(S)
  PROVE  IsPrefix(s, t) <=> Len(s) <= Len(t) /\ \A i \in 1 .. Len(s) : s[i] = t[i]
<1>1. Len(s) \in Nat /\ Len(t) \in Nat
  BY LenProperties
<1>2. \A i \in 1 .. Len(s) : s[i] \in S
  BY ElementOfSeq
<1>3. SubSeq(s, 1, Len(s)) = s
  BY SubSeqFull
<1>4. CASE Len(s) <= Len(t)
  <2> DEFINE u == SubSeq(t, 1, Len(s))
  <2>1. \A i \in 1 .. Len(s) : t[i] \in S
    BY <1>1, <1>4, ElementOfSeq
  <2>2. u \in Seq(S) /\ Len(u) = Len(s) /\ \A i \in 1 .. Len(s) : u[i] = t[i]
    BY <1>1, <2>1, SubSeqProperties
  <2> HIDE DEF u
  <2>3. s = u <=> \A i \in 1 .. Len(s) : s[i] = t[i]
    BY <1>1, <2>2, SeqEqual
  <2> QED
    BY <1>3, <1>4, <2>3 DEF IsPrefix, u
<1>5. CASE ~ (Len(s) <= Len(t))
  BY <1>5 DEF IsPrefix
<1> QED
  BY <1>4, <1>5

LEMMA PrefixSelf ==
  ASSUME NEW S, NEW s \in Seq(S)
  PROVE  IsPrefix(s, s)
<1>1. Len(s) \in Nat
  BY LenProperties
<1> QED
  BY <1>1, PrefixIff

LEMMA PrefixEmpty ==
  ASSUME NEW S, NEW s \in Seq(S)
  PROVE  IsPrefix(<<>>, s)
<1> DEFINE e == <<>>
<1>1. Len(s) \in Nat /\ e \in Seq(S) /\ Len(e) = 0
  BY LenProperties, EmptySeq
<1> HIDE DEF e
<1>2. Len(e) <= Len(s) /\ \A i \in 1 .. Len(e) : e[i] = s[i]
  BY <1>1
<1>3. IsPrefix(e, s)
  BY <1>1, <1>2, PrefixIff
<1> QED
  BY <1>3 DEF e

LEMMA PrefixOfPrefix ==
  ASSUME NEW S, NEW s \in Seq(S), NEW t \in Seq(S), NEW u \in Seq(S),
         IsPrefix(s, t), IsPrefix(t, u)
  PROVE  IsPrefix(s, u)
<1>1. Len(s) \in Nat /\ Len(t) \in Nat /\ Len(u) \in Nat
  BY LenProperties
<1>2. /\ Len(s) <= Len(t) /\ \A i \in 1 .. Len(s) : s[i] = t[i]
      /\ Len(t) <= Len(u) /\ \A i \in 1 .. Len(t) : t[i] = u[i]
  BY PrefixIff
<1>3. Len(s) <= Len(u) /\ \A i \in 1 .. Len(s) : s[i] = u[i]
  BY <1>1, <1>2
<1> QED
  BY <1>3, PrefixIff

LEMMA PrefixAppend ==
  ASSUME NEW S, NEW s \in Seq(S), NEW x \in S
  PROVE  IsPrefix(s, Append(s, x))
<1> DEFINE t == Append(s, x)
<1>1. Len(s) \in Nat
  BY LenProperties
<1>2. t \in Seq(S) /\ Len(t) = Len(s) + 1 /\ \A i \in 1 .. Len(s) : t[i] = s[i]
  BY AppendProperties
<1> HIDE DEF t
<1>3. IsPrefix(s, t)
  BY <1>1, <1>2, PrefixIff
<1> QED
  BY <1>3 DEF t

LEMMA PrefixOfEmpty ==
  ASSUME NEW S, NEW s \in Seq(S), IsPrefix(s, <<>>)
  PROVE  s = <<>>
<1>1. <<>> \in Seq(S) /\ Len(<<>>) = 0 /\ Len(s) \in Nat
  BY EmptySeq, LenProperties
<1>2. Len(s) <= 0
  BY <1>1, PrefixIff
<1> QED
  BY <1>1, <1>2, EmptySeq

(* What a half flush left in the file is a prefix of all there was. *)
LEMMA PrefixHalf ==
  ASSUME NEW S, NEW s \in Seq(S), NEW b \in Seq(S), NEW k \in 0 .. Len(b)
  PROVE  /\ SubSeq(b, 1, k) \in Seq(S) /\ SubSeq(b, k + 1, Len(b)) \in Seq(S)
         /\ s \o SubSeq(b, 1, k) \in Seq(S)
         /\ IsPrefix(s \o SubSeq(b, 1, k), s \o b)
         /\ SubSeq(b, 1, k) \o SubSeq(b, k + 1, Len(b)) = b
<1> DEFINE u == SubSeq(b, 1, k)
           v == SubSeq(b, k + 1, Len(b))
<1>1. Len(s) \in Nat /\ Len(b) \in Nat /\ k \in Nat /\ k <= Len(b)
  BY LenProperties
<1>2. \A i \in 1 .. Len(b) : b[i] \in S
  BY ElementOfSeq
<1>3. u \in Seq(S) /\ Len(u) = k /\ \A i \in 1 .. k : u[i] = b[i]
  <2>1. \A i \in 1 .. k : b[i] \in S
    BY <1>1, <1>2
  <2> QED
    BY <1>1, <2>1, SubSeqProperties
<1>4. v \in Seq(S)
  <2>1. \A i \in k + 1 .. Len(b) : b[i] \in S
    BY <1>1, <1>2
  <2> QED
    BY <1>1, <2>1, SubSeqProperties
<1>5. u \o v = b
  <2>1. 1 \in 1 .. Len(b) + 1 /\ k \in 1 - 1 .. Len(b) /\ Len(b) \in k .. Len(b)
    BY <1>1
  <2>2. u \o v = SubSeq(b, 1, Len(b))
    BY <2>1, ConcatAdjacentSubSeq
  <2> QED
    BY <2>2, SubSeqFull
<1> HIDE DEF u, v
<1>6. /\ s \o u \in Seq(S) /\ Len(s \o u) = Len(s) + k
      /\ \A i \in 1 .. Len(s) + k : (s \o u)[i] = IF i <= Len(s) THEN s[i] ELSE u[i - Len(s)]
  BY <1>3, ConcatProperties
<1>7. /\ s \o b \in Seq(S) /\ Len(s \o b) = Len(s) + Len(b)
      /\ \A i \in 1 .. Len(s) + Len(b) : (s \o b)[i] = IF i <= Len(s) THEN s[i] ELSE b[i - Len(s)]
  BY ConcatProperties
<1>8. \A i \in 1 .. Len(s) + k : (s \o u)[i] = (s \o b)[i]
  BY <1>1, <1>3, <1>6, <1>7
<1>9. IsPrefix(s \o u, s \o b)
  <2> DEFINE p == s \o u
             w == s \o b
  <2>1. /\ p \in Seq(S) /\ w \in Seq(S) /\ Len(p) \in Nat /\ Len(p) <= Len(w)
        /\ \A i \in 1 .. Len(p) : p[i] = w[i]
    BY <1>1, <1>6, <1>7, <1>8
  <2> HIDE DEF p, w
  <2>2. IsPrefix(p, w)
    BY <2>1, PrefixIff
  <2> QED
    BY <2>2 DEF p, w
<1> QED
  BY <1>3, <1>4, <1>5, <1>6, <1>9 DEF u, v

Joined(x, y) == x \o y

LEMMA JoinedParts ==
  ASSUME NEW S, NEW x \in Seq(S), NEW y \in Seq(S)
  PROVE  /\ Joined(x, y) \in Seq(S) /\ Len(Joined(x, y)) = Len(x) + Len(y)
         /\ \A i \in 1 .. Len(x) + Len(y) :
              Joined(x, y)[i] = IF i <= Len(x) THEN x[i] ELSE y[i - Len(x)]
  BY ConcatProperties DEF Joined

LEMMA JoinedThree ==
  ASSUME NEW S, NEW x \in Seq(S), NEW y \in Seq(S), NEW z \in Seq(S)
  PROVE  Joined(Joined(x, y), z) = Joined(x, Joined(y, z))
<1> DEFINE u == Joined(x, y)
           b == Joined(y, z)
           l == Joined(u, z)
           r == Joined(x, b)
<1>0. Len(x) \in Nat /\ Len(y) \in Nat /\ Len(z) \in Nat
  BY LenProperties
<1>1. /\ u \in Seq(S) /\ Len(u) = Len(x) + Len(y)
      /\ \A i \in 1 .. Len(x) + Len(y) : u[i] = IF i <= Len(x) THEN x[i] ELSE y[i - Len(x)]
  BY JoinedParts
<1>2. /\ b \in Seq(S) /\ Len(b) = Len(y) + Len(z)
      /\ \A i \in 1 .. Len(y) + Len(z) : b[i] = IF i <= Len(y) THEN y[i] ELSE z[i - Len(y)]
  BY JoinedParts
<1> HIDE DEF u, b
<1>a. u \in Seq(S) /\ b \in Seq(S)
  BY <1>1, <1>2
<1>3. /\ l \in Seq(S) /\ Len(l) = Len(u) + Len(z)
      /\ \A i \in 1 .. Len(u) + Len(z) : l[i] = IF i <= Len(u) THEN u[i] ELSE z[i - Len(u)]
  BY <1>a, JoinedParts
<1>4. /\ r \in Seq(S) /\ Len(r) = Len(x) + Len(b)
      /\ \A i \in 1 .. Len(x) + Len(b) : r[i] = IF i <= Len(x) THEN x[i] ELSE b[i - Len(x)]
  BY <1>a, JoinedParts
<1> HIDE DEF l, r, u, b
<1>5. Len(l) = Len(r)
  BY <1>0, <1>1, <1>2, <1>3, <1>4
<1>6. ASSUME NEW i \in 1 .. Len(l) PROVE l[i] = r[i]
  <2>1. i \in 1 .. Len(u) + Len(z) /\ i \in 1 .. Len(x) + Len(b)
    BY <1>0, <1>1, <1>2, <1>3
  <2>2. l[i] = IF i <= Len(u) THEN u[i] ELSE z[i - Len(u)]
    BY <1>3, <2>1
  <2>3. r[i] = IF i <= Len(x) THEN x[i] ELSE b[i - Len(x)]
    BY <1>4, <2>1
  <2>4. CASE i <= Len(x)
    <3>1. i \in 1 .. Len(x) + Len(y) /\ i <= Len(u)
      BY <1>0, <1>1, <2>1, <2>4
    <3> QED
      BY <1>1, <2>2, <2>3, <2>4, <3>1
  <2>5. CASE ~ (i <= Len(x)) /\ i <= Len(u)
    <3>1. i \in 1 .. Len(x) + Len(y) /\ i - Len(x) \in 1 .. Len(y) + Len(z) /\ i - Len(x) <= Len(y)
      BY <1>0, <1>1, <2>1, <2>5
    <3>2. u[i] = y[i - Len(x)] /\ b[i - Len(x)] = y[i - Len(x)]
      BY <1>1, <1>2, <2>5, <3>1
    <3> QED
      BY <2>2, <2>3, <2>5, <3>2
  <2>6. CASE ~ (i <= Len(x)) /\ ~ (i <= Len(u))
    <3>1. /\ i - Len(x) \in 1 .. Len(y) + Len(z) /\ ~ (i - Len(x) <= Len(y))
          /\ (i - Len(x)) - Len(y) = i - Len(u)
      BY <1>0, <1>1, <1>3, <2>1, <2>6
    <3>2. b[i - Len(x)] = z[i - Len(u)]
      BY <1>2, <3>1
    <3> QED
      BY <2>2, <2>3, <2>6, <3>2
  <2> QED
    BY <2>4, <2>5, <2>6
<1>7. l = r
  BY <1>3, <1>4, <1>5, <1>6, SeqEqual
<1> QED
  BY <1>7 DEF l, r, u, b

(* A line put behind the buffer is behind all there is. *)
LEMMA AppendBehind ==
  ASSUME NEW S, NEW s \in Seq(S), NEW b \in Seq(S), NEW x \in S
  PROVE  /\ s \o Append(b, x) = Append(s \o b, x)
         /\ (s \o b) \o <<x>> = Append(s \o b, x)
         /\ <<x>> \in Seq(S)
<1>1. s \o b \in Seq(S)
  BY ConcatProperties
<1>2. Append(b, x) = b \o <<x>> /\ Append(s \o b, x) = (s \o b) \o <<x>>
  BY <1>1, AppendIsConcat
<1>3. <<x>> \in Seq(S)
  OBVIOUS
<1> QED
  BY <1>2, <1>3, ConcatAssociative

-----------------------------------------------------------------------------
(* The units of a queue. *)

Units(q) == Total([i \in 1 .. Len(q) |-> q[i].size])

LEMMA UnitsEmpty == Units(<<>>) = 0
<1> DEFINE f == [i \in 1 .. Len(<<>>) |-> <<>>[i].size]
<1>1. 1 .. Len(<<>>) = {} /\ DOMAIN f = {}
  OBVIOUS
<1> HIDE DEF f
<1>2. Total(f) = 0
  BY <1>1, FS_EmptySet, TotalZero
<1> QED
  BY <1>2 DEF f, Units

LEMMA UnitsNat ==
  ASSUME NEW C, \A c \in C : c.size \in Nat, NEW q \in Seq(C)
  PROVE  Units(q) \in Nat
<1>1. Len(q) \in Nat /\ \A i \in 1 .. Len(q) : q[i] \in C
  BY LenProperties, ElementOfSeq
<1> DEFINE f == [i \in 1 .. Len(q) |-> q[i].size]
           D == 1 .. Len(q)
<1>2. IsFiniteSet(D)
  BY <1>1, FS_Interval
<1>3. f \in [D -> Nat]
  BY <1>1
<1> HIDE DEF f, D
<1>4. Total(f) \in Nat
  BY <1>2, <1>3, TotalNat
<1> QED
  BY <1>4 DEF Units, f

LEMMA UnitsAppend ==
  ASSUME NEW C, \A c \in C : c.size \in Nat, NEW q \in Seq(C), NEW c \in C
  PROVE  Units(Append(q, c)) = Units(q) + c.size
<1> DEFINE n == Len(q)
           p == Append(q, c)
           f == [i \in 1 .. n |-> q[i].size]
           g == [i \in 1 .. Len(p) |-> p[i].size]
<1>1. n \in Nat /\ Len(p) = n + 1 /\ p[n + 1] = c /\ \A i \in 1 .. n : p[i] = q[i]
  BY AppendProperties, LenProperties
<1>2. \A i \in 1 .. n : q[i] \in C
  BY ElementOfSeq
<1>3. /\ DOMAIN f = 1 .. n /\ DOMAIN g = 1 .. n + 1
      /\ \A i \in 1 .. n : f[i] = q[i].size /\ f[i] \in Int /\ g[i] = f[i]
      /\ g[n + 1] = c.size
  BY <1>1, <1>2
<1>4. IsFiniteSet(1 .. n) /\ IsFiniteSet(1 .. n + 1)
  BY <1>1, FS_Interval
<1>5. (1 .. n + 1) \ {n + 1} = 1 .. n /\ n + 1 \in 1 .. n + 1 /\ c.size \in Int
  BY <1>1
<1>6. \A i \in 1 .. n + 1 : g[i] \in Int
  BY <1>1, <1>3, <1>5
<1> HIDE DEF f, g
<1>7. Total(g) = g[n + 1] + SumOver(g, 1 .. n)
  BY <1>3, <1>4, <1>5, <1>6, TotalDef, SumTake
<1>8. SumOver(g, 1 .. n) = SumOver(f, 1 .. n) /\ SumOver(f, 1 .. n) \in Int
  BY <1>3, <1>4, SumSame, SumInt
<1>9. Total(g) = Total(f) + c.size
  BY <1>3, <1>5, <1>7, <1>8, TotalDef
<1> QED
  BY <1>9 DEF f, g, Units

(* Summands numbered one further: by the least number that would differ. *)
Firsts(k) == 1 .. k

LEMMA FirstsStep ==
  ASSUME NEW k \in Nat
  PROVE  /\ IsFiniteSet(Firsts(k))
         /\ k = 0 => Firsts(k) = {}
         /\ k # 0 => k \in Firsts(k) /\ Firsts(k) \ {k} = Firsts(k - 1)
<1>1. IsFiniteSet(1 .. k)
  BY FS_Interval
<1> QED
  BY <1>1 DEF Firsts

LEMMA SumFirsts ==
  ASSUME NEW f, NEW k \in Nat, \A i \in 1 .. k : f[i] \in Int
  PROVE  /\ SumOver(f, Firsts(k)) \in Int
         /\ k = 0 => SumOver(f, Firsts(k)) = 0
         /\ k # 0 => SumOver(f, Firsts(k)) = f[k] + SumOver(f, Firsts(k - 1))
<1> DEFINE K == Firsts(k)
<1>1. IsFiniteSet(K) /\ \A i \in K : f[i] \in Int
  BY FirstsStep DEF Firsts
<1>2. (k = 0 => K = {}) /\ (k # 0 => k \in K /\ K \ {k} = Firsts(k - 1))
  BY FirstsStep
<1> HIDE DEF K
<1>3. SumOver(f, K) \in Int
  BY <1>1, SumInt
<1>4. k = 0 => SumOver(f, K) = 0
  BY <1>1, <1>2, SumEq
<1>5. k # 0 => SumOver(f, K) = f[k] + SumOver(f, K \ {k})
  BY <1>1, <1>2, SumTake
<1> QED
  BY <1>2, <1>3, <1>4, <1>5 DEF K

LEMMA SumShift ==
  ASSUME NEW f, NEW g, NEW n \in Nat,
         \A i \in 1 .. n : f[i] \in Int, \A i \in 1 .. n - 1 : g[i] = f[i + 1]
  PROVE  \A k \in 1 .. n : SumOver(f, Firsts(k)) = f[1] + SumOver(g, Firsts(k - 1))
<1> DEFINE B == {k \in 1 .. n : SumOver(f, Firsts(k)) # f[1] + SumOver(g, Firsts(k - 1))}
<1>a. ASSUME B # {} PROVE FALSE
  <2>0. B \in SUBSET Nat
    OBVIOUS
  <2>1. PICK k \in B : \A m \in B : k <= m
    <3> HIDE DEF B
    <3> QED
      BY <1>a, <2>0, Least
  <2>2. k \in 1 .. n /\ SumOver(f, Firsts(k)) # f[1] + SumOver(g, Firsts(k - 1))
    OBVIOUS
  <2>3. k \in Nat /\ k # 0 /\ k - 1 \in Nat /\ \A i \in 1 .. k : f[i] \in Int
    BY <2>2
  <2>4. \A i \in 1 .. k - 1 : f[i] \in Int /\ g[i] \in Int
    BY <2>2
  <2>5. SumOver(f, Firsts(k)) = f[k] + SumOver(f, Firsts(k - 1))
    BY <2>3, SumFirsts
  <2>6. CASE k = 1
    <3>1. SumOver(f, Firsts(0)) = 0 /\ SumOver(g, Firsts(0)) = 0
      <4>1. \A i \in 1 .. 0 : f[i] \in Int /\ g[i] \in Int
        OBVIOUS
      <4> QED
        BY <4>1, SumFirsts
    <3>2. k - 1 = 0 /\ f[k] \in Int
      BY <2>3, <2>6
    <3> QED
      BY <2>2, <2>5, <2>6, <3>1, <3>2
  <2>7. CASE k # 1
    <3>1. k - 1 \in 1 .. n /\ ~ (k <= k - 1) /\ k - 1 # 0
      BY <2>2, <2>7
    <3>2. k - 1 \notin B
      BY <2>1, <3>1
    <3>3. SumOver(f, Firsts(k - 1)) = f[1] + SumOver(g, Firsts((k - 1) - 1))
      BY <3>1, <3>2
    <3>4. SumOver(g, Firsts(k - 1)) = g[k - 1] + SumOver(g, Firsts((k - 1) - 1))
      BY <2>3, <2>4, <3>1, SumFirsts
    <3>5. g[k - 1] = f[k] /\ f[k] \in Int /\ f[1] \in Int
      BY <2>2, <3>1
    <3>6. (k - 1) - 1 \in Nat /\ \A i \in 1 .. (k - 1) - 1 : g[i] \in Int
      BY <2>2, <2>4, <3>1
    <3>7. SumOver(g, Firsts((k - 1) - 1)) \in Int
      BY <3>6, SumFirsts
    <3> QED
      BY <2>2, <2>5, <3>3, <3>4, <3>5, <3>7
  <2> QED
    BY <2>6, <2>7
<1> QED
  BY <1>a

LEMMA UnitsTail ==
  ASSUME NEW C, \A c \in C : c.size \in Nat, NEW q \in Seq(C), q # <<>>
  PROVE  Units(q) = Head(q).size + Units(Tail(q))
<1> DEFINE n == Len(q)
           p == Tail(q)
           f == [i \in 1 .. n |-> q[i].size]
           g == [i \in 1 .. Len(p) |-> p[i].size]
<1>1. n \in Nat \ {0} /\ Len(p) = n - 1 /\ Head(q) = q[1] /\ \A i \in 1 .. n - 1 : p[i] = q[i + 1]
  BY HeadTailProperties, LenProperties, EmptySeq
<1>2. \A i \in 1 .. n : q[i] \in C
  BY ElementOfSeq
<1>3. /\ DOMAIN f = 1 .. n /\ DOMAIN g = 1 .. n - 1
      /\ \A i \in 1 .. n : f[i] = q[i].size /\ f[i] \in Int
      /\ \A i \in 1 .. n - 1 : g[i] = f[i + 1]
  BY <1>1, <1>2
<1>4. n \in 1 .. n /\ n \in Nat
  BY <1>1
<1> HIDE DEF f, g, p, n
<1>5. \A k \in 1 .. n : SumOver(f, Firsts(k)) = f[1] + SumOver(g, Firsts(k - 1))
  BY <1>3, <1>4, SumShift
<1>6. SumOver(f, Firsts(n)) = f[1] + SumOver(g, Firsts(n - 1))
  BY <1>4, <1>5
<1>7. DOMAIN f = Firsts(n) /\ DOMAIN g = Firsts(n - 1)
  BY <1>3 DEF Firsts
<1>8. Total(f) = f[1] + Total(g)
  BY <1>6, <1>7, TotalDef
<1>9. f[1] = Head(q).size
  BY <1>1, <1>3
<1> QED
  BY <1>8, <1>9 DEF f, g, p, n, Units

-----------------------------------------------------------------------------
(* What a command makes of a disk. *)

Disks ==
  [open : Segs \union {None}, files : SUBSET Segs, lines : [Segs -> Seq(Entries)],
   states : [Segs -> Sizes \union {0}], whole : SUBSET Segs]

LEMMA SegsFinite == IsFiniteSet(Segs) /\ Segs \subseteq Nat \ {0}
<1>1. MaxSegment \in Nat
  BY WriterAssumption
<1> QED
  BY <1>1, FS_Interval DEF Segs

LEMMA CommandParts ==
  ASSUME NEW c \in Commands
  PROVE  /\ c.op \in {"begin", "state", "line", "remove_text", "remove_state", "end"}
         /\ c.op \in {"begin", "state", "remove_text", "remove_state"} => c.seg \in Segs
         /\ c.op = "state" => c.size \in Sizes
         /\ c.op = "line" => c.line \in Entries
         /\ c.size \in Nat \ {0}
<1>0. Sizes \subseteq Nat \ {0}
  BY WriterAssumption
<1>1. CASE c \in [op : {"begin", "remove_text", "remove_state"}, seg : Segs, size : {1}]
  BY <1>1
<1>2. CASE c \in [op : {"state"}, seg : Segs, size : Sizes]
  BY <1>0, <1>2
<1>3. CASE c \in [op : {"line"}, line : Entries, size : {1}]
  BY <1>3
<1>4. CASE c \in [op : {"end"}, size : {1}]
  BY <1>4
<1> QED
  BY <1>1, <1>2, <1>3, <1>4 DEF Commands

LEMMA CommandsMade ==
  /\ \A n \in Segs : Begin(n) \in Commands /\ RemoveText(n) \in Commands /\ RemoveState(n) \in Commands
  /\ \A n \in Segs, size \in Sizes : Checkpoint(n, size) \in Commands
  /\ \A l \in Entries : RecordLine(l) \in Commands
  /\ End \in Commands
  BY DEF Commands, Begin, RemoveText, RemoveState, Checkpoint, RecordLine, End

Disk(o, f, l, s, w) == [open |-> o, files |-> f, lines |-> l, states |-> s, whole |-> w]

LEMMA DiskParts ==
  ASSUME NEW d \in Disks
  PROVE  /\ d = Disk(d.open, d.files, d.lines, d.states, d.whole)
         /\ d.open \in Segs \union {None} /\ d.files \in SUBSET Segs /\ d.whole \in SUBSET Segs
         /\ d.lines \in [Segs -> Seq(Entries)] /\ d.states \in [Segs -> Sizes \union {0}]
  BY DEF Disks, Disk

LEMMA DiskMade ==
  ASSUME NEW o \in Segs \union {None}, NEW f \in SUBSET Segs, NEW l \in [Segs -> Seq(Entries)],
         NEW s \in [Segs -> Sizes \union {0}], NEW w \in SUBSET Segs
  PROVE  Disk(o, f, l, s, w) \in Disks
  BY DEF Disks, Disk

LEMMA DiskFields ==
  ASSUME NEW o, NEW f, NEW l, NEW s, NEW w
  PROVE  /\ Disk(o, f, l, s, w).open = o /\ Disk(o, f, l, s, w).files = f
         /\ Disk(o, f, l, s, w).lines = l /\ Disk(o, f, l, s, w).states = s
         /\ Disk(o, f, l, s, w).whole = w
  BY DEF Disk

LEMMA ApplyParts ==
  ASSUME NEW c \in Commands, NEW d \in Disks
  PROVE  /\ c.op = "begin" =>
              Apply(c, d) = Disk(c.seg, d.files \union {c.seg}, [d.lines EXCEPT ![c.seg] = <<>>],
                                 d.states, d.whole)
         /\ c.op = "state" =>
              Apply(c, d) = Disk(d.open, d.files, d.lines, [d.states EXCEPT ![c.seg] = c.size],
                                 d.whole \union {c.seg})
         /\ c.op = "line" =>
              Apply(c, d) = Disk(d.open, d.files,
                                 [d.lines EXCEPT ![d.open] = Append(d.lines[d.open], c.line)],
                                 d.states, d.whole)
         /\ c.op = "remove_text" =>
              Apply(c, d) = Disk(d.open, d.files \ {c.seg}, [d.lines EXCEPT ![c.seg] = <<>>],
                                 d.states, d.whole)
         /\ c.op = "remove_state" =>
              Apply(c, d) = Disk(d.open, d.files, d.lines, [d.states EXCEPT ![c.seg] = 0],
                                 d.whole \ {c.seg})
         /\ c.op = "end" => Apply(c, d) = Disk(None, d.files, d.lines, d.states, d.whole)
<1>1. CASE c.op = "begin"
  BY <1>1 DEF Apply, Disks, Disk
<1>2. CASE c.op = "state"
  BY <1>2 DEF Apply, Disks, Disk
<1>3. CASE c.op = "line"
  <2>1. Apply(c, d) = [d EXCEPT !.lines[d.open] = Append(@, c.line)]
    BY <1>3 DEF Apply
  <2> QED
    BY <1>3, <2>1 DEF Disks, Disk
<1>4. CASE c.op = "remove_text"
  BY <1>4 DEF Apply, Disks, Disk
<1>5. CASE c.op = "remove_state"
  BY <1>5 DEF Apply, Disks, Disk
<1>6. CASE c.op = "end"
  BY <1>6 DEF Apply, Disks, Disk
<1> QED
  BY <1>1, <1>2, <1>3, <1>4, <1>5, <1>6, CommandParts

LEMMA ApplyFields ==
  ASSUME NEW c \in Commands, NEW d \in Disks
  PROVE  /\ c.op = "begin" =>
              /\ Apply(c, d).open = c.seg /\ Apply(c, d).files = d.files \union {c.seg}
              /\ Apply(c, d).lines = [d.lines EXCEPT ![c.seg] = <<>>]
              /\ Apply(c, d).states = d.states
              /\ Apply(c, d).whole = d.whole
         /\ c.op = "state" =>
              /\ Apply(c, d).open = d.open /\ Apply(c, d).files = d.files
              /\ Apply(c, d).lines = d.lines
              /\ Apply(c, d).states = [d.states EXCEPT ![c.seg] = c.size]
              /\ Apply(c, d).whole = d.whole \union {c.seg}
         /\ c.op = "line" =>
              /\ Apply(c, d).open = d.open /\ Apply(c, d).files = d.files
              /\ Apply(c, d).lines = [d.lines EXCEPT ![d.open] = Append(d.lines[d.open], c.line)]
              /\ Apply(c, d).states = d.states
              /\ Apply(c, d).whole = d.whole
         /\ c.op = "remove_text" =>
              /\ Apply(c, d).open = d.open /\ Apply(c, d).files = d.files \ {c.seg}
              /\ Apply(c, d).lines = [d.lines EXCEPT ![c.seg] = <<>>]
              /\ Apply(c, d).states = d.states
              /\ Apply(c, d).whole = d.whole
         /\ c.op = "remove_state" =>
              /\ Apply(c, d).open = d.open /\ Apply(c, d).files = d.files
              /\ Apply(c, d).lines = d.lines
              /\ Apply(c, d).states = [d.states EXCEPT ![c.seg] = 0]
              /\ Apply(c, d).whole = d.whole \ {c.seg}
         /\ c.op = "end" =>
              /\ Apply(c, d).open = None /\ Apply(c, d).files = d.files
              /\ Apply(c, d).lines = d.lines
              /\ Apply(c, d).states = d.states
              /\ Apply(c, d).whole = d.whole
<1>1. CASE c.op = "begin"
  <2>1. Apply(c, d) = Disk(c.seg, d.files \union {c.seg},
                           [d.lines EXCEPT ![c.seg] = <<>>],
                           d.states, d.whole)
    BY <1>1, ApplyParts
  <2> QED
    BY <1>1, <2>1, DiskFields
<1>2. CASE c.op = "state"
  <2>1. Apply(c, d) = Disk(d.open, d.files,
                           d.lines,
                           [d.states EXCEPT ![c.seg] = c.size], d.whole \union {c.seg})
    BY <1>2, ApplyParts
  <2> QED
    BY <1>2, <2>1, DiskFields
<1>3. CASE c.op = "line"
  <2>1. Apply(c, d) = Disk(d.open, d.files,
                           [d.lines EXCEPT ![d.open] = Append(d.lines[d.open], c.line)],
                           d.states, d.whole)
    BY <1>3, ApplyParts
  <2> QED
    BY <1>3, <2>1, DiskFields
<1>4. CASE c.op = "remove_text"
  <2>1. Apply(c, d) = Disk(d.open, d.files \ {c.seg},
                           [d.lines EXCEPT ![c.seg] = <<>>],
                           d.states, d.whole)
    BY <1>4, ApplyParts
  <2> QED
    BY <1>4, <2>1, DiskFields
<1>5. CASE c.op = "remove_state"
  <2>1. Apply(c, d) = Disk(d.open, d.files,
                           d.lines,
                           [d.states EXCEPT ![c.seg] = 0], d.whole \ {c.seg})
    BY <1>5, ApplyParts
  <2> QED
    BY <1>5, <2>1, DiskFields
<1>6. CASE c.op = "end"
  <2>1. Apply(c, d) = Disk(None, d.files,
                           d.lines,
                           d.states, d.whole)
    BY <1>6, ApplyParts
  <2> QED
    BY <1>6, <2>1, DiskFields
<1> QED
  BY <1>1, <1>2, <1>3, <1>4, <1>5, <1>6, CommandParts

LEMMA ApplyType ==
  ASSUME NEW c \in Commands, NEW d \in Disks
  PROVE  Apply(c, d) \in Disks
<1>0. /\ d.open \in Segs \union {None} /\ d.files \in SUBSET Segs /\ d.whole \in SUBSET Segs
      /\ d.lines \in [Segs -> Seq(Entries)] /\ d.states \in [Segs -> Sizes \union {0}]
  BY DiskParts
<1>e. <<>> \in Seq(Entries)
  OBVIOUS
<1>1. CASE c.op = "begin"
  <2> DEFINE f == d.files \union {c.seg}
             l == [d.lines EXCEPT ![c.seg] = <<>>]
  <2>1. Apply(c, d) = Disk(c.seg, f, l, d.states, d.whole)
    BY <1>1, ApplyParts
  <2>2. c.seg \in Segs
    BY <1>1, CommandParts
  <2>3. f \in SUBSET Segs
    BY <1>0, <1>e, <2>2
  <2>4. l \in [Segs -> Seq(Entries)]
    BY <1>0, <1>e, <2>2
  <2> HIDE DEF f, l
  <2>5. Disk(c.seg, f, l, d.states, d.whole) \in Disks
    BY <1>0, <2>2, <2>3, <2>4, DiskMade
  <2> QED
    BY <2>1, <2>5
<1>2. CASE c.op = "state"
  <2> DEFINE s == [d.states EXCEPT ![c.seg] = c.size]
             w == d.whole \union {c.seg}
  <2>1. Apply(c, d) = Disk(d.open, d.files, d.lines, s, w)
    BY <1>2, ApplyParts
  <2>2. c.seg \in Segs /\ c.size \in Sizes
    BY <1>2, CommandParts
  <2>3. s \in [Segs -> Sizes \union {0}]
    BY <1>0, <1>e, <2>2
  <2>4. w \in SUBSET Segs
    BY <1>0, <1>e, <2>2
  <2> HIDE DEF s, w
  <2>5. Disk(d.open, d.files, d.lines, s, w) \in Disks
    BY <1>0, <2>3, <2>4, DiskMade
  <2> QED
    BY <2>1, <2>5
<1>3. CASE c.op = "line"
  <2> DEFINE l == [d.lines EXCEPT ![d.open] = Append(d.lines[d.open], c.line)]
  <2>1. Apply(c, d) = Disk(d.open, d.files, l, d.states, d.whole)
    BY <1>3, ApplyParts
  <2>2. d.open \in Segs => Append(d.lines[d.open], c.line) \in Seq(Entries)
    BY <1>0, <1>3, CommandParts, AppendProperties
  <2>3. l \in [Segs -> Seq(Entries)]
    BY <1>0, <1>e, <2>2
  <2> HIDE DEF l
  <2>4. Disk(d.open, d.files, l, d.states, d.whole) \in Disks
    BY <1>0, <2>3, DiskMade
  <2> QED
    BY <2>1, <2>4
<1>4. CASE c.op = "remove_text"
  <2> DEFINE f == d.files \ {c.seg}
             l == [d.lines EXCEPT ![c.seg] = <<>>]
  <2>1. Apply(c, d) = Disk(d.open, f, l, d.states, d.whole)
    BY <1>4, ApplyParts
  <2>2. c.seg \in Segs
    BY <1>4, CommandParts
  <2>3. f \in SUBSET Segs
    BY <1>0, <1>e, <2>2
  <2>4. l \in [Segs -> Seq(Entries)]
    BY <1>0, <1>e, <2>2
  <2> HIDE DEF f, l
  <2>5. Disk(d.open, f, l, d.states, d.whole) \in Disks
    BY <1>0, <2>3, <2>4, DiskMade
  <2> QED
    BY <2>1, <2>5
<1>5. CASE c.op = "remove_state"
  <2> DEFINE s == [d.states EXCEPT ![c.seg] = 0]
             w == d.whole \ {c.seg}
  <2>1. Apply(c, d) = Disk(d.open, d.files, d.lines, s, w)
    BY <1>5, ApplyParts
  <2>2. c.seg \in Segs
    BY <1>5, CommandParts
  <2>3. s \in [Segs -> Sizes \union {0}]
    BY <1>0, <1>e, <2>2
  <2>4. w \in SUBSET Segs
    BY <1>0, <1>e, <2>2
  <2> HIDE DEF s, w
  <2>5. Disk(d.open, d.files, d.lines, s, w) \in Disks
    BY <1>0, <2>3, <2>4, DiskMade
  <2> QED
    BY <2>1, <2>5
<1>6. CASE c.op = "end"
  <2>1. Apply(c, d) = Disk(None, d.files, d.lines, d.states, d.whole)
    BY <1>6, ApplyParts
  <2>2. Disk(None, d.files, d.lines, d.states, d.whole) \in Disks
    BY <1>0, DiskMade
  <2> QED
    BY <2>1, <2>2
<1> QED
  BY <1>1, <1>2, <1>3, <1>4, <1>5, <1>6, CommandParts

Words == [Segs -> Seq(Entries)]

LEMMA StatesTotal ==
  ASSUME NEW states_ \in [Segs -> Sizes \union {0}]
  PROVE  /\ states_ \in [Segs -> Nat]
         /\ Total(states_) \in Nat
         /\ \A n \in Segs : states_[n] \in Nat /\ states_[n] <= Total(states_)
         /\ \A n \in Segs, v \in Nat : Total([states_ EXCEPT ![n] = v]) = Total(states_) - states_[n] + v
<1>1. states_ \in [Segs -> Nat]
  <2>1. Sizes \union {0} \subseteq Nat
    BY WriterAssumption
  <2> QED
    BY <2>1
<1> QED
  BY <1>1, SegsFinite, TotalNat, TotalAtLeast, TotalExcept

(* A command carried out on the disk it is for leaves one that keeps the      *)
(* promises.                                                                  *)
LEMMA ApplySound ==
  ASSUME NEW c \in Commands, NEW d \in Disks, NEW words \in Words,
         Sound(d, words), Ready(c, d, words)
  PROVE  Sound(Apply(c, d), words)
<1> DEFINE e == Apply(c, d)
<1>0. e \in Disks
  BY ApplyType
<1>1. d.files \subseteq Nat /\ Segments \in Nat \ {0}
  BY SegsFinite, ReplayAssumption DEF Disks
<1>p. \A n \in Segs : d.lines[n] \in Seq(Entries) /\ words[n] \in Seq(Entries) /\ IsPrefix(<<>>, words[n])
  BY PrefixEmpty DEF Disks, Words
<1>2. CASE c.op = "begin"
  <2>1. e.files = d.files \union {c.seg} /\ e.states = d.states /\ e.whole = d.whole /\ c.seg \in Segs
    BY <1>2, ApplyFields, CommandParts
  <2>2. \A n \in Segs : e.lines[n] = IF n = c.seg THEN <<>> ELSE d.lines[n]
    <3>1. e.lines = [d.lines EXCEPT ![c.seg] = <<>>] /\ d.lines \in [Segs -> Seq(Entries)]
      BY <1>2, ApplyFields, DiskParts
    <3> HIDE DEF e
    <3> QED
      BY <2>1, <3>1
  <2>3. \A n \in d.files : n < c.seg /\ c.seg - n < Segments
    BY <1>2 DEF Ready
  <2>4. \A m, n \in e.files : n - m < Segments
    <3>1. c.seg \in Nat /\ \A m, n \in d.files : n - m < Segments
      BY <2>1, SegsFinite DEF Sound
    <3> HIDE DEF e
    <3>2. TAKE m, n \in e.files
    <3>3. (m \in d.files \/ m = c.seg) /\ (n \in d.files \/ n = c.seg)
      BY <2>1
    <3> QED
      BY <1>1, <2>3, <3>1, <3>3
  <2> QED
    BY <1>p, <2>1, <2>2, <2>4 DEF Sound
<1>3. CASE c.op = "state"
  <2>1. /\ e.files = d.files /\ e.lines = d.lines /\ e.whole = d.whole \union {c.seg}
        /\ c.seg \in Segs /\ c.size \in Nat
        /\ e.states = [d.states EXCEPT ![c.seg] = c.size]
    BY <1>3, ApplyFields, CommandParts
  <2>2. d.states \in [Segs -> Sizes \union {0}]
    BY DEF Disks
  <2>3. /\ d.states[c.seg] = 0
        /\ (\A n \in Segs : d.states[n] = 0) \/ Total(d.states) + c.size <= Limit
    BY <1>3 DEF Ready
  <2>4. Total(e.states) = Total(d.states) - d.states[c.seg] + c.size /\ Total(d.states) \in Nat
    BY <2>1, <2>2, StatesTotal
  <2>5. \/ \A m, n \in Segs : (e.states[m] # 0 /\ e.states[n] # 0) => m = n
        \/ Total(e.states) <= Limit
    BY <2>1, <2>2, <2>3, <2>4
  <2> QED
    BY <2>1, <2>5 DEF Sound
<1>4. CASE c.op = "line"
  <2>1. /\ e.files = d.files /\ e.states = d.states /\ e.whole = d.whole
        /\ d.open \in d.files /\ d.open \in d.whole /\ d.open \in Segs
    BY <1>4, ApplyFields, CommandParts, DiskParts DEF Ready
  <2>2. \A n \in Segs : e.lines[n] = IF n = d.open THEN Append(d.lines[d.open], c.line) ELSE d.lines[n]
    <3>1. /\ e.lines = [d.lines EXCEPT ![d.open] = Append(d.lines[d.open], c.line)]
          /\ d.lines \in [Segs -> Seq(Entries)]
      BY <1>4, ApplyFields, DiskParts
    <3> HIDE DEF e
    <3> QED
      BY <2>1, <3>1
  <2>3. IsPrefix(Append(d.lines[d.open], c.line), words[d.open])
    BY <1>4 DEF Ready
  <2> QED
    BY <2>1, <2>2, <2>3 DEF Sound
<1>5. CASE c.op = "remove_text"
  <2>1. e.files = d.files \ {c.seg} /\ e.states = d.states /\ e.whole = d.whole /\ c.seg \in Segs
    BY <1>5, ApplyFields, CommandParts
  <2>2. \A n \in Segs : e.lines[n] = IF n = c.seg THEN <<>> ELSE d.lines[n]
    <3>1. e.lines = [d.lines EXCEPT ![c.seg] = <<>>] /\ d.lines \in [Segs -> Seq(Entries)]
      BY <1>5, ApplyFields, DiskParts
    <3> HIDE DEF e
    <3> QED
      BY <2>1, <3>1
  <2> QED
    BY <1>p, <2>1, <2>2 DEF Sound
<1>6. CASE c.op = "remove_state"
  <2>1. /\ e.files = d.files /\ e.lines = d.lines /\ e.whole = d.whole \ {c.seg}
        /\ c.seg \in Segs /\ c.seg \notin d.files
        /\ e.states = [d.states EXCEPT ![c.seg] = 0]
    BY <1>6, ApplyFields, CommandParts DEF Ready
  <2>2. d.states \in [Segs -> Sizes \union {0}]
    BY DEF Disks
  <2>4. /\ Total(e.states) = Total(d.states) - d.states[c.seg] + 0
        /\ Total(d.states) \in Nat /\ d.states[c.seg] \in Nat /\ Limit \in Nat
    BY <2>1, <2>2, StatesTotal, ReplayAssumption
  <2>5. \/ \A m, n \in Segs : (e.states[m] # 0 /\ e.states[n] # 0) => m = n
        \/ Total(e.states) <= Limit
    <3>1. CASE \A m, n \in Segs : (d.states[m] # 0 /\ d.states[n] # 0) => m = n
      BY <2>1, <2>2, <3>1
    <3>2. CASE Total(d.states) <= Limit
      BY <2>4, <3>2
    <3> QED
      BY <3>1, <3>2 DEF Sound
  <2> QED
    BY <2>1, <2>5 DEF Sound
<1>7. CASE c.op = "end"
  <2>1. e.files = d.files /\ e.lines = d.lines /\ e.whole = d.whole /\ e.states = d.states
    BY <1>7, ApplyFields
  <2> QED
    BY <2>1 DEF Sound
<1> QED
  BY <1>2, <1>3, <1>4, <1>5, <1>6, <1>7, CommandParts

(* What was said only grows: the promises about it stay kept. *)
Grows(words, more) == \A n \in Segs : IsPrefix(words[n], more[n])

LEMMA SoundGrows ==
  ASSUME NEW d \in Disks, NEW words \in Words, NEW more \in Words, Grows(words, more),
         Sound(d, words)
  PROVE  Sound(d, more)
<1>1. \A n \in Segs : IsPrefix(d.lines[n], more[n])
  BY PrefixOfPrefix DEF Grows, Sound, Disks, Words
<1> QED
  BY <1>1 DEF Sound

LEMMA ReadyGrows ==
  ASSUME NEW c \in Commands, NEW d \in Disks, NEW words \in Words, NEW more \in Words,
         Grows(words, more), Ready(c, d, words)
  PROVE  Ready(c, d, more)
<1>1. CASE c.op = "line"
  <2>1. d.open \in Segs /\ c.line \in Entries /\ IsPrefix(Append(d.lines[d.open], c.line), words[d.open])
    BY <1>1, CommandParts DEF Ready, Disks
  <2>2. Append(d.lines[d.open], c.line) \in Seq(Entries)
    BY <2>1, AppendProperties DEF Disks
  <2>3. IsPrefix(Append(d.lines[d.open], c.line), more[d.open])
    BY <2>1, <2>2, PrefixOfPrefix DEF Grows, Words
  <2> QED
    BY <1>1, <2>3 DEF Ready
<1>2. CASE c.op # "line"
  BY <1>2 DEF Ready
<1> QED
  BY <1>1, <1>2

(* A failed write leaves less of a text, of the same segments. *)
LEMMA SoundShrinks ==
  ASSUME NEW d \in Disks, NEW words \in Words, Sound(d, words), NEW e \in Disks,
         e.files = d.files, e.states = d.states, e.whole = d.whole,
         \A n \in Segs : IsPrefix(e.lines[n], d.lines[n])
  PROVE  Sound(e, words)
<1>1. \A n \in Segs : IsPrefix(e.lines[n], words[n])
  BY PrefixOfPrefix DEF Sound, Disks, Words
<1>2. \A n \in Segs : d.lines[n] = <<>> => e.lines[n] = <<>>
  BY PrefixOfEmpty DEF Disks
<1> QED
  BY <1>1, <1>2 DEF Sound

-----------------------------------------------------------------------------
(* A queue whose every command finds the disk it is for. *)

Keeps(d, q, words) ==
  /\ \A i \in 0 .. Len(q) : Sound(Ahead(d, q)[i], words)
  /\ \A i \in 1 .. Len(q) : Ready(q[i], Ahead(d, q)[i - 1], words)
Final(d, q) == Ahead(d, q)[Len(q)]

LEMMA AheadType ==
  ASSUME NEW d \in Disks, NEW q \in Seq(Commands)
  PROVE  \A i \in 0 .. Len(q) : Ahead(d, q)[i] \in Disks
<1> DEFINE a == Ahead(d, q)
           B == {i \in 0 .. Len(q) : a[i] \notin Disks}
<1>1. Len(q) \in Nat /\ \A i \in 1 .. Len(q) : q[i] \in Commands
  BY LenProperties, ElementOfSeq
<1>2. a[0] = d /\ \A i \in 1 .. Len(q) : a[i] = Apply(q[i], a[i - 1])
  BY <1>1, AheadAt
<1> HIDE DEF a
<1>3. ASSUME B # {} PROVE FALSE
  <2>1. B \in SUBSET Nat
    BY <1>1
  <2>2. PICK k \in B : \A m \in B : k <= m
    <3> HIDE DEF B
    <3> QED
      BY <1>3, <2>1, Least
  <2>3. k \in 1 .. Len(q) /\ a[k] \notin Disks
    BY <1>1, <1>2
  <2>4. k - 1 \in 0 .. Len(q) /\ ~ (k <= k - 1)
    BY <1>1, <2>3
  <2>5. a[k - 1] \in Disks
    BY <2>2, <2>4
  <2>6. Apply(q[k], a[k - 1]) \in Disks
    BY <1>1, <2>3, <2>5, ApplyType
  <2> QED
    BY <1>2, <2>3, <2>6
<1> QED
  BY <1>3 DEF a

LEMMA KeepsNow ==
  ASSUME NEW d \in Disks, NEW q \in Seq(Commands), NEW words, Keeps(d, q, words)
  PROVE  Sound(d, words)
<1>1. Len(q) \in Nat
  BY LenProperties
<1>2. Ahead(d, q)[0] = d /\ 0 \in 0 .. Len(q)
  BY <1>1, AheadAt
<1> QED
  BY <1>2 DEF Keeps

LEMMA KeepsTail ==
  ASSUME NEW d \in Disks, NEW q \in Seq(Commands), q # <<>>, NEW words, Keeps(d, q, words)
  PROVE  /\ Head(q) \in Commands /\ Tail(q) \in Seq(Commands)
         /\ Ready(Head(q), d, words)
         /\ Apply(Head(q), d) \in Disks
         /\ Keeps(Apply(Head(q), d), Tail(q), words)
         /\ Final(Apply(Head(q), d), Tail(q)) = Final(d, q)
<1> DEFINE n == Len(q)
           p == Tail(q)
           e == Apply(Head(q), d)
           a == Ahead(d, q)
           b == Ahead(e, p)
<1>1. /\ n \in Nat \ {0} /\ Head(q) = q[1] /\ Head(q) \in Commands
      /\ p \in Seq(Commands) /\ Len(p) = n - 1
      /\ \A i \in 1 .. n - 1 : p[i] = q[i + 1]
  BY HeadTailProperties, LenProperties, EmptySeq
<1>2. \A i \in 0 .. n - 1 : b[i] = a[i + 1]
  BY AheadTail
<1>3. a[0] = d
  BY <1>1, AheadAt
<1>4. e \in Disks
  BY <1>1, ApplyType
<1>5. /\ \A i \in 0 .. n : Sound(a[i], words)
      /\ \A i \in 1 .. n : Ready(q[i], a[i - 1], words)
  BY DEF Keeps
<1> HIDE DEF a, b, e, p, n
<1>6. Ready(Head(q), d, words)
  <2>1. 1 \in 1 .. n /\ 1 - 1 = 0
    BY <1>1
  <2>2. Ready(q[1], a[1 - 1], words)
    BY <1>5, <2>1
  <2> QED
    BY <1>1, <1>3, <2>1, <2>2
<1>7. \A i \in 0 .. Len(p) : Sound(b[i], words)
  <2> SUFFICES ASSUME NEW i \in 0 .. Len(p) PROVE Sound(b[i], words)
    OBVIOUS
  <2>1. i \in 0 .. n - 1 /\ i + 1 \in 0 .. n
    BY <1>1
  <2> QED
    BY <1>2, <1>5, <2>1
<1>8. \A i \in 1 .. Len(p) : Ready(p[i], b[i - 1], words)
  <2> SUFFICES ASSUME NEW i \in 1 .. Len(p) PROVE Ready(p[i], b[i - 1], words)
    OBVIOUS
  <2>1. i \in 1 .. n - 1 /\ i + 1 \in 1 .. n /\ i - 1 \in 0 .. n - 1 /\ (i + 1) - 1 = i /\ (i - 1) + 1 = i
    BY <1>1
  <2>2. Ready(q[i + 1], a[(i + 1) - 1], words) /\ b[i - 1] = a[(i - 1) + 1] /\ p[i] = q[i + 1]
    BY <1>1, <1>2, <1>5, <2>1
  <2> QED
    BY <2>1, <2>2
<1>9. b[Len(p)] = a[n]
  <2>1. n - 1 \in 0 .. n - 1 /\ (n - 1) + 1 = n
    BY <1>1
  <2> QED
    BY <1>1, <1>2, <2>1
<1>10. Keeps(e, p, words) /\ Final(e, p) = Final(d, q)
  BY <1>7, <1>8, <1>9 DEF a, b, n, Keeps, Final
<1> QED
  BY <1>1, <1>4, <1>6, <1>10 DEF e, p

LEMMA KeepsAppend ==
  ASSUME NEW d \in Disks, NEW q \in Seq(Commands), NEW c \in Commands, NEW words \in Words,
         Keeps(d, q, words), Ready(c, Final(d, q), words)
  PROVE  /\ Keeps(d, Append(q, c), words)
         /\ Final(d, Append(q, c)) = Apply(c, Final(d, q))
<1> DEFINE n == Len(q)
           p == Append(q, c)
           a == Ahead(d, q)
           b == Ahead(d, p)
<1>1. n \in Nat /\ Len(p) = n + 1 /\ p[n + 1] = c /\ \A i \in 1 .. n : p[i] = q[i]
  BY AppendProperties, LenProperties
<1>2. (\A i \in 0 .. n : b[i] = a[i]) /\ b[n + 1] = Apply(c, a[n])
  BY AheadAppend
<1>3. a[n] \in Disks /\ n \in 0 .. n
  BY <1>1, AheadType
<1>4. /\ \A i \in 0 .. n : Sound(a[i], words)
      /\ \A i \in 1 .. n : Ready(q[i], a[i - 1], words)
      /\ Ready(c, a[n], words)
  BY DEF Keeps, Final
<1> HIDE DEF a, b, p, n
<1>5. Sound(b[n + 1], words)
  BY <1>2, <1>3, <1>4, ApplySound
<1>6. \A i \in 0 .. Len(p) : Sound(b[i], words)
  <2> SUFFICES ASSUME NEW i \in 0 .. Len(p) PROVE Sound(b[i], words)
    OBVIOUS
  <2>1. i = n + 1 \/ i \in 0 .. n
    BY <1>1
  <2> QED
    BY <1>2, <1>4, <1>5, <2>1
<1>7. \A i \in 1 .. Len(p) : Ready(p[i], b[i - 1], words)
  <2> SUFFICES ASSUME NEW i \in 1 .. Len(p) PROVE Ready(p[i], b[i - 1], words)
    OBVIOUS
  <2>1. CASE i = n + 1
    <3>1. (n + 1) - 1 = n
      BY <1>1
    <3> QED
      BY <1>1, <1>2, <1>3, <1>4, <2>1, <3>1
  <2>2. CASE i # n + 1
    <3>1. i \in 1 .. n /\ i - 1 \in 0 .. n
      BY <1>1, <2>2
    <3> QED
      BY <1>1, <1>2, <1>4, <3>1
  <2> QED
    BY <2>1, <2>2
<1>8. Keeps(d, p, words)
  BY <1>6, <1>7 DEF Keeps, b
<1>9. Final(d, p) = Apply(c, Final(d, q))
  BY <1>1, <1>2 DEF Final, a, b, n
<1> QED
  BY <1>8, <1>9 DEF p

LEMMA KeepsGrows ==
  ASSUME NEW d \in Disks, NEW q \in Seq(Commands), NEW words \in Words, NEW more \in Words,
         Grows(words, more), Keeps(d, q, words)
  PROVE  Keeps(d, q, more)
<1>1. Len(q) \in Nat /\ \A i \in 1 .. Len(q) : q[i] \in Commands
  BY LenProperties, ElementOfSeq
<1>2. \A i \in 0 .. Len(q) : Ahead(d, q)[i] \in Disks
  BY AheadType
<1>3. \A i \in 0 .. Len(q) : Sound(Ahead(d, q)[i], more)
  BY <1>2, SoundGrows DEF Keeps
<1>4. \A i \in 1 .. Len(q) : Ready(q[i], Ahead(d, q)[i - 1], more)
  <2> SUFFICES ASSUME NEW i \in 1 .. Len(q) PROVE Ready(q[i], Ahead(d, q)[i - 1], more)
    OBVIOUS
  <2>1. i - 1 \in 0 .. Len(q)
    BY <1>1
  <2>2. q[i] \in Commands /\ Ahead(d, q)[i - 1] \in Disks /\ Ready(q[i], Ahead(d, q)[i - 1], words)
    BY <1>1, <1>2, <2>1 DEF Keeps
  <2> QED
    BY <2>2, ReadyGrows
<1> QED
  BY <1>3, <1>4 DEF Keeps

-----------------------------------------------------------------------------
(* The disk now, and what the writer does to it. *)

LEMMA LinesType ==
  ASSUME WriterTypeOK, NEW n \in Segs
  PROVE  /\ text[n] \in Seq(Entries) /\ text[n] \o buf \in Seq(Entries)
         /\ LinesOf(n) \in Seq(Entries)
<1>1. text[n] \in Seq(Entries) /\ buf \in Seq(Entries)
  BY DEF WriterTypeOK
<1>2. text[n] \o buf \in Seq(Entries)
  BY <1>1, ConcatProperties
<1> QED
  BY <1>1, <1>2 DEF LinesOf

LEMMA NowParts ==
  ASSUME WriterTypeOK
  PROVE  /\ DiskNow \in Disks
         /\ DiskNow.open = open /\ DiskNow.files = files
         /\ DiskNow.states = states /\ DiskNow.whole = whole
         /\ DOMAIN DiskNow.lines = Segs /\ \A n \in Segs : DiskNow.lines[n] = LinesOf(n)
<1> DEFINE l == [n \in Segs |-> LinesOf(n)]
<1>1. l \in [Segs -> Seq(Entries)]
  BY LinesType
<1>2. DOMAIN l = Segs /\ \A n \in Segs : l[n] = LinesOf(n)
  OBVIOUS
<1>3. /\ open \in Segs \union {None} /\ files \in SUBSET Segs /\ whole \in SUBSET Segs
      /\ states \in [Segs -> Sizes \union {0}]
  BY DEF WriterTypeOK
<1>4. DiskNow = Disk(open, files, l, states, whole)
  BY DEF DiskNow, Disk
<1> HIDE DEF l
<1>5. Disk(open, files, l, states, whole) \in Disks
  BY <1>1, <1>3, DiskMade
<1> QED
  BY <1>2, <1>4, <1>5, DiskFields

LEMMA NowNext ==
  ASSUME NEW l, l \in [Segs -> Seq(Entries)], \A n \in Segs : (LinesOf(n))' = l[n]
  PROVE  DiskNow' = Disk(open', files', l, states', whole')
<1>1. [n \in Segs |-> (LinesOf(n))'] = l
  OBVIOUS
<1>2. DiskNow' = Disk(open', files', [n \in Segs |-> (LinesOf(n))'], states', whole')
  BY DEF DiskNow, Disk
<1> QED
  BY <1>1, <1>2

LEMMA NowSame ==
  ASSUME WriterTypeOK, UNCHANGED <<open, files, states, whole>>,
         \A n \in Segs : (LinesOf(n))' = LinesOf(n)
  PROVE  DiskNow' = DiskNow
<1>1. [n \in Segs |-> (LinesOf(n))'] = [n \in Segs |-> LinesOf(n)]
  OBVIOUS
<1> QED
  BY <1>1 DEF DiskNow

(* The buffer of stdio belongs to an open text. *)
Buffered == open = None => buf = <<>>

(* Everything buffered, or some of it, goes to the open file. *)
LEMMA Written ==
  ASSUME WriterTypeOK, Buffered, NEW k \in 0 .. Len(buf)
  PROVE  /\ WrittenTo(k) \in [Segs -> Seq(Entries)]
         /\ SubSeq(buf, k + 1, Len(buf)) \in Seq(Entries)
         /\ \A n \in Segs : n # open => WrittenTo(k)[n] = text[n]
         /\ open # None =>
              /\ IsPrefix(WrittenTo(k)[open], LinesOf(open))
              /\ WrittenTo(k)[open] \o SubSeq(buf, k + 1, Len(buf)) = LinesOf(open)
         /\ open = None => SubSeq(buf, k + 1, Len(buf)) = <<>>
<1>1. /\ open \in Segs \union {None} /\ buf \in Seq(Entries) /\ text \in [Segs -> Seq(Entries)]
      /\ None \notin Segs
  BY SegsFinite DEF WriterTypeOK, None
<1>2. CASE open = None
  <2>1. buf = <<>> /\ WrittenTo(k) = text
    BY <1>2 DEF Buffered, WrittenTo
  <2>2. SubSeq(buf, k + 1, Len(buf)) = <<>>
    <3>1. Len(buf) = 0 /\ k = 0
      BY <2>1
    <3> QED
      BY <3>1, SubSeqEmpty
  <2> QED
    BY <1>1, <1>2, <2>1, <2>2
<1>3. CASE open # None
  <2> DEFINE s == text[open]
             u == SubSeq(buf, 1, k)
             v == SubSeq(buf, k + 1, Len(buf))
  <2>1. open \in Segs /\ s \in Seq(Entries)
    BY <1>1, <1>3
  <2>2. /\ u \in Seq(Entries) /\ v \in Seq(Entries) /\ s \o u \in Seq(Entries)
        /\ IsPrefix(s \o u, s \o buf) /\ Joined(Joined(s, u), v) = s \o buf
    <3> HIDE DEF s
    <3>1. u \in Seq(Entries) /\ v \in Seq(Entries)
      BY <1>1, <2>1, PrefixHalf
    <3>2. s \o u \in Seq(Entries)
      BY <2>1, <3>1, ConcatProperties
    <3>3. IsPrefix(s \o u, s \o buf)
      BY <1>1, <2>1, PrefixHalf
    <3>4. Joined(u, v) = buf
      BY <1>1, <2>1, PrefixHalf DEF Joined
    <3> HIDE DEF u, v
    <3>5. Joined(Joined(s, u), v) = Joined(s, buf)
      BY <2>1, <3>1, <3>4, JoinedThree
    <3>6. Joined(s, buf) = s \o buf
      BY DEF Joined
    <3> QED
      BY <3>1, <3>2, <3>3, <3>5, <3>6
  <2>3. WrittenTo(k) = [text EXCEPT ![open] = s \o u]
    BY <1>3 DEF WrittenTo
  <2>4. LinesOf(open) = s \o buf
    BY DEF LinesOf
  <2> HIDE DEF s, u, v
  <2>5. WrittenTo(k) \in [Segs -> Seq(Entries)] /\ WrittenTo(k)[open] = s \o u
    BY <1>1, <2>1, <2>2, <2>3
  <2>7. WrittenTo(k)[open] \o v = s \o buf
    <3>1. WrittenTo(k)[open] = Joined(s, u)
      BY <2>5 DEF Joined
    <3>2. WrittenTo(k)[open] \o v = Joined(WrittenTo(k)[open], v)
      BY DEF Joined
    <3> QED
      BY <2>2, <3>1, <3>2
  <2>6. \A n \in Segs : n # open => WrittenTo(k)[n] = text[n]
    BY <1>1, <2>3
  <2> QED
    BY <1>3, <2>2, <2>4, <2>5, <2>6, <2>7 DEF v
<1> QED
  BY <1>2, <1>3

LEMMA WrittenOut ==
  ASSUME WriterTypeOK, Buffered
  PROVE  /\ Flushed \in [Segs -> Seq(Entries)]
         /\ \A n \in Segs : Flushed[n] = LinesOf(n)
<1>1. open \in Segs \union {None} /\ buf \in Seq(Entries) /\ Len(buf) \in Nat
  BY LenProperties DEF WriterTypeOK
<1>2. Len(buf) \in 0 .. Len(buf)
  BY <1>1
<1>3. SubSeq(buf, Len(buf) + 1, Len(buf)) = <<>>
  BY <1>1, SubSeqEmpty
<1>4. /\ Flushed \in [Segs -> Seq(Entries)]
      /\ \A n \in Segs : n # open => Flushed[n] = text[n]
      /\ open # None => Flushed[open] \o <<>> = LinesOf(open)
  BY <1>2, <1>3, Written DEF Flushed
<1>5. \A n \in Segs : n # open => Flushed[n] = LinesOf(n)
  BY <1>4 DEF LinesOf
<1>6. open # None => Flushed[open] = LinesOf(open)
  <2> SUFFICES ASSUME open # None PROVE Flushed[open] = LinesOf(open)
    OBVIOUS
  <2>1. Flushed[open] \in Seq(Entries)
    BY <1>1, <1>4
  <2>2. Flushed[open] \o <<>> = Flushed[open]
    BY <2>1, ConcatEmptySeq
  <2> QED
    BY <1>4, <2>2
<1>7. \A n \in Segs : n # None
  BY SegsFinite DEF None
<1> QED
  BY <1>4, <1>5, <1>6, <1>7

(* A close that works keeps every line, one that fails loses the last ones.   *)
LEMMA ClosesParts ==
  ASSUME WriterTypeOK, Buffered, NEW ok \in BOOLEAN, Closes(ok)
  PROVE  /\ open' = None /\ buf' = <<>> /\ text' \in [Segs -> Seq(Entries)]
         /\ \A n \in Segs : (LinesOf(n))' = text'[n]
         /\ \A n \in Segs : IsPrefix((LinesOf(n))', LinesOf(n))
         /\ ok => \A n \in Segs : (LinesOf(n))' = LinesOf(n)
<1>1. open' = None /\ buf' = <<>> /\ \A n \in Segs : n # None
  BY SegsFinite DEF Closes, None
<1>2. \A n \in Segs : (LinesOf(n))' = text'[n]
  BY <1>1 DEF LinesOf
<1>3. \A n \in Segs : IsPrefix(LinesOf(n), LinesOf(n))
  BY LinesType, PrefixSelf
<1>4. CASE ok
  <2>1. text' = Flushed
    BY <1>4 DEF Closes
  <2>2. text' \in [Segs -> Seq(Entries)] /\ \A n \in Segs : text'[n] = LinesOf(n)
    BY <2>1, WrittenOut
  <2> QED
    BY <1>1, <1>2, <1>3, <2>2
<1>5. CASE ~ok
  <2>1. PICK k \in 0 .. Len(buf) : text' = WrittenTo(k)
    BY <1>5 DEF Closes
  <2>2. /\ text' \in [Segs -> Seq(Entries)]
        /\ \A n \in Segs : n # open => text'[n] = text[n]
        /\ open # None => IsPrefix(text'[open], LinesOf(open))
    BY <2>1, Written
  <2>3. \A n \in Segs : n # open => text'[n] = LinesOf(n)
    BY <2>2 DEF LinesOf
  <2>4. \A n \in Segs : IsPrefix(text'[n], LinesOf(n))
    BY <1>1, <1>3, <2>2, <2>3
  <2> QED
    BY <1>1, <1>2, <1>5, <2>2, <2>4
<1> QED
  BY <1>4, <1>5

-----------------------------------------------------------------------------
(* What a step of the writer may do, as the queue and the disk see it: carry  *)
(* out the command at the head, or break and end the loop, or leave both.     *)

Moved ==
  /\ worker = "on" /\ queue # <<>>
  /\ queue' = Tail(queue) /\ used' = used - Head(queue).size
  /\ DiskNow' = Apply(Head(queue), DiskNow)
  /\ UNCHANGED <<stop, error, worker>>
Broke ==
  /\ Running /\ worker # "off" /\ worker' = "closing" /\ error' # "none"
  /\ UNCHANGED <<queue, used, stop>>
  /\ Sound(DiskNow', said)
Stays ==
  /\ UNCHANGED queueVars
  /\ DiskNow' = DiskNow
  /\ \/ worker \in {"on", "idle"} /\ worker' \in {"on", "idle"}
     \/ worker = "idle" /\ worker' = "closing" /\ Ending /\ queue = <<>>
Closed ==
  /\ worker = "closing" /\ worker' = "done"
  /\ UNCHANGED <<queue, used, stop>>
  /\ error' = error \/ error' # "none"
  /\ open' = None
  /\ Sound(DiskNow', said)
  /\ error' = "none" =>
       /\ error = "none"
       /\ DiskNow' = Disk(None, files, DiskNow.lines, states, whole)
Wrote == WriterTypeOK' /\ Buffered' /\ (Moved \/ Broke \/ Stays \/ Closed)

(* What the writer finds when it looks. *)
Before ==
  /\ WriterTypeOK /\ Buffered /\ said \in Words
  /\ used \in Nat /\ (queue # <<>> => used - Head(queue).size \in Nat)
  /\ Sound(DiskNow, said)
  /\ Running => Keeps(DiskNow, queue, said)

LEMMA AtHead ==
  ASSUME Before, worker = "on", queue # <<>>
  PROVE  /\ Head(queue) \in Commands /\ Tail(queue) \in Seq(Commands)
         /\ DiskNow \in Disks
         /\ Ready(Head(queue), DiskNow, said)
         /\ Apply(Head(queue), DiskNow) \in Disks
         /\ Sound(Apply(Head(queue), DiskNow), said)
         /\ Running
<1>1. Running
  BY DEF Running
<1>2. /\ DiskNow \in Disks /\ queue \in Seq(Commands) /\ said \in Words
      /\ Keeps(DiskNow, queue, said) /\ Sound(DiskNow, said)
  BY <1>1, NowParts DEF Before, WriterTypeOK
<1> DEFINE d == DiskNow
<1> HIDE DEF d
<1>3. /\ d \in Disks /\ Keeps(d, queue, said)
  BY <1>2 DEF d
<1>4. /\ Head(queue) \in Commands /\ Tail(queue) \in Seq(Commands)
      /\ Ready(Head(queue), d, said) /\ Apply(Head(queue), d) \in Disks
  BY <1>2, <1>3, KeepsTail
<1>5. Sound(Apply(Head(queue), DiskNow), said)
  BY <1>2, <1>4, ApplySound DEF d
<1> QED
  BY <1>1, <1>2, <1>4, <1>5 DEF d

LEMMA FailingErrs == error \in {"none", "full", "io"} => Failing("io") \in {"full", "io"}
  BY DEF Failing

LEMMA TakenType ==
  ASSUME Before, worker = "on", queue # <<>>, Taken
  PROVE  /\ queue' \in Seq(Commands) /\ used' \in Nat /\ stop' \in BOOLEAN
         /\ error' \in {"none", "full", "io"}
         /\ worker' = "on"
         /\ queue' = Tail(queue) /\ used' = used - Head(queue).size
         /\ UNCHANGED <<stop, error, worker>>
<1>1. queue' = Tail(queue) /\ used' = used - Head(queue).size /\ UNCHANGED <<stop, error, worker>>
  BY DEF Taken, Command
<1>2. Tail(queue) \in Seq(Commands) /\ used - Head(queue).size \in Nat
  BY AtHead DEF Before
<1> QED
  BY <1>1, <1>2 DEF Before, WriterTypeOK

LEMMA BrokenType ==
  ASSUME Before, Broken
  PROVE  /\ queue' \in Seq(Commands) /\ used' \in Nat /\ stop' \in BOOLEAN
         /\ error' \in {"full", "io"} /\ worker' = "closing"
         /\ UNCHANGED <<queue, used, stop>>
  BY FailingErrs DEF Broken, Before, WriterTypeOK

LEMMA WriteBeginStep ==
  ASSUME Before, WriteBegin
  PROVE  Wrote
<1> DEFINE c == Head(queue)
           l == [DiskNow.lines EXCEPT ![c.seg] = <<>>]
<1>0. worker = "on" /\ queue # <<>> /\ c.op = "begin" /\ UNCHANGED <<states, whole>>
  BY DEF WriteBegin, Working, Command
<1>1. /\ c \in Commands /\ c.seg \in Segs /\ Ready(c, DiskNow, said) /\ Running /\ worker # "off"
      /\ Sound(Apply(c, DiskNow), said) /\ DiskNow \in Disks
  BY <1>0, AtHead, CommandParts
<1>2. WriterTypeOK /\ Buffered /\ Sound(DiskNow, said)
  BY DEF Before
<1>3. open = None /\ buf = <<>>
  BY <1>0, <1>1, <1>2, NowParts DEF Ready, Buffered
<1>4. Flushed = text
  BY <1>3 DEF Flushed, WrittenTo
<1>5. ASSUME open' = c.seg, buf' = <<>>, files' = files \union {c.seg},
             text' = [Flushed EXCEPT ![c.seg] = <<>>]
      PROVE  /\ DiskNow' = Apply(c, DiskNow)
             /\ open' \in Segs /\ buf' \in Seq(Entries) /\ files' \subseteq Segs
             /\ text' \in [Segs -> Seq(Entries)]
  <2>1. <<>> \in Seq(Entries) /\ <<>> \o <<>> = <<>>
    OBVIOUS
  <2>2. /\ text' = [text EXCEPT ![c.seg] = <<>>]
        /\ text \in [Segs -> Seq(Entries)]
    BY <1>2, <1>4, <1>5 DEF WriterTypeOK
  <2>3. text' \in [Segs -> Seq(Entries)]
    BY <1>1, <2>1, <2>2
  <2>4. \A n \in Segs : LinesOf(n) = text[n] /\ DiskNow.lines[n] = LinesOf(n)
    BY <1>2, <1>3, SegsFinite, NowParts DEF LinesOf, None
  <2>5. \A n \in Segs : (LinesOf(n))' = IF n = c.seg THEN <<>> ELSE text[n]
    BY <1>1, <1>5, <2>1, <2>2 DEF LinesOf
  <2>6. DiskNow.lines \in [Segs -> Seq(Entries)]
    BY <1>1, DiskParts
  <2>7. l \in [Segs -> Seq(Entries)] /\ \A n \in Segs : (LinesOf(n))' = l[n]
    BY <1>1, <2>1, <2>4, <2>5, <2>6
  <2>8. Apply(c, DiskNow) = Disk(c.seg, DiskNow.files \union {c.seg}, l, DiskNow.states, DiskNow.whole)
    BY <1>0, <1>1, ApplyParts
  <2> HIDE DEF l
  <2>9. DiskNow' = Disk(open', files', l, states', whole')
    BY <2>7, NowNext
  <2>10. DiskNow' = Apply(c, DiskNow)
    BY <1>0, <1>2, <1>5, <2>8, <2>9, NowParts
  <2>11. files' \subseteq Segs
    BY <1>1, <1>2, <1>5 DEF WriterTypeOK
  <2> QED
    BY <1>1, <1>5, <2>1, <2>3, <2>10, <2>11
<1>6. states' \in [Segs -> Sizes \union {0}] /\ whole' \subseteq Segs
  BY <1>0, <1>2 DEF WriterTypeOK
<1>7. Buffered'
  <2>1. open' \in Segs \/ buf' = <<>>
    BY <1>3 DEF WriteBegin, Closes
  <2> QED
    BY <1>1, <1>3, <2>1, SegsFinite DEF WriteBegin, Closes, Buffered, None
<1>8. CASE Taken /\ open' = c.seg /\ buf' = <<>> /\ files' = files \union {c.seg}
           /\ text' = [Flushed EXCEPT ![c.seg] = <<>>]
  <2>1. WriterTypeOK'
    BY <1>0, <1>5, <1>6, <1>8, TakenType DEF WriterTypeOK
  <2>2. Moved
    BY <1>0, <1>5, <1>8, TakenType DEF Moved
  <2> QED
    BY <1>7, <2>1, <2>2 DEF Wrote
<1>9. CASE Broken /\ open = None /\ UNCHANGED <<open, buf, files, text>>
  <2>1. WriterTypeOK'
    BY <1>2, <1>6, <1>9, BrokenType DEF WriterTypeOK
  <2>2. DiskNow' = DiskNow
    BY <1>0, <1>9 DEF DiskNow, LinesOf
  <2>3. Broke
    BY <1>1, <1>2, <1>9, <2>2, BrokenType DEF Broke
  <2> QED
    BY <1>7, <2>1, <2>3 DEF Wrote
<1>10. CASE Broken /\ open' = c.seg /\ buf' = <<>> /\ files' = files \union {c.seg}
            /\ text' = [Flushed EXCEPT ![c.seg] = <<>>]
  <2>1. WriterTypeOK'
    BY <1>5, <1>6, <1>10, BrokenType DEF WriterTypeOK
  <2>2. Broke
    BY <1>1, <1>5, <1>10, BrokenType DEF Broke
  <2> QED
    BY <1>7, <2>1, <2>2 DEF Wrote
<1> QED
  BY <1>3, <1>8, <1>9, <1>10 DEF WriteBegin, Command

LEMMA WriteStateStep ==
  ASSUME Before, WriteState
  PROVE  Wrote
<1> DEFINE c == Head(queue)
           d == DiskNow
<1>0. worker = "on" /\ queue # <<>> /\ c.op = "state" /\ UNCHANGED <<open, buf, files, text>>
  BY DEF WriteState, Working, Command
<1>1. /\ c \in Commands /\ c.seg \in Segs /\ c.size \in Sizes /\ Ready(c, d, said) /\ Running /\ worker # "off"
      /\ Sound(Apply(c, d), said) /\ d \in Disks
  BY <1>0, AtHead, CommandParts
<1>2. WriterTypeOK /\ Buffered /\ Sound(d, said)
  BY DEF Before
<1>3. /\ d.open = open /\ d.files = files /\ d.states = states /\ d.whole = whole
      /\ d.lines \in [Segs -> Seq(Entries)] /\ \A n \in Segs : d.lines[n] = LinesOf(n)
  BY <1>1, <1>2, NowParts, DiskParts
<1>4. \A n \in Segs : (LinesOf(n))' = d.lines[n]
  BY <1>0, <1>3 DEF LinesOf
<1>5. DiskNow' = Disk(open', files', d.lines, states', whole')
  <2> HIDE DEF d
  <2> QED
    BY <1>3, <1>4, NowNext
<1>6. Apply(c, d) = Disk(d.open, d.files, d.lines, [d.states EXCEPT ![c.seg] = c.size],
                         d.whole \union {c.seg})
  BY <1>0, <1>1, ApplyParts
<1>7. Buffered'
  BY <1>0, <1>2 DEF Buffered
<1>8. CASE Taken /\ states' = [states EXCEPT ![c.seg] = c.size] /\ whole' = whole \union {c.seg}
  <2>1. states' \in [Segs -> Sizes \union {0}] /\ whole' \subseteq Segs
    BY <1>1, <1>2, <1>8 DEF WriterTypeOK
  <2>2. WriterTypeOK'
    BY <1>0, <1>2, <1>8, <2>1, TakenType DEF WriterTypeOK
  <2>3. DiskNow' = Apply(c, d)
    BY <1>0, <1>3, <1>5, <1>6, <1>8
  <2>4. Moved
    BY <1>0, <1>8, <2>3, TakenType DEF Moved
  <2> QED
    BY <1>7, <2>2, <2>4 DEF Wrote
<1>9. CASE Broken /\ (\E n \in {0, c.size} : states' = [states EXCEPT ![c.seg] = n])
           /\ whole' = whole \ {c.seg}
  <2>1. PICK v \in {0, c.size} : states' = [states EXCEPT ![c.seg] = v]
    BY <1>9
  <2>2. states' \in [Segs -> Sizes \union {0}] /\ whole' \subseteq Segs
    BY <1>1, <1>2, <1>9, <2>1 DEF WriterTypeOK
  <2>3. WriterTypeOK'
    BY <1>0, <1>2, <1>9, <2>2, BrokenType DEF WriterTypeOK
  <2>4. d.states[c.seg] = 0 /\ d.lines[c.seg] = <<>>
    BY <1>0, <1>1 DEF Ready
  <2>5. \/ states' = d.states
        \/ states' = [d.states EXCEPT ![c.seg] = c.size]
    <3>1. d.states \in [Segs -> Sizes \union {0}]
      BY <1>1, DiskParts
    <3> QED
      BY <1>1, <1>3, <2>1, <2>4, <3>1
  <2>6. \/ \A m, n \in Segs : (states'[m] # 0 /\ states'[n] # 0) => m = n
        \/ Total(states') <= Limit
    <3>1. Apply(c, d).states = [d.states EXCEPT ![c.seg] = c.size]
      BY <1>0, <1>1, ApplyFields
    <3>2. CASE states' = d.states
      BY <1>2, <3>2 DEF Sound
    <3>3. CASE states' = [d.states EXCEPT ![c.seg] = c.size]
      BY <1>1, <3>1, <3>3 DEF Sound
    <3> QED
      BY <2>5, <3>2, <3>3
  <2>7. /\ DiskNow'.files = d.files /\ DiskNow'.lines = d.lines
        /\ DiskNow'.states = states' /\ DiskNow'.whole = d.whole \ {c.seg}
    BY <1>0, <1>3, <1>5, <1>9, DiskFields
  <2>8. Sound(DiskNow', said)
    BY <1>2, <2>4, <2>6, <2>7 DEF Sound
  <2>9. Broke
    BY <1>1, <1>9, <2>8, BrokenType DEF Broke
  <2> QED
    BY <1>7, <2>3, <2>9 DEF Wrote
<1> QED
  BY <1>8, <1>9 DEF WriteState, Command

LEMMA WriteLineStep ==
  ASSUME Before, WriteLine
  PROVE  Wrote
<1> DEFINE c == Head(queue)
           d == DiskNow
<1>0. worker = "on" /\ queue # <<>> /\ c.op = "line" /\ UNCHANGED <<open, files, states, whole>>
  BY DEF WriteLine, Working, Command
<1>1. /\ c \in Commands /\ c.line \in Entries /\ Ready(c, d, said) /\ Running /\ worker # "off" /\ d \in Disks
  BY <1>0, AtHead, CommandParts
<1>2. WriterTypeOK /\ Buffered /\ Sound(d, said)
  BY DEF Before
<1>3. /\ d.open = open /\ d.files = files /\ d.states = states /\ d.whole = whole
      /\ d.lines \in [Segs -> Seq(Entries)] /\ \A n \in Segs : d.lines[n] = LinesOf(n)
  BY <1>1, <1>2, NowParts, DiskParts
<1>4. open \in Segs /\ open # None
  BY <1>0, <1>1, <1>2, <1>3, SegsFinite DEF Ready, WriterTypeOK, None
<1>5. text \in [Segs -> Seq(Entries)] /\ buf \in Seq(Entries) /\ text[open] \in Seq(Entries)
  BY <1>2, <1>4 DEF WriterTypeOK
<1>6. Buffered'
  BY <1>0, <1>4 DEF Buffered
<1>7. CASE Taken /\ (\/ buf' = Append(buf, c.line) /\ UNCHANGED text
                     \/ buf' = <<c.line>> /\ text' = Flushed)
  <2>1. text' \in [Segs -> Seq(Entries)] /\ buf' \in Seq(Entries)
    <3>1. Append(buf, c.line) \in Seq(Entries) /\ <<c.line>> \in Seq(Entries)
      BY <1>1, <1>5, AppendProperties
    <3> QED
      BY <1>2, <1>5, <1>7, <3>1, WrittenOut
  <2>2. WriterTypeOK'
    BY <1>0, <1>2, <1>7, <2>1, TakenType DEF WriterTypeOK
  <2>3. (LinesOf(open))' = Append(LinesOf(open), c.line)
    <3>1. (LinesOf(open))' = text'[open] \o buf' /\ LinesOf(open) = text[open] \o buf
      BY <1>0 DEF LinesOf
    <3>2. CASE buf' = Append(buf, c.line) /\ UNCHANGED text
      <4>1. (LinesOf(open))' = text[open] \o Append(buf, c.line)
        BY <1>0, <3>1, <3>2
      <4>2. text[open] \o Append(buf, c.line) = Append(text[open] \o buf, c.line)
        <5> DEFINE x == c.line
                   t == text[open]
        <5>1. x \in Entries /\ t \in Seq(Entries)
          BY <1>1, <1>5
        <5> HIDE DEF x, t
        <5>2. t \o Append(buf, x) = Append(t \o buf, x)
          BY <1>5, <5>1, AppendBehind
        <5> QED
          BY <5>2 DEF x, t
      <4> QED
        BY <3>1, <4>1, <4>2
    <3>3. CASE buf' = <<c.line>> /\ text' = Flushed
      <4>1. text'[open] = LinesOf(open) /\ LinesOf(open) \in Seq(Entries)
        BY <1>2, <1>4, <3>3, WrittenOut, LinesType
      <4>2. (LinesOf(open))' = LinesOf(open) \o <<c.line>>
        BY <3>1, <3>3, <4>1
      <4> QED
        BY <1>1, <4>1, <4>2, AppendIsConcat
    <3> QED
      BY <1>7, <3>2, <3>3
  <2>4. \A n \in Segs : n # open => (LinesOf(n))' = LinesOf(n)
    <3>1. \A n \in Segs : n # open => text'[n] = LinesOf(n)
      BY <1>2, <1>7, WrittenOut DEF LinesOf
    <3> QED
      BY <1>0, <3>1 DEF LinesOf
  <2> DEFINE l == [d.lines EXCEPT ![d.open] = Append(d.lines[d.open], c.line)]
  <2>5. l \in [Segs -> Seq(Entries)] /\ \A n \in Segs : (LinesOf(n))' = l[n]
    <3> DEFINE x == Append(d.lines[d.open], c.line)
    <3>1. x \in Seq(Entries)
      BY <1>1, <1>3, <1>4, AppendProperties
    <3>2. (LinesOf(open))' = x
      BY <1>3, <1>4, <2>3
    <3> HIDE DEF d, x
    <3>0. d.open \in Segs /\ d.open = open
      BY <1>3, <1>4
    <3>3. \A n \in Segs : (LinesOf(n))' = IF n = d.open THEN x ELSE d.lines[n]
      <4> TAKE n \in Segs
      <4>1. CASE n = open
        <5>1. (LinesOf(n))' = (LinesOf(open))'
          BY <1>0, <4>1 DEF LinesOf
        <5> QED
          BY <3>0, <3>2, <4>1, <5>1
      <4>2. CASE n # open
        BY <1>3, <2>4, <3>0, <4>2
      <4> QED
        BY <4>1, <4>2
    <3>4. [d.lines EXCEPT ![d.open] = x] \in [Segs -> Seq(Entries)]
      BY <1>3, <3>0, <3>1
    <3>5. \A n \in Segs : (LinesOf(n))' = [d.lines EXCEPT ![d.open] = x][n]
      BY <1>3, <3>0, <3>3
    <3> QED
      BY <3>4, <3>5 DEF x
  <2>6. Apply(c, d) = Disk(d.open, d.files, l, d.states, d.whole)
    BY <1>0, <1>1, ApplyParts
  <2> HIDE DEF l
  <2>7. DiskNow' = Disk(open', files', l, states', whole')
    BY <2>5, NowNext
  <2>8. Moved
    BY <1>0, <1>3, <1>7, <2>6, <2>7, TakenType DEF Moved
  <2> QED
    BY <1>6, <2>2, <2>8 DEF Wrote
<1>8. CASE Broken /\ HalfFlushed
  <2>1. PICK k \in 0 .. Len(buf) : text' = WrittenTo(k) /\ buf' = SubSeq(buf, k + 1, Len(buf))
    BY <1>8 DEF HalfFlushed
  <2>2. /\ text' \in [Segs -> Seq(Entries)] /\ buf' \in Seq(Entries)
        /\ \A n \in Segs : n # open => text'[n] = text[n]
        /\ text'[open] \o buf' = LinesOf(open)
    BY <1>2, <1>4, <2>1, Written
  <2>3. WriterTypeOK'
    BY <1>0, <1>2, <1>8, <2>2, BrokenType DEF WriterTypeOK
  <2>4. \A n \in Segs : (LinesOf(n))' = LinesOf(n)
    BY <1>0, <2>2 DEF LinesOf
  <2>5. DiskNow' = d
    BY <1>0, <1>2, <2>4, NowSame
  <2>6. Broke
    BY <1>1, <1>2, <1>8, <2>5, BrokenType DEF Broke
  <2> QED
    BY <1>6, <2>3, <2>6 DEF Wrote
<1> QED
  BY <1>4, <1>7, <1>8 DEF WriteLine, Command

LEMMA WriteRemoveTextStep ==
  ASSUME Before, WriteRemoveText
  PROVE  Wrote
<1> DEFINE c == Head(queue)
           d == DiskNow
           l == [d.lines EXCEPT ![c.seg] = <<>>]
<1>0. worker = "on" /\ queue # <<>> /\ c.op = "remove_text" /\ UNCHANGED <<open, buf, states, whole>>
  BY DEF WriteRemoveText, Working, Command
<1>1. c \in Commands /\ c.seg \in Segs /\ Ready(c, d, said) /\ Running /\ worker # "off" /\ d \in Disks
  BY <1>0, AtHead, CommandParts
<1>2. WriterTypeOK /\ Buffered /\ Sound(d, said)
  BY DEF Before
<1>3. /\ d.open = open /\ d.files = files /\ d.states = states /\ d.whole = whole
      /\ d.lines \in [Segs -> Seq(Entries)] /\ \A n \in Segs : d.lines[n] = LinesOf(n)
  BY <1>1, <1>2, NowParts, DiskParts
<1>4. open = None /\ open' = None /\ \A n \in Segs : n # None
  BY <1>0, <1>1, <1>3, SegsFinite DEF Ready, None
<1>5. \A n \in Segs : LinesOf(n) = text[n] /\ (LinesOf(n))' = text'[n]
  BY <1>4 DEF LinesOf
<1>6. Buffered'
  BY <1>0, <1>2 DEF Buffered
<1>7. CASE Taken /\ files' = files \ {c.seg} /\ text' = [text EXCEPT ![c.seg] = <<>>]
  <2>1. <<>> \in Seq(Entries) /\ text \in [Segs -> Seq(Entries)] /\ files \subseteq Segs
    BY <1>2 DEF WriterTypeOK
  <2>2. text' \in [Segs -> Seq(Entries)] /\ files' \subseteq Segs
    BY <1>7, <2>1
  <2>3. WriterTypeOK'
    BY <1>0, <1>2, <1>7, <2>2, TakenType DEF WriterTypeOK
  <2>4. l \in [Segs -> Seq(Entries)]
    BY <1>3, <2>1
  <2>5. \A n \in Segs : (LinesOf(n))' = l[n]
    <3> HIDE DEF c, d
    <3> QED
      BY <1>1, <1>3, <1>5, <1>7, <2>1
  <2>6. Apply(c, d) = Disk(d.open, d.files \ {c.seg}, l, d.states, d.whole)
    BY <1>0, <1>1, ApplyParts
  <2> HIDE DEF l
  <2>7. DiskNow' = Disk(open', files', l, states', whole')
    BY <2>4, <2>5, NowNext
  <2>8. Moved
    BY <1>0, <1>3, <1>7, <2>6, <2>7, TakenType DEF Moved
  <2> QED
    BY <1>6, <2>3, <2>8 DEF Wrote
<1>8. CASE Broken /\ UNCHANGED <<files, text>>
  <2>1. WriterTypeOK'
    BY <1>0, <1>2, <1>8, BrokenType DEF WriterTypeOK
  <2>2. DiskNow' = d
    BY <1>0, <1>8 DEF DiskNow, LinesOf
  <2>3. Broke
    BY <1>1, <1>2, <1>8, <2>2, BrokenType DEF Broke
  <2> QED
    BY <1>6, <2>1, <2>3 DEF Wrote
<1> QED
  BY <1>7, <1>8 DEF WriteRemoveText, Command

LEMMA WriteRemoveStateStep ==
  ASSUME Before, WriteRemoveState
  PROVE  Wrote
<1> DEFINE c == Head(queue)
           d == DiskNow
<1>0. worker = "on" /\ queue # <<>> /\ c.op = "remove_state" /\ UNCHANGED <<open, buf, files, text>>
  BY DEF WriteRemoveState, Working, Command
<1>1. c \in Commands /\ c.seg \in Segs /\ Running /\ worker # "off" /\ d \in Disks
  BY <1>0, AtHead, CommandParts
<1>2. WriterTypeOK /\ Buffered /\ Sound(d, said)
  BY DEF Before
<1>3. /\ d.open = open /\ d.files = files /\ d.states = states /\ d.whole = whole
      /\ d.lines \in [Segs -> Seq(Entries)] /\ \A n \in Segs : d.lines[n] = LinesOf(n)
  BY <1>1, <1>2, NowParts, DiskParts
<1>4. \A n \in Segs : (LinesOf(n))' = d.lines[n]
  BY <1>0, <1>3 DEF LinesOf
<1>5. Buffered'
  BY <1>0, <1>2 DEF Buffered
<1>6. CASE Taken /\ states' = [states EXCEPT ![c.seg] = 0] /\ whole' = whole \ {c.seg}
  <2>1. states' \in [Segs -> Sizes \union {0}] /\ whole' \subseteq Segs
    BY <1>1, <1>2, <1>6 DEF WriterTypeOK
  <2>2. WriterTypeOK'
    BY <1>0, <1>2, <1>6, <2>1, TakenType DEF WriterTypeOK
  <2>3. Apply(c, d) = Disk(d.open, d.files, d.lines, [d.states EXCEPT ![c.seg] = 0],
                           d.whole \ {c.seg})
    BY <1>0, <1>1, ApplyParts
  <2>4. DiskNow' = Disk(open', files', d.lines, states', whole')
    <3> HIDE DEF d
    <3> QED
      BY <1>3, <1>4, NowNext
  <2>5. Moved
    BY <1>0, <1>3, <1>6, <2>3, <2>4, TakenType DEF Moved
  <2> QED
    BY <1>5, <2>2, <2>5 DEF Wrote
<1>7. CASE Broken /\ UNCHANGED <<states, whole>>
  <2>1. WriterTypeOK'
    BY <1>0, <1>2, <1>7, BrokenType DEF WriterTypeOK
  <2>2. DiskNow' = d
    BY <1>0, <1>7 DEF DiskNow, LinesOf
  <2>3. Broke
    BY <1>1, <1>2, <1>7, <2>2, BrokenType DEF Broke
  <2> QED
    BY <1>5, <2>1, <2>3 DEF Wrote
<1> QED
  BY <1>6, <1>7 DEF WriteRemoveState, Command

(* The disk after the open text was closed. *)
LEMMA ClosedDisk ==
  ASSUME WriterTypeOK, Buffered, Sound(DiskNow, said), said \in Words,
         NEW ok \in BOOLEAN, Closes(ok), UNCHANGED <<files, states, whole>>
  PROVE  /\ text' \in [Segs -> Seq(Entries)] /\ open' = None /\ buf' = <<>> /\ Buffered'
         /\ Sound(DiskNow', said)
         /\ ok => DiskNow' = Disk(None, files, DiskNow.lines, states, whole)
<1> DEFINE d == DiskNow
           l == [n \in Segs |-> (LinesOf(n))']
<1>1. /\ open' = None /\ buf' = <<>> /\ text' \in [Segs -> Seq(Entries)]
      /\ \A n \in Segs : (LinesOf(n))' = text'[n]
      /\ \A n \in Segs : IsPrefix((LinesOf(n))', LinesOf(n))
      /\ ok => \A n \in Segs : (LinesOf(n))' = LinesOf(n)
  BY ClosesParts
<1>2. /\ d \in Disks /\ d.files = files /\ d.states = states /\ d.whole = whole
      /\ d.lines \in [Segs -> Seq(Entries)] /\ \A n \in Segs : d.lines[n] = LinesOf(n)
  BY NowParts, DiskParts
<1>3. l \in [Segs -> Seq(Entries)] /\ \A n \in Segs : (LinesOf(n))' = l[n]
  BY <1>1
<1> HIDE DEF l
<1>4. DiskNow' = Disk(None, files, l, states, whole)
  BY <1>1, <1>3, NowNext
<1>5. DiskNow' \in Disks
  <2>1. /\ None \in Segs \union {None} /\ files \in SUBSET Segs /\ whole \in SUBSET Segs
        /\ states \in [Segs -> Sizes \union {0}]
    BY DEF WriterTypeOK
  <2> QED
    BY <1>3, <1>4, <2>1, DiskMade
<1>6. \A n \in Segs : IsPrefix(DiskNow'.lines[n], d.lines[n])
  BY <1>1, <1>2, <1>3, <1>4, DiskFields
<1>7. Sound(DiskNow', said)
  <2> DEFINE e == DiskNow'
  <2>1. e.files = d.files /\ e.states = d.states /\ e.whole = d.whole
    BY <1>2, <1>4, DiskFields
  <2> HIDE DEF d, e
  <2>2. Sound(d, said) /\ e \in Disks /\ \A n \in Segs : IsPrefix(e.lines[n], d.lines[n])
    BY <1>5, <1>6 DEF d, e
  <2>3. Sound(e, said)
    BY <1>2, <2>1, <2>2, SoundShrinks
  <2> QED
    BY <2>3 DEF e
<1>8. ok => l = d.lines
  <2> SUFFICES ASSUME ok PROVE l = d.lines
    OBVIOUS
  <2> HIDE DEF d
  <2>1. \A n \in Segs : l[n] = d.lines[n]
    BY <1>1, <1>2, <1>3
  <2> QED
    BY <1>2, <1>3, <2>1
<1> QED
  BY <1>1, <1>4, <1>7, <1>8 DEF Buffered

LEMMA WriteEndStep ==
  ASSUME Before, WriteEnd
  PROVE  Wrote
<1> DEFINE c == Head(queue)
           d == DiskNow
<1>0. worker = "on" /\ queue # <<>> /\ c.op = "end" /\ UNCHANGED <<files, states, whole>>
  BY DEF WriteEnd, Working, Command
<1>1. c \in Commands /\ Running /\ worker # "off" /\ d \in Disks
  BY <1>0, AtHead
<1>2. WriterTypeOK /\ Buffered /\ Sound(d, said) /\ said \in Words
  BY DEF Before
<1>3. d.files = files /\ d.states = states /\ d.whole = whole
  BY <1>2, NowParts
<1>4. PICK ok \in BOOLEAN : Closes(ok) /\ ((Taken /\ ok) \/ Broken)
  BY DEF WriteEnd
<1>5. /\ text' \in [Segs -> Seq(Entries)] /\ open' = None /\ buf' = <<>> /\ Buffered'
      /\ Sound(DiskNow', said)
      /\ ok => DiskNow' = Disk(None, files, d.lines, states, whole)
  BY <1>0, <1>2, <1>4, ClosedDisk
<1>6. <<>> \in Seq(Entries) /\ None \in Segs \union {None}
  OBVIOUS
<1>7. CASE Taken /\ ok
  <2>1. WriterTypeOK'
    BY <1>0, <1>2, <1>5, <1>6, <1>7, TakenType DEF WriterTypeOK
  <2>2. Apply(c, d) = Disk(None, d.files, d.lines, d.states, d.whole)
    BY <1>0, <1>1, ApplyParts
  <2>3. Moved
    BY <1>0, <1>3, <1>5, <1>7, <2>2, TakenType DEF Moved
  <2> QED
    BY <1>5, <2>1, <2>3 DEF Wrote
<1>8. CASE Broken
  <2>1. WriterTypeOK'
    BY <1>0, <1>2, <1>5, <1>6, <1>8, BrokenType DEF WriterTypeOK
  <2>2. Broke
    BY <1>1, <1>5, <1>8, BrokenType DEF Broke
  <2> QED
    BY <1>5, <2>1, <2>2 DEF Wrote
<1> QED
  BY <1>4, <1>7, <1>8

LEMMA WriteFlushStep ==
  ASSUME Before, WriteFlush
  PROVE  Wrote
<1>0. worker \in {"on", "idle"} /\ UNCHANGED <<open, files, states, whole>> /\ Running
  BY DEF WriteFlush, Running
<1>1. WriterTypeOK /\ Buffered /\ Sound(DiskNow, said) /\ open # None
  BY DEF Before, Buffered, WriteFlush
<1>2. Buffered' /\ open \in Segs
  BY <1>0, <1>1 DEF Buffered, WriterTypeOK
<1>3. CASE text' = Flushed /\ buf' = <<>> /\ UNCHANGED <<queueVars, worker>>
  <2>1. text' \in [Segs -> Seq(Entries)] /\ <<>> \in Seq(Entries) /\ \A n \in Segs : text'[n] = LinesOf(n)
    BY <1>1, <1>3, WrittenOut
  <2>2. WriterTypeOK'
    BY <1>0, <1>1, <1>3, <2>1 DEF WriterTypeOK, queueVars
  <2>3. \A n \in Segs : (LinesOf(n))' = LinesOf(n)
    <3> TAKE n \in Segs
    <3>1. LinesOf(n) \in Seq(Entries)
      BY <1>1, LinesType
    <3>2. LinesOf(n) \o <<>> = LinesOf(n)
      BY <3>1, ConcatEmptySeq
    <3>3. (LinesOf(n))' = LinesOf(n) \o <<>> \/ (LinesOf(n))' = LinesOf(n)
      BY <1>0, <1>3, <2>1 DEF LinesOf
    <3> QED
      BY <3>2, <3>3
  <2>4. DiskNow' = DiskNow
    BY <1>0, <1>1, <2>3, NowSame
  <2>5. Stays
    BY <1>0, <1>3, <2>4 DEF Stays
  <2> QED
    BY <1>2, <2>2, <2>5 DEF Wrote
<1>4. CASE Broken /\ HalfFlushed
  <2>1. PICK k \in 0 .. Len(buf) : text' = WrittenTo(k) /\ buf' = SubSeq(buf, k + 1, Len(buf))
    BY <1>4 DEF HalfFlushed
  <2>2. /\ text' \in [Segs -> Seq(Entries)] /\ buf' \in Seq(Entries)
        /\ \A n \in Segs : n # open => text'[n] = text[n]
        /\ text'[open] \o buf' = LinesOf(open)
    BY <1>1, <2>1, Written
  <2>3. WriterTypeOK'
    BY <1>0, <1>1, <1>4, <2>2, BrokenType DEF WriterTypeOK
  <2>4. \A n \in Segs : (LinesOf(n))' = LinesOf(n)
    BY <1>0, <2>2 DEF LinesOf
  <2>5. DiskNow' = DiskNow
    BY <1>0, <1>1, <2>4, NowSame
  <2>6. Broke
    BY <1>0, <1>1, <1>4, <2>5, BrokenType DEF Broke
  <2> QED
    BY <1>2, <2>3, <2>6 DEF Wrote
<1> QED
  BY <1>3, <1>4 DEF WriteFlush

LEMMA WriterTurnsStep ==
  ASSUME Before, WriterIdles \/ WriterWakes
  PROVE  Wrote
<1>1. WriterTypeOK /\ Buffered
  BY DEF Before
<1>2. UNCHANGED <<queueVars, diskVars>>
  BY DEF WriterIdles, WriterWakes
<1>3. DiskNow' = DiskNow
  BY <1>2 DEF DiskNow, LinesOf, diskVars
<1>4. worker' \in {"on", "idle", "closing"}
  BY DEF WriterIdles, WriterWakes
<1>5. WriterTypeOK' /\ Buffered'
  BY <1>1, <1>2, <1>4 DEF WriterTypeOK, Buffered, queueVars, diskVars
<1>6. Stays
  BY <1>2, <1>3 DEF WriterIdles, WriterWakes, Stays, Ending
<1> QED
  BY <1>5, <1>6 DEF Wrote

LEMMA WriterClosesStep ==
  ASSUME Before, WriterCloses
  PROVE  Wrote
<1>1. WriterTypeOK /\ Buffered /\ Sound(DiskNow, said) /\ said \in Words
  BY DEF Before
<1>2. worker = "closing" /\ worker' = "done" /\ UNCHANGED <<queue, used, stop, files, states, whole>>
  BY DEF WriterCloses
<1>3. PICK ok \in BOOLEAN : Closes(ok) /\ ((ok /\ UNCHANGED error) \/ (~ok /\ error' = Failing("io")))
  BY DEF WriterCloses
<1>4. /\ text' \in [Segs -> Seq(Entries)] /\ open' = None /\ buf' = <<>> /\ Buffered'
      /\ Sound(DiskNow', said)
      /\ ok => DiskNow' = Disk(None, files, DiskNow.lines, states, whole)
  BY <1>1, <1>2, <1>3, ClosedDisk
<1>5. <<>> \in Seq(Entries) /\ None \in Segs \union {None}
  OBVIOUS
<1>6. error' \in {"none", "full", "io"} /\ (ok \/ error' # "none")
  BY <1>1, <1>3, FailingErrs DEF WriterTypeOK
<1>7. WriterTypeOK'
  BY <1>1, <1>2, <1>4, <1>5, <1>6 DEF WriterTypeOK
<1>8. Closed
  BY <1>2, <1>3, <1>4, <1>6 DEF Closed
<1> QED
  BY <1>4, <1>7, <1>8 DEF Wrote

LEMMA WriterNextStep ==
  ASSUME Before, WriterNext
  PROVE  Wrote
  BY WriteBeginStep, WriteStateStep, WriteLineStep, WriteRemoveTextStep, WriteRemoveStateStep,
     WriteEndStep, WriteFlushStep, WriterTurnsStep, WriterClosesStep DEF WriterNext

-----------------------------------------------------------------------------
(* The steps of the writer keep the invariant. *)

hostVars == <<pc, switches, recording, kept, rows, heard, pending, said, loud, changes>>

LEMMA UnitsUsed ==
  ASSUME TypeOK, Weighed
  PROVE  /\ used = Units(queue)
         /\ queue # <<>> => used = Head(queue).size + Units(Tail(queue))
         /\ queue # <<>> => used - Head(queue).size = Units(Tail(queue)) /\ Units(Tail(queue)) \in Nat
         /\ \A c \in Commands : Units(Append(queue, c)) = used + c.size
         /\ \A c \in Commands : c.size \in Nat \ {0}
<1>1. queue \in Seq(Commands) /\ used \in Nat /\ \A c \in Commands : c.size \in Nat \ {0}
  BY CommandParts DEF TypeOK, WriterTypeOK
<1>2. used = Units(queue)
  BY DEF Weighed, Units
<1>3. \A c \in Commands : Units(Append(queue, c)) = used + c.size
  BY <1>1, <1>2, UnitsAppend
<1>4. ASSUME queue # <<>>
      PROVE  /\ used = Head(queue).size + Units(Tail(queue))
             /\ used - Head(queue).size = Units(Tail(queue))
             /\ Units(Tail(queue)) \in Nat
  <2>1. Head(queue) \in Commands /\ Tail(queue) \in Seq(Commands)
    BY <1>1, <1>4, HeadTailProperties
  <2>2. Units(Tail(queue)) \in Nat
    BY <1>1, <2>1, UnitsNat
  <2>3. used = Head(queue).size + Units(Tail(queue))
    BY <1>1, <1>2, <1>4, UnitsTail
  <2>4. Head(queue).size \in Nat
    BY <1>1, <2>1
  <2> QED
    BY <2>2, <2>3, <2>4
<1> QED
  BY <1>1, <1>2, <1>3, <1>4

LEMMA PromisedKeeps ==
  ASSUME Promised
  PROVE  Sound(DiskNow, said) /\ (Running => Keeps(DiskNow, queue, said))
  BY DEF Promised, Keeps

LEMMA IsBefore ==
  ASSUME IInv
  PROVE  Before
<1>1. TypeOK /\ Threads /\ Weighed /\ Promised
  BY DEF IInv
<1>2. WriterTypeOK /\ said \in Words /\ used \in Nat
  BY <1>1 DEF TypeOK, WriterTypeOK, Words
<1>3. Buffered
  BY <1>1 DEF Threads, Buffered
<1> QED
  BY <1>1, <1>2, <1>3, UnitsUsed, PromisedKeeps DEF Before

LEMMA FinalEmpty ==
  ASSUME NEW d, NEW q, q = <<>>
  PROVE  Final(d, q) = d
<1>1. Len(q) = 0
  OBVIOUS
<1> QED
  BY <1>1, AheadAt DEF Final

LEMMA WriterHost ==
  ASSUME IInv, WriterStep
  PROVE  TypeOK' /\ Control' /\ Noted' /\ Accounted' /\ SaidSoFar'
<1>1. WriterTypeOK'
  BY IsBefore, WriterNextStep DEF WriterStep, Wrote
<1>2. UNCHANGED hostVars
  BY DEF WriterStep, hostVars
<1> USE <1>2 DEF IInv, hostVars, switches, kept, heard
<1>3. TypeOK'
  BY <1>1 DEF TypeOK
<1>4. Control'
  BY DEF Control, Flow, Recorded, Numbers, Opening
<1>5. Noted'
  BY DEF Noted
<1>6. Accounted'
  BY DEF Accounted, Slotted
<1>7. SaidSoFar'
  BY DEF SaidSoFar, Opening
<1> QED
  BY <1>3, <1>4, <1>5, <1>6, <1>7

LEMMA WriterThreads ==
  ASSUME IInv, WriterStep
  PROVE  Threads' /\ Weighed'
<1>1. TypeOK /\ Threads /\ Weighed
  BY DEF IInv
<1>2. Buffered' /\ (Moved \/ Broke \/ Stays \/ Closed)
  BY IsBefore, WriterNextStep DEF WriterStep, Wrote
<1>3. UNCHANGED <<pc, started, segment, loud>>
  BY DEF WriterStep, switches, kept
<1>4. Weighed'
  <2>0. used \in Nat /\ Capacity \in Nat
    BY <1>1, WriterAssumption DEF TypeOK, WriterTypeOK
  <2>1. CASE Moved
    <3>1. queue # <<>> /\ queue' = Tail(queue) /\ used' = used - Head(queue).size
      BY <2>1 DEF Moved
    <3>2. used' = Units(queue') /\ used' \in Nat /\ used' <= used
      <4>1. Head(queue) \in Commands
        BY <1>1, <3>1, HeadTailProperties DEF TypeOK, WriterTypeOK
      <4> QED
        BY <1>1, <2>0, <3>1, <4>1, UnitsUsed
    <3> QED
      BY <1>1, <2>0, <3>2 DEF Weighed, Units
  <2>2. CASE UNCHANGED <<queue, used>>
    BY <1>1, <2>2 DEF Weighed
  <2> QED
    BY <1>2, <2>1, <2>2 DEF Broke, Stays, Closed, queueVars
<1>5. Threads'
  <2>1. CASE Moved
    BY <1>1, <1>2, <1>3, <2>1 DEF Threads, Moved, Buffered
  <2>2. CASE Broke
    BY <1>1, <1>2, <1>3, <2>2 DEF Threads, Broke, Buffered, Running
  <2>3. CASE Stays
    BY <1>1, <1>2, <1>3, <2>3 DEF Threads, Stays, Buffered, queueVars, Ending
  <2>4. CASE Closed
    BY <1>1, <1>2, <1>3, <2>4 DEF Threads, Closed, Buffered
  <2> QED
    BY <1>2, <2>1, <2>2, <2>3, <2>4
<1> QED
  BY <1>4, <1>5

LEMMA WriterPromises ==
  ASSUME IInv, WriterStep
  PROVE  Promised' /\ Planning'
<1>1. TypeOK /\ Threads /\ Promised /\ Planning /\ Control /\ Before
  BY IsBefore DEF IInv
<1>2. WriterTypeOK' /\ (Moved \/ Broke \/ Stays \/ Closed)
  BY <1>1, WriterNextStep DEF WriterStep, Wrote
<1>3. UNCHANGED hostVars /\ UNCHANGED said
  BY DEF WriterStep, hostVars
<1>4. DiskNow \in Disks /\ queue \in Seq(Commands) /\ said \in Words /\ WriterTypeOK
  BY <1>1, NowParts DEF Before, WriterTypeOK
<1>5. ASSUME Keeps(DiskNow', queue', said) \/ ~Running', Sound(DiskNow', said) PROVE Promised'
  BY <1>3, <1>5 DEF Promised, Keeps
<1>6. ASSUME error' = "none" => error = "none" /\ Planned' = Planned PROVE Planning'
  BY <1>1, <1>3, <1>6 DEF Planning, Meant, TextsMeant, StatesMeant, Live, hostVars, switches, kept, Opening
<1>7. CASE Moved
  <2> DEFINE d == DiskNow
             e == DiskNow'
  <2>1. queue # <<>> /\ worker = "on" /\ queue' = Tail(queue) /\ e = Apply(Head(queue), d) /\ UNCHANGED error
    BY <1>7 DEF Moved
  <2>2. Keeps(d, queue, said)
    BY <1>1, <2>1 DEF Before, Running
  <2>3. d \in Disks
    BY <1>4
  <2>4. Sound(e, said)
    BY <1>1, <2>1, AtHead
  <2> HIDE DEF d, e
  <2>5. Keeps(e, queue', said) /\ Final(e, queue') = Final(d, queue)
    BY <1>4, <2>1, <2>2, <2>3, KeepsTail
  <2>6. Planned' = Planned
    BY <2>5 DEF d, e, Final, Planned
  <2> QED
    BY <1>5, <1>6, <2>1, <2>4, <2>5, <2>6 DEF e
<1>8. CASE Broke
  BY <1>5, <1>6, <1>8 DEF Broke, Running
<1>9. CASE Stays
  <2>1. DiskNow' = DiskNow /\ queue' = queue /\ error' = error /\ Running
    BY <1>9 DEF Stays, queueVars, Running
  <2>2. Planned' = Planned
    BY <2>1 DEF Planned
  <2>3. Keeps(DiskNow', queue', said) /\ Sound(DiskNow', said)
    BY <1>1, <2>1 DEF Before
  <2> QED
    BY <1>5, <1>6, <2>1, <2>2, <2>3
<1>10. CASE Closed
  <2>1. Promised'
    BY <1>5, <1>10 DEF Closed, Running
  <2>2. ASSUME error' = "none"
        PROVE  /\ Planned' = Disk(None, files, DiskNow.lines, states, whole)
               /\ Planned = DiskNow /\ error = "none"
               /\ pc \in {"join", "exit"}
    <3>1. error = "none" /\ queue' = queue /\ DiskNow' = Disk(None, files, DiskNow.lines, states, whole)
      BY <1>10, <2>2 DEF Closed
    <3>2. stop /\ queue = <<>>
      BY <1>1, <1>10, <3>1 DEF Threads, Closed
    <3>3. Final(DiskNow, queue) = DiskNow /\ Final(DiskNow', queue') = DiskNow'
      BY <3>1, <3>2, FinalEmpty
    <3>4. pc \in {"join", "exit"}
      BY <1>1, <3>2 DEF Threads
    <3> QED
      BY <3>1, <3>3, <3>4 DEF Final, Planned
  <2>3. Planning'
    <3> SUFFICES ASSUME error' = "none" PROVE Planning'
      BY DEF Planning
    <3> DEFINE p == Disk(None, files, DiskNow.lines, states, whole)
    <3>1. Planned' = p /\ Planned = DiskNow /\ error = "none" /\ pc \in {"join", "exit"}
      BY <2>2
    <3>2. /\ DiskNow.files = files /\ DiskNow.states = states /\ DiskNow.whole = whole
          /\ p.files = files /\ p.states = states /\ p.whole = whole
          /\ p.lines = DiskNow.lines /\ p.open = None
      BY <1>4, NowParts, DiskFields
    <3> HIDE DEF p
    <3>3. \A n \in Live : Planned'.lines[n] = said[n]
      BY <1>1, <3>1, <3>2 DEF Planning
    <3>4. ~recording
      BY <1>1, <3>1 DEF Control, Recorded
    <3>5. ~failed => Meant(p)
      BY <1>1, <3>1, <3>2, <3>4 DEF Planning, Meant
    <3> QED
      BY <1>3, <3>1, <3>3, <3>5
      DEF Planning, Meant, TextsMeant, StatesMeant, Live, hostVars, switches, kept, Opening
  <2> QED
    BY <2>1, <2>3
<1> QED
  BY <1>2, <1>7, <1>8, <1>9, <1>10

LEMMA WriterStepInv ==
  ASSUME IInv, WriterStep
  PROVE  IInv'
  BY WriterHost, WriterThreads, WriterPromises DEF IInv

-----------------------------------------------------------------------------
(* What the emulation thread puts into the queue. *)

LEMMA PlannedSound ==
  ASSUME IInv
  PROVE  /\ Planned \in Disks /\ DiskNow \in Disks
         /\ Running => Sound(Planned, said)
         /\ Planned = Final(DiskNow, queue)
<1>1. /\ DiskNow \in Disks /\ queue \in Seq(Commands) /\ Len(queue) \in Nat
      /\ Running => Keeps(DiskNow, queue, said)
  BY IsBefore, NowParts, LenProperties DEF Before, WriterTypeOK
<1>2. Len(queue) \in 0 .. Len(queue) /\ Planned = Ahead(DiskNow, queue)[Len(queue)]
  BY <1>1 DEF Planned
<1> DEFINE d == DiskNow
<1> HIDE DEF d
<1>3. d \in Disks /\ (Running => Keeps(d, queue, said))
  BY <1>1 DEF d
<1>4. Ahead(d, queue)[Len(queue)] \in Disks
  BY <1>1, <1>2, <1>3, AheadType
<1> QED
  BY <1>1, <1>2, <1>3, <1>4 DEF d, Final, Keeps

(* A put that is taken, and one that is refused. *)
LEMMA PutParts ==
  ASSUME IInv, NEW c \in Commands, Enqueue(c)
  PROVE  /\ queue' \in Seq(Commands) /\ used' \in Nat /\ stop' = stop
         /\ error' \in {"none", "full", "io"}
         /\ Weighed'
         /\ Accepts(c) => /\ Running /\ error = "none" /\ ~stop
                          /\ queue' = Append(queue, c) /\ error' = "none"
         /\ ~Accepts(c) => /\ UNCHANGED queue
                           /\ error = "none" /\ ~stop => error' = "full"
                           /\ error # "none" => error' = error
<1>1. /\ queue \in Seq(Commands) /\ used \in Nat /\ stop \in BOOLEAN /\ Capacity \in Nat
      /\ error \in {"none", "full", "io"} /\ TypeOK /\ Threads /\ Weighed
  BY WriterAssumption DEF IInv, TypeOK, WriterTypeOK
<1>2. c.size \in Nat /\ Units(Append(queue, c)) = used + c.size
  BY <1>1, UnitsUsed
<1>3. stop' = stop
  BY DEF Enqueue
<1>4. CASE Accepts(c)
  <2>1. /\ queue' = Append(queue, c) /\ used' = used + c.size /\ error' = error
        /\ ~stop /\ error = "none" /\ used + c.size <= Capacity
    BY <1>4 DEF Enqueue, Accepts
  <2>2. queue' \in Seq(Commands)
    BY <1>1, <2>1, AppendProperties
  <2>3. Weighed'
    BY <1>1, <1>2, <2>1 DEF Weighed, Units
  <2>4. Running
    BY <1>1, <2>1 DEF Threads, Running
  <2> QED
    BY <1>1, <1>2, <1>3, <1>4, <2>1, <2>2, <2>3, <2>4
<1>5. CASE ~Accepts(c)
  <2>1. UNCHANGED <<queue, used>> /\ error' = IF stop THEN error ELSE Failing("full")
    BY <1>5 DEF Enqueue
  <2>2. Weighed'
    BY <1>1, <2>1 DEF Weighed
  <2> QED
    BY <1>1, <1>3, <1>5, <2>1, <2>2 DEF Failing
<1> QED
  BY <1>4, <1>5

(* The disk as planned after a put, and the promises after it.                *)
LEMMA PutKeeps ==
  ASSUME IInv, NEW c \in Commands, Enqueue(c), UNCHANGED <<worker, diskVars>>,
         said' \in Words, Grows(said, said'),
         Accepts(c) => Ready(c, Planned, said')
  PROVE  /\ Promised'
         /\ Accepts(c) => Planned' = Apply(c, Planned) /\ Planned' \in Disks
         /\ ~Accepts(c) => Planned' = Planned
<1> DEFINE d == DiskNow
           more == said'
<1>1. /\ d \in Disks /\ queue \in Seq(Commands) /\ said \in Words /\ more \in Words
      /\ Sound(d, said) /\ (Running => Keeps(d, queue, said))
  BY IsBefore, PlannedSound DEF Before, WriterTypeOK
<1>2. DiskNow' = d /\ Running' = Running
  BY DEF DiskNow, LinesOf, diskVars, Running
<1>3. Planned = Final(d, queue) /\ Planned' = Final(d, queue')
  BY <1>2 DEF Final, Planned
<1>4. Grows(said, more) /\ (Accepts(c) => Ready(c, Final(d, queue), more))
  BY <1>3
<1>5. Planned \in Disks
  BY PlannedSound
<1> HIDE DEF d, more
<1>6. Sound(d, more)
  BY <1>1, <1>4, SoundGrows
<1>7. Running => Keeps(d, queue, more)
  BY <1>1, <1>4, KeepsGrows
<1>8. CASE Accepts(c)
  <2>1. queue' = Append(queue, c) /\ Running
    BY <1>8, PutParts
  <2>2. Keeps(d, queue', more) /\ Final(d, queue') = Apply(c, Final(d, queue))
    BY <1>1, <1>4, <1>7, <1>8, <2>1, KeepsAppend
  <2>3. Promised'
    BY <1>2, <1>6, <2>2 DEF Promised, Keeps, more
  <2> QED
    BY <1>3, <1>5, <1>8, <2>2, <2>3, ApplyType
<1>9. CASE ~Accepts(c)
  <2>1. queue' = queue
    BY <1>9, PutParts
  <2>2. Promised'
    BY <1>2, <1>6, <1>7, <2>1 DEF Promised, Keeps, more
  <2> QED
    BY <1>3, <1>9, <2>1, <2>2
<1> QED
  BY <1>8, <1>9

LEMMA SaidGrows ==
  ASSUME IInv
  PROVE  said \in Words /\ Grows(said, said)
<1>1. said \in Words
  BY IsBefore DEF Before
<1> QED
  BY <1>1, PrefixSelf DEF Grows, Words

(* A step that puts nothing. *)
LEMMA QuietKeeps ==
  ASSUME IInv, UNCHANGED <<queue, diskVars, said>>, Running' = Running
  PROVE  Promised' /\ Planned' = Planned
<1>1. DiskNow' = DiskNow
  BY DEF DiskNow, LinesOf, diskVars
<1>2. Promised
  BY DEF IInv
<1> QED
  BY <1>1, <1>2 DEF Promised, Planned

(* end_segment(): the last segment is closed behind what waits.               *)
QueueEnd == IF recording THEN Enqueue(End) ELSE UNCHANGED queueVars

LEMMA EndKeeps ==
  ASSUME IInv, QueueEnd, UNCHANGED <<worker, diskVars, said>>
  PROVE  /\ queue' \in Seq(Commands) /\ used' \in Nat /\ stop' = stop
         /\ error' \in {"none", "full", "io"}
         /\ Weighed' /\ Promised'
         /\ queue' # queue => Running
         /\ error # "none" => error' = error
         /\ error' = "none" /\ ~stop =>
              /\ Planned'.files = Planned.files /\ Planned'.lines = Planned.lines
              /\ Planned'.states = Planned.states /\ Planned'.whole = Planned.whole
              /\ ~failed /\ pc # "checkpoint" => Planned'.open = None
<1>1. Planned \in Disks /\ End \in Commands
  BY PlannedSound, CommandsMade
<1>2. /\ Control /\ Threads /\ Planning /\ Weighed
      /\ queue \in Seq(Commands) /\ used \in Nat /\ error \in {"none", "full", "io"}
  BY DEF IInv, TypeOK, WriterTypeOK
<1>3. CASE recording
  <2>1. Enqueue(End)
    BY <1>3 DEF QueueEnd
  <2>2. ASSUME Accepts(End) PROVE Ready(End, Planned, said')
    <3>1. error = "none" /\ ~failed /\ segment # None
      BY <1>2, <1>3, <2>2, SegsFinite DEF Accepts, Control, Flow, Recorded, None
    <3>2. Planned.open = segment
      BY <1>2, <1>3, <3>1 DEF Planning, Meant
    <3> QED
      BY <3>1, <3>2 DEF Ready, End
  <2>3. /\ Promised'
        /\ Accepts(End) => Planned' = Apply(End, Planned)
        /\ ~Accepts(End) => Planned' = Planned
    <3>1. said' \in Words /\ Grows(said, said')
      BY SaidGrows
    <3> QED
      BY <1>1, <2>1, <2>2, <3>1, PutKeeps
  <2>4. Accepts(End) => /\ Planned'.files = Planned.files /\ Planned'.lines = Planned.lines
                        /\ Planned'.states = Planned.states /\ Planned'.whole = Planned.whole
                        /\ Planned'.open = None
    <3>1. End.op = "end"
      BY DEF End
    <3> DEFINE e == Apply(End, Planned)
    <3>2. /\ e.open = None /\ e.files = Planned.files /\ e.lines = Planned.lines
          /\ e.states = Planned.states /\ e.whole = Planned.whole
      BY <1>1, <3>1, ApplyFields
    <3>3. Accepts(End) => Planned' = e
      BY <2>3
    <3> HIDE DEF e
    <3> QED
      BY <3>2, <3>3
  <2> QED
    BY <1>1, <2>1, <2>3, <2>4, PutParts
<1>4. CASE ~recording
  <2>1. UNCHANGED queueVars
    BY <1>4 DEF QueueEnd
  <2>2. Promised' /\ Planned' = Planned /\ Weighed'
    BY <1>2, <2>1, QuietKeeps DEF queueVars, Running, Weighed
  <2>3. error = "none" /\ ~failed /\ pc # "checkpoint" => Planned.open = None
    BY <1>2, <1>4 DEF Planning, Meant
  <2> QED
    BY <1>2, <2>1, <2>2, <2>3 DEF queueVars
<1> QED
  BY <1>3, <1>4

-----------------------------------------------------------------------------
(* What the steps that may fail do to the emulation thread's own state, taken  *)
(* apart: the step that works and the one that does not.                       *)

(* start_recorder() that worked, and one that failed.                         *)
StartDone ==
  /\ pc = "host"
  /\ enabled /\ ~failed /\ allow /\ ~started
  /\ UNCHANGED queueVars
  /\ pc' = "open" /\ started' = TRUE /\ suspended' = FALSE /\ mod_paused' = FALSE
  /\ oldest' = 1 /\ pending' = FALSE /\ worker' = "on" /\ allow' = allow /\ enabled' = enabled
  /\ failed' = failed /\ recording' = recording /\ segment' = segment /\ sizes' = sizes
  /\ history' = history /\ len' = len /\ rows' = rows /\ ev' = ev /\ news' = news
  /\ untold' = untold /\ said' = said /\ loud' = loud /\ UNCHANGED diskVars
StartFailed ==
  /\ pc = "host"
  /\ enabled /\ ~failed /\ allow /\ ~started
  /\ UNCHANGED queueVars
  /\ pc' = "run" /\ enabled' = FALSE /\ pending' = FALSE /\ worker' = worker /\ allow' = allow
  /\ started' = started /\ failed' = failed /\ suspended' = suspended
  /\ mod_paused' = mod_paused /\ recording' = recording /\ segment' = segment
  /\ oldest' = oldest /\ sizes' = sizes /\ history' = history /\ len' = len /\ rows' = rows
  /\ ev' = ev /\ news' = news /\ untold' = untold /\ said' = said /\ loud' = loud
  /\ UNCHANGED diskVars

(* A machine that was saved, and one that was not.                            *)
OpenDone ==
  /\ pc = "open"
  /\ EndSegment
  /\ pc' = "evict" /\ recording' = FALSE /\ segment' = segment + 1 /\ untold' = {}
  /\ len' \in Sizes /\ worker' = worker /\ allow' = allow /\ enabled' = enabled
  /\ started' = started /\ failed' = failed /\ suspended' = suspended
  /\ mod_paused' = mod_paused /\ oldest' = oldest /\ sizes' = sizes /\ history' = history
  /\ rows' = rows /\ ev' = ev /\ news' = news /\ pending' = pending /\ said' = said
  /\ loud' = loud /\ UNCHANGED diskVars
OpenFailed ==
  /\ pc = "open"
  /\ EndSegment
  /\ pc' = "run" /\ failed' = TRUE /\ recording' = FALSE /\ loud' = TRUE /\ worker' = worker
  /\ allow' = allow /\ enabled' = enabled /\ started' = started /\ suspended' = suspended
  /\ mod_paused' = mod_paused /\ segment' = segment /\ oldest' = oldest /\ sizes' = sizes
  /\ history' = history /\ len' = len /\ rows' = rows /\ ev' = ev /\ news' = news
  /\ untold' = untold /\ pending' = pending /\ said' = said /\ UNCHANGED diskVars

(* A checkpoint whose removal the queue took, or not.                         *)
EvictDone ==
  /\ pc = "evict_state"
  /\ Enqueue(RemoveState(oldest))
  /\ error' = "none"
  /\ pc' = "evict" /\ oldest' = oldest + 1 /\ sizes' = [sizes EXCEPT ![Slot(oldest)] = 0]
  /\ history' = history - sizes[Slot(oldest)] /\ worker' = worker /\ allow' = allow
  /\ enabled' = enabled /\ started' = started /\ failed' = failed /\ suspended' = suspended
  /\ mod_paused' = mod_paused /\ recording' = recording /\ segment' = segment /\ len' = len
  /\ rows' = rows /\ ev' = ev /\ news' = news /\ untold' = untold /\ pending' = pending
  /\ said' = said /\ loud' = loud /\ UNCHANGED diskVars
EvictFailed ==
  /\ pc = "evict_state"
  /\ Enqueue(RemoveState(oldest))
  /\ error' # "none"
  /\ pc' = "run" /\ failed' = TRUE /\ recording' = FALSE /\ oldest' = oldest + 1
  /\ sizes' = [sizes EXCEPT ![Slot(oldest)] = 0] /\ history' = history - sizes[Slot(oldest)]
  /\ loud' = TRUE /\ worker' = worker /\ allow' = allow /\ enabled' = enabled
  /\ started' = started /\ suspended' = suspended /\ mod_paused' = mod_paused
  /\ segment' = segment /\ len' = len /\ rows' = rows /\ ev' = ev /\ news' = news
  /\ untold' = untold /\ pending' = pending /\ said' = said /\ UNCHANGED diskVars

(* A segment that was begun, or not.                                          *)
BeginDone ==
  /\ pc = "evict"
  /\ ~MustEvict
  /\ Enqueue(Begin(segment))
  /\ Accepts(Begin(segment))
  /\ pc' = "checkpoint" /\ sizes' = [sizes EXCEPT ![Slot(segment)] = len]
  /\ history' = history + len /\ worker' = worker /\ allow' = allow /\ enabled' = enabled
  /\ started' = started /\ failed' = failed /\ suspended' = suspended
  /\ mod_paused' = mod_paused /\ recording' = recording /\ segment' = segment
  /\ oldest' = oldest /\ len' = len /\ rows' = rows /\ ev' = ev /\ news' = news
  /\ untold' = untold /\ pending' = pending /\ said' = said /\ loud' = loud
  /\ UNCHANGED diskVars
BeginFailed ==
  /\ pc = "evict"
  /\ ~MustEvict
  /\ \/ Enqueue(Begin(segment)) /\ ~Accepts(Begin(segment))
     \/ UNCHANGED queueVars
  /\ pc' = "run" /\ failed' = TRUE /\ recording' = FALSE
  /\ sizes' = [sizes EXCEPT ![Slot(segment)] = len] /\ history' = history + len
  /\ loud' = TRUE /\ worker' = worker /\ allow' = allow /\ enabled' = enabled
  /\ started' = started /\ suspended' = suspended /\ mod_paused' = mod_paused
  /\ segment' = segment /\ oldest' = oldest /\ len' = len /\ rows' = rows /\ ev' = ev
  /\ news' = news /\ untold' = untold /\ pending' = pending /\ said' = said
  /\ UNCHANGED diskVars

(* A checkpoint the queue took, or not.                                       *)
CheckpointDone ==
  /\ pc = "checkpoint"
  /\ Enqueue(Checkpoint(segment, len))
  /\ Accepts(Checkpoint(segment, len))
  /\ pc' = "lines" /\ recording' = TRUE /\ rows' = 0 /\ ev' = "none"
  /\ news' = news \ {"load", "settings"} /\ worker' = worker /\ allow' = allow
  /\ enabled' = enabled /\ started' = started /\ failed' = failed /\ suspended' = suspended
  /\ mod_paused' = mod_paused /\ segment' = segment /\ oldest' = oldest /\ sizes' = sizes
  /\ history' = history /\ len' = len /\ untold' = untold /\ pending' = pending
  /\ said' = said /\ loud' = loud /\ UNCHANGED diskVars
CheckpointFailed ==
  /\ pc = "checkpoint"
  /\ \/ Enqueue(Checkpoint(segment, len)) /\ ~Accepts(Checkpoint(segment, len))
     \/ UNCHANGED queueVars
  /\ pc' = "run" /\ failed' = TRUE /\ recording' = FALSE /\ loud' = TRUE /\ worker' = worker
  /\ allow' = allow /\ enabled' = enabled /\ started' = started /\ suspended' = suspended
  /\ mod_paused' = mod_paused /\ segment' = segment /\ oldest' = oldest /\ sizes' = sizes
  /\ history' = history /\ len' = len /\ rows' = rows /\ ev' = ev /\ news' = news
  /\ untold' = untold /\ pending' = pending /\ said' = said /\ UNCHANGED diskVars

LEMMA StartRecorderCases ==
  ASSUME StartRecorder
  PROVE  StartDone \/ StartFailed
  BY DEF StartRecorder, StartDone, StartFailed, switches, kept, heard

LEMMA OpenSegmentCases ==
  ASSUME OpenSegment
  PROVE  OpenDone \/ OpenFailed
  BY DEF OpenSegment, EndSegment, StopRecording, OpenDone, OpenFailed, switches, kept, heard

LEMMA EvictStateCases ==
  ASSUME EvictState
  PROVE  EvictDone \/ EvictFailed
  BY DEF EvictState, GoesOn, StopRecording, EvictDone, EvictFailed, switches, kept, heard

LEMMA BeginSegmentCases ==
  ASSUME BeginSegment
  PROVE  BeginDone \/ BeginFailed
  BY DEF BeginSegment, GoesOn, StopRecording, BeginDone, BeginFailed, switches, kept, heard

LEMMA QueueCheckpointCases ==
  ASSUME QueueCheckpoint
  PROVE  CheckpointDone \/ CheckpointFailed
  BY DEF QueueCheckpoint, StopRecording, CheckpointDone, CheckpointFailed, switches, kept, heard

(* The types the emulation thread's steps need. *)
HostTypes ==
  /\ pc \in {"host", "open", "evict", "evict_state", "checkpoint", "lines", "run", "stop", "join", "exit"}
  /\ allow \in BOOLEAN /\ enabled \in BOOLEAN /\ started \in BOOLEAN /\ failed \in BOOLEAN
  /\ suspended \in BOOLEAN /\ mod_paused \in BOOLEAN /\ recording \in BOOLEAN
  /\ pending \in BOOLEAN /\ loud \in BOOLEAN
  /\ segment \in Nat /\ segment <= MaxSegment /\ oldest \in Nat /\ len \in Nat /\ rows \in Nat
  /\ MaxSegment \in Nat \ {0} /\ SegmentFrames \in Nat \ {0}
  /\ \A s \in Sizes : s \in Nat /\ s # 0
  /\ untold \subseteq {"poke", "change"} /\ ev \in {"none", "some", "over"}

LEMMA HostTypesHold ==
  ASSUME TypeOK
  PROVE  HostTypes
<1>1. MaxSegment \in Nat \ {0} /\ SegmentFrames \in Nat \ {0} /\ Sizes \subseteq Nat \ {0}
  BY WriterAssumption, ReplayAssumption
<1>2. /\ allow \in BOOLEAN /\ enabled \in BOOLEAN /\ started \in BOOLEAN /\ failed \in BOOLEAN
      /\ suspended \in BOOLEAN /\ mod_paused \in BOOLEAN /\ recording \in BOOLEAN
      /\ pending \in BOOLEAN /\ loud \in BOOLEAN
  BY DEF TypeOK
<1>3. segment \in Nat /\ segment <= MaxSegment /\ oldest \in Nat /\ len \in Nat /\ rows \in Nat
  BY <1>1 DEF TypeOK
<1> QED
  BY <1>1, <1>2, <1>3 DEF TypeOK, HostTypes

-----------------------------------------------------------------------------
(* The steps of the emulation thread, one part of the invariant at a time. *)

(* Where the frame is. *)
LEMMA ControlStep ==
  ASSUME IInv, HostStep \/ RecorderStep
  PROVE  Control'
<1>0. HostTypes /\ Control
  BY HostTypesHold DEF IInv
<1>1. CASE enabled /\ ~failed /\ Poke
  BY <1>0, <1>1 DEF Poke, Control, Flow, Recorded, Numbers, Opening, HostTypes, switches,
     kept, heard
<1>2. CASE \E kind \in {"load", "settings", "moved"} : Change(kind)
  BY <1>0, <1>2 DEF Change, Control, Flow, Recorded, Numbers, Opening, HostTypes, switches,
     kept, heard
<1>3. CASE \E on \in BOOLEAN : ModsReapply(on)
  BY <1>0, <1>3 DEF ModsReapply, Control, Flow, Recorded, Numbers, Opening, HostTypes,
     switches, kept, heard
<1>4. CASE enabled /\ ~failed /\ OnlineFrame
  BY <1>0, <1>4 DEF OnlineFrame, EndSegment, Control, Flow, Recorded, Numbers, Opening,
     HostTypes, switches, kept, heard
<1>5. CASE FrameUnrecorded
  BY <1>0, <1>5 DEF FrameUnrecorded, EndSegment, StopRecording, Control, Flow, Recorded,
     Numbers, Opening, HostTypes, switches, kept, heard
<1>6. CASE StartRecorder
  <2>1. StartDone \/ StartFailed
    BY <1>6, StartRecorderCases
  <2>2. CASE StartDone
    BY <1>0, <2>2 DEF StartDone, Control, Flow, Recorded, Numbers, Opening, HostTypes
  <2>3. CASE StartFailed
    BY <1>0, <2>3 DEF StartFailed, Control, Flow, Recorded, Numbers, Opening, HostTypes
  <2> QED
    BY <2>1, <2>2, <2>3
<1>7. CASE FrameBegin
  BY <1>0, <1>7 DEF FrameBegin, NeedsSegment, Control, Flow, Recorded, Numbers, Opening,
     HostTypes, switches, kept, heard
<1>8. CASE OpenSegment
  <2>1. OpenDone \/ OpenFailed
    BY <1>8, OpenSegmentCases
  <2>2. CASE OpenDone
    BY <1>0, <2>2 DEF OpenDone, EndSegment, Control, Flow, Recorded, Numbers, Opening,
       HostTypes
  <2>3. CASE OpenFailed
    BY <1>0, <2>3 DEF OpenFailed, EndSegment, Control, Flow, Recorded, Numbers, Opening,
       HostTypes
  <2> QED
    BY <2>1, <2>2, <2>3
<1>9. CASE EvictText
  BY <1>0, <1>9 DEF EvictText, MustEvict, Control, Flow, Recorded, Numbers, Opening,
     HostTypes, switches, kept, heard
<1>10. CASE EvictState
  <2>1. EvictDone \/ EvictFailed
    BY <1>10, EvictStateCases
  <2>2. CASE EvictDone
    BY <1>0, <2>2 DEF EvictDone, Control, Flow, Recorded, Numbers, Opening, HostTypes
  <2>3. CASE EvictFailed
    BY <1>0, <2>3 DEF EvictFailed, Control, Flow, Recorded, Numbers, Opening, HostTypes
  <2> QED
    BY <2>1, <2>2, <2>3
<1>11. CASE BeginSegment
  <2>1. BeginDone \/ BeginFailed
    BY <1>11, BeginSegmentCases
  <2>2. CASE BeginDone
    BY <1>0, <2>2 DEF BeginDone, MustEvict, Control, Flow, Recorded, Numbers, Opening,
       HostTypes
  <2>3. CASE BeginFailed
    BY <1>0, <2>3 DEF BeginFailed, MustEvict, Control, Flow, Recorded, Numbers, Opening,
       HostTypes
  <2> QED
    BY <2>1, <2>2, <2>3
<1>12. CASE QueueCheckpoint
  <2>1. CheckpointDone \/ CheckpointFailed
    BY <1>12, QueueCheckpointCases
  <2>2. CASE CheckpointDone
    BY <1>0, <2>2 DEF CheckpointDone, Control, Flow, Recorded, Numbers, Opening, HostTypes
  <2>3. CASE CheckpointFailed
    BY <1>0, <2>3 DEF CheckpointFailed, Control, Flow, Recorded, Numbers, Opening, HostTypes
  <2> QED
    BY <2>1, <2>2, <2>3
<1>13. CASE RecordEvents
  BY <1>0, <1>13 DEF RecordEvents, WriteOut, GoesOn, StopRecording, Control, Flow, Recorded,
     Numbers, Opening, HostTypes, switches, kept, heard
<1>14. CASE RecordInput
  BY <1>0, <1>14 DEF RecordInput, WriteOut, GoesOn, StopRecording, Control, Flow, Recorded,
     Numbers, Opening, HostTypes, switches, kept, heard
<1>15. CASE FrameEnd
  BY <1>0, <1>15 DEF FrameEnd, WriteOut, GoesOn, StopRecording, Control, Flow, Recorded,
     Numbers, Opening, HostTypes, switches, kept, heard
<1>16. CASE Shutdown
  BY <1>0, <1>16 DEF Shutdown, EndSegment, Control, Flow, Recorded, Numbers, Opening,
     HostTypes, switches, kept, heard
<1>17. CASE AskToStop
  BY <1>0, <1>17 DEF AskToStop, Control, Flow, Recorded, Numbers, Opening, HostTypes,
     switches, kept, heard
<1>18. CASE Join
  BY <1>0, <1>18 DEF Join, Control, Flow, Recorded, Numbers, Opening, HostTypes, switches,
     kept, heard
<1> QED
  BY <1>1, <1>2, <1>3, <1>4, <1>5, <1>6, <1>7, <1>8, <1>9, <1>10, <1>11, <1>12, <1>13,
     <1>14, <1>15, <1>16, <1>17, <1>18 DEF HostStep, RecorderStep

(* What changed the machine is told or noted. *)
LEMMA NotedStep ==
  ASSUME IInv, HostStep \/ RecorderStep
  PROVE  Noted'
<1>0. HostTypes /\ Control /\ Noted
  BY HostTypesHold DEF IInv
<1>1. CASE enabled /\ ~failed /\ Poke
  BY <1>0, <1>1 DEF Poke, Noted, Control, Flow, Recorded, Numbers, Opening, HostTypes,
     switches, kept, heard
<1>2. CASE \E kind \in {"load", "settings", "moved"} : Change(kind)
  BY <1>0, <1>2 DEF Change, Noted, Control, Flow, Recorded, Numbers, Opening, HostTypes,
     switches, kept, heard
<1>3. CASE \E on \in BOOLEAN : ModsReapply(on)
  BY <1>0, <1>3 DEF ModsReapply, Noted, Control, Flow, Recorded, Numbers, Opening,
     HostTypes, switches, kept, heard
<1>4. CASE enabled /\ ~failed /\ OnlineFrame
  BY <1>0, <1>4 DEF OnlineFrame, EndSegment, Noted, Control, Flow, Recorded, Numbers,
     Opening, HostTypes, switches, kept, heard
<1>5. CASE FrameUnrecorded
  BY <1>0, <1>5 DEF FrameUnrecorded, EndSegment, StopRecording, Noted, Control, Flow,
     Recorded, Numbers, Opening, HostTypes, switches, kept, heard
<1>6. CASE StartRecorder
  <2>1. StartDone \/ StartFailed
    BY <1>6, StartRecorderCases
  <2>2. CASE StartDone
    BY <1>0, <2>2 DEF StartDone, Noted, Control, Flow, Recorded, Numbers, Opening, HostTypes
  <2>3. CASE StartFailed
    BY <1>0, <2>3 DEF StartFailed, Noted, Control, Flow, Recorded, Numbers, Opening,
       HostTypes
  <2> QED
    BY <2>1, <2>2, <2>3
<1>7. CASE FrameBegin
  BY <1>0, <1>7 DEF FrameBegin, NeedsSegment, Noted, Control, Flow, Recorded, Numbers,
     Opening, HostTypes, switches, kept, heard
<1>8. CASE OpenSegment
  <2>1. OpenDone \/ OpenFailed
    BY <1>8, OpenSegmentCases
  <2>2. CASE OpenDone
    BY <1>0, <2>2 DEF OpenDone, EndSegment, Noted, Control, Flow, Recorded, Numbers,
       Opening, HostTypes
  <2>3. CASE OpenFailed
    BY <1>0, <2>3 DEF OpenFailed, EndSegment, Noted, Control, Flow, Recorded, Numbers,
       Opening, HostTypes
  <2> QED
    BY <2>1, <2>2, <2>3
<1>9. CASE EvictText
  BY <1>0, <1>9 DEF EvictText, MustEvict, Noted, Control, Flow, Recorded, Numbers, Opening,
     HostTypes, switches, kept, heard
<1>10. CASE EvictState
  <2>1. EvictDone \/ EvictFailed
    BY <1>10, EvictStateCases
  <2>2. CASE EvictDone
    BY <1>0, <2>2 DEF EvictDone, Noted, Control, Flow, Recorded, Numbers, Opening, HostTypes
  <2>3. CASE EvictFailed
    BY <1>0, <2>3 DEF EvictFailed, Noted, Control, Flow, Recorded, Numbers, Opening,
       HostTypes
  <2> QED
    BY <2>1, <2>2, <2>3
<1>11. CASE BeginSegment
  <2>1. BeginDone \/ BeginFailed
    BY <1>11, BeginSegmentCases
  <2>2. CASE BeginDone
    BY <1>0, <2>2 DEF BeginDone, MustEvict, Noted, Control, Flow, Recorded, Numbers,
       Opening, HostTypes
  <2>3. CASE BeginFailed
    BY <1>0, <2>3 DEF BeginFailed, MustEvict, Noted, Control, Flow, Recorded, Numbers,
       Opening, HostTypes
  <2> QED
    BY <2>1, <2>2, <2>3
<1>12. CASE QueueCheckpoint
  <2>1. CheckpointDone \/ CheckpointFailed
    BY <1>12, QueueCheckpointCases
  <2>2. CASE CheckpointDone
    BY <1>0, <2>2 DEF CheckpointDone, Noted, Control, Flow, Recorded, Numbers, Opening,
       HostTypes
  <2>3. CASE CheckpointFailed
    BY <1>0, <2>3 DEF CheckpointFailed, Noted, Control, Flow, Recorded, Numbers, Opening,
       HostTypes
  <2> QED
    BY <2>1, <2>2, <2>3
<1>13. CASE RecordEvents
  BY <1>0, <1>13 DEF RecordEvents, WriteOut, GoesOn, StopRecording, Noted, Control, Flow,
     Recorded, Numbers, Opening, HostTypes, switches, kept, heard
<1>14. CASE RecordInput
  BY <1>0, <1>14 DEF RecordInput, WriteOut, GoesOn, StopRecording, Noted, Control, Flow,
     Recorded, Numbers, Opening, HostTypes, switches, kept, heard
<1>15. CASE FrameEnd
  BY <1>0, <1>15 DEF FrameEnd, WriteOut, GoesOn, StopRecording, Noted, Control, Flow,
     Recorded, Numbers, Opening, HostTypes, switches, kept, heard
<1>16. CASE Shutdown
  BY <1>0, <1>16 DEF Shutdown, EndSegment, Noted, Control, Flow, Recorded, Numbers, Opening,
     HostTypes, switches, kept, heard
<1>17. CASE AskToStop
  BY <1>0, <1>17 DEF AskToStop, Noted, Control, Flow, Recorded, Numbers, Opening, HostTypes,
     switches, kept, heard
<1>18. CASE Join
  BY <1>0, <1>18 DEF Join, Noted, Control, Flow, Recorded, Numbers, Opening, HostTypes,
     switches, kept, heard
<1> QED
  BY <1>1, <1>2, <1>3, <1>4, <1>5, <1>6, <1>7, <1>8, <1>9, <1>10, <1>11, <1>12, <1>13,
     <1>14, <1>15, <1>16, <1>17, <1>18 DEF HostStep, RecorderStep

(* What a step of the emulation thread may do to the queue and the writer.    *)
QueueMoves ==
  /\ queue' \in Seq(Commands) /\ used' \in Nat /\ stop' \in BOOLEAN
  /\ error' \in {"none", "full", "io"} /\ Weighed'
  /\ queue' = queue \/ (started /\ Running)
  /\ error # "none" => error' = error
  /\ stop => stop'
  /\ stop' = stop \/ pc' = "join"
  /\ \/ worker' = worker
     \/ /\ pc = "host" /\ pc' = "open" /\ ~started /\ segment' = segment
        /\ worker' = "on" /\ queue' = queue /\ stop' = stop
  /\ UNCHANGED diskVars

LEMMA QuietMoves ==
  ASSUME IInv, UNCHANGED <<queueVars, worker, diskVars>>
  PROVE  QueueMoves
<1>1. /\ queue \in Seq(Commands) /\ used \in Nat /\ stop \in BOOLEAN
      /\ error \in {"none", "full", "io"} /\ Weighed
  BY DEF IInv, TypeOK, WriterTypeOK
<1>2. UNCHANGED <<queue, used, stop, error, worker, diskVars>>
  BY DEF queueVars
<1>3. Weighed'
  BY <1>1, <1>2 DEF Weighed
<1> QED
  BY <1>1, <1>2, <1>3 DEF QueueMoves

LEMMA PutMoves ==
  ASSUME IInv, started, NEW c \in Commands, Enqueue(c), UNCHANGED <<worker, diskVars>>
  PROVE  QueueMoves
<1>1. stop \in BOOLEAN
  BY DEF IInv, TypeOK, WriterTypeOK
<1>2. /\ queue' \in Seq(Commands) /\ used' \in Nat /\ stop' = stop
      /\ error' \in {"none", "full", "io"} /\ Weighed'
      /\ queue' = queue \/ Running
      /\ error # "none" => error' = error
  BY PutParts DEF Accepts
<1> QED
  BY <1>1, <1>2 DEF QueueMoves

LEMMA EndMoves ==
  ASSUME IInv, QueueEnd, UNCHANGED <<worker, diskVars>>
  PROVE  QueueMoves
<1>1. End \in Commands /\ (recording => started)
  BY CommandsMade DEF IInv, Control, Recorded
<1> QED
  BY <1>1, PutMoves, QuietMoves DEF QueueEnd

LEMMA NumbersInRange ==
  ASSUME IInv
  PROVE  /\ HostTypes /\ Control
         /\ segment > 0 => segment \in Segs /\ oldest \in Segs
         /\ pc \in {"evict", "evict_state", "checkpoint", "lines"} =>
              segment \in Segs /\ oldest \in Segs
         /\ recording => segment \in Segs /\ oldest \in Segs
         /\ pc \in Opening => len \in Sizes
<1>1. HostTypes /\ Control /\ len \in Sizes \union {0}
  BY HostTypesHold DEF IInv, TypeOK
<1> QED
  BY <1>1 DEF HostTypes, Control, Flow, Recorded, Numbers, Opening, Segs

LEMMA NewLineMade ==
  ASSUME TypeOK, segment \in Segs, NEW kind \in {"E", "I", "H"}
  PROVE  NewLine(kind) \in Entries /\ RecordLine(NewLine(kind)) \in Commands
<1>1. rows \in Nat
  BY HostTypesHold DEF HostTypes
<1>2. NewLine(kind) \in Entries
  BY <1>1 DEF NewLine, Entries
<1> QED
  BY <1>2, CommandsMade

(* Every step of the emulation thread is of that kind. *)
LEMMA HostMoves ==
  ASSUME IInv, HostStep \/ RecorderStep
  PROVE  QueueMoves
<1>0. HostTypes /\ Control
  BY NumbersInRange
<1>1. CASE Poke \/ (\E kind \in {"load", "settings", "moved"} : Change(kind))
  BY <1>1, QuietMoves DEF Poke, Change, writerVars
<1>2. CASE (\E on \in BOOLEAN : ModsReapply(on)) \/ FrameBegin \/ Join
  BY <1>2, QuietMoves DEF ModsReapply, FrameBegin, Join, writerVars
<1>3. CASE OnlineFrame
  <2>1. UNCHANGED queueVars \/ QueueEnd
    BY <1>3 DEF OnlineFrame, EndSegment, QueueEnd, queueVars
  <2>2. UNCHANGED <<worker, diskVars>>
    BY <1>3 DEF OnlineFrame
  <2> QED
    BY <2>1, <2>2, QuietMoves, EndMoves
<1>4. CASE FrameUnrecorded
  <2>1. UNCHANGED queueVars \/ QueueEnd
    BY <1>4 DEF FrameUnrecorded, EndSegment, QueueEnd
  <2>2. UNCHANGED <<worker, diskVars>>
    BY <1>4 DEF FrameUnrecorded
  <2> QED
    BY <2>1, <2>2, QuietMoves, EndMoves
<1>5. CASE StartRecorder
  <2>1. StartDone \/ StartFailed
    BY <1>5, StartRecorderCases
  <2>2. CASE StartDone
    <3>1. /\ queue \in Seq(Commands) /\ used \in Nat /\ stop \in BOOLEAN
          /\ error \in {"none", "full", "io"} /\ Weighed
      BY DEF IInv, TypeOK, WriterTypeOK
    <3>2. /\ UNCHANGED <<queue, used, stop, error, diskVars>>
          /\ pc = "host" /\ pc' = "open" /\ ~started /\ segment' = segment /\ worker' = "on"
      BY <2>2 DEF StartDone, queueVars
    <3>3. Weighed'
      BY <3>1, <3>2 DEF Weighed
    <3> QED
      BY <3>1, <3>2, <3>3 DEF QueueMoves
  <2>3. CASE StartFailed
    BY <2>3, QuietMoves DEF StartFailed
  <2> QED
    BY <2>1, <2>2, <2>3
<1>6. CASE OpenSegment
  <2>1. UNCHANGED queueVars \/ QueueEnd
    BY <1>6 DEF OpenSegment, EndSegment, QueueEnd
  <2>2. UNCHANGED <<worker, diskVars>>
    BY <1>6 DEF OpenSegment
  <2> QED
    BY <2>1, <2>2, QuietMoves, EndMoves
<1>7. ASSUME pc \in {"evict", "evict_state", "checkpoint", "lines"}
      PROVE  /\ started
             /\ Begin(segment) \in Commands /\ RemoveText(oldest) \in Commands
             /\ RemoveState(oldest) \in Commands
             /\ pc \in Opening => Checkpoint(segment, len) \in Commands
             /\ \A kind \in {"E", "I", "H"} : RecordLine(NewLine(kind)) \in Commands
  <2>1. segment \in Segs /\ oldest \in Segs /\ (pc \in Opening => len \in Sizes) /\ TypeOK
    BY <1>7, NumbersInRange DEF IInv
  <2>2. started
    BY <1>0, <1>7 DEF Control, Flow, Opening
  <2> QED
    BY <2>1, <2>2, CommandsMade, NewLineMade
<1>8. CASE EvictText
  BY <1>7, <1>8, PutMoves DEF EvictText
<1>9. CASE EvictState
  BY <1>7, <1>9, PutMoves DEF EvictState
<1>10. CASE BeginSegment
  <2>1. UNCHANGED queueVars \/ Enqueue(Begin(segment))
    BY <1>10 DEF BeginSegment
  <2>2. UNCHANGED <<worker, diskVars>> /\ pc = "evict"
    BY <1>10 DEF BeginSegment
  <2> QED
    BY <1>7, <2>1, <2>2, QuietMoves, PutMoves
<1>11. CASE QueueCheckpoint
  <2>1. UNCHANGED queueVars \/ Enqueue(Checkpoint(segment, len))
    BY <1>11 DEF QueueCheckpoint
  <2>2. UNCHANGED <<worker, diskVars>> /\ pc = "checkpoint"
    BY <1>11 DEF QueueCheckpoint
  <2> QED
    BY <1>7, <2>1, <2>2, QuietMoves, PutMoves DEF Opening
<1>12. CASE RecordEvents
  BY <1>7, <1>12, PutMoves DEF RecordEvents, WriteOut
<1>13. CASE RecordInput
  BY <1>7, <1>13, PutMoves DEF RecordInput, WriteOut
<1>14. CASE FrameEnd
  <2>1. UNCHANGED queueVars \/ (recording /\ Enqueue(RecordLine(NewLine("H"))))
    BY <1>14 DEF FrameEnd, WriteOut
  <2>2. UNCHANGED <<worker, diskVars>>
    BY <1>14 DEF FrameEnd
  <2>3. recording => started /\ RecordLine(NewLine("H")) \in Commands
    BY <1>0, NumbersInRange, NewLineMade DEF Control, Recorded, IInv
  <2> QED
    BY <2>1, <2>2, <2>3, QuietMoves, PutMoves
<1>15. CASE Shutdown
  <2>1. UNCHANGED queueVars \/ QueueEnd
    BY <1>15 DEF Shutdown, EndSegment, QueueEnd
  <2>2. UNCHANGED <<worker, diskVars>>
    BY <1>15 DEF Shutdown
  <2> QED
    BY <2>1, <2>2, QuietMoves, EndMoves
<1>16. CASE AskToStop
  <2>1. /\ queue \in Seq(Commands) /\ used \in Nat
        /\ error \in {"none", "full", "io"} /\ Weighed
    BY DEF IInv, TypeOK, WriterTypeOK
  <2>2. UNCHANGED <<queue, used, error, worker, diskVars>> /\ stop' = TRUE /\ pc' = "join"
    BY <1>16 DEF AskToStop
  <2>3. Weighed'
    BY <2>1, <2>2 DEF Weighed
  <2> QED
    BY <2>1, <2>2, <2>3 DEF QueueMoves
<1> QED
  BY <1>1, <1>2, <1>3, <1>4, <1>5, <1>6, <1>8, <1>9, <1>10, <1>11, <1>12, <1>13, <1>14, <1>15,
     <1>16 DEF HostStep, RecorderStep

(* What the writer's side needs to know of the emulation thread's step.       *)
ThreadMarks ==
  /\ started' => started \/ worker' = "on"
  /\ started => started' \/ pc' \in {"stop", "join", "exit"}
  /\ worker' = worker \/ started'
  /\ segment' = segment \/ started
  /\ pc' \in {"stop", "join"} => pc \in {"stop", "join"} \/ started
  /\ pc \in {"join", "exit"} => pc' \in {"join", "exit"}
  /\ pc = "stop" => pc' \in {"stop", "join"}
  /\ (pc' = "exit" /\ segment' > 0) =>
       pc = "join" /\ worker = "done" /\ error' = error /\ (error # "none" => loud')

(* Every step does what it must. *)
LEMMA MarksStep ==
  ASSUME IInv, HostStep \/ RecorderStep
  PROVE  ThreadMarks
<1>0. HostTypes /\ Control
  BY HostTypesHold DEF IInv
<1>1. CASE enabled /\ ~failed /\ Poke
  BY <1>0, <1>1 DEF Poke, writerVars, ThreadMarks, Control, Flow, Recorded, Numbers, Opening, HostTypes,
     switches, kept, heard
<1>2. CASE \E kind \in {"load", "settings", "moved"} : Change(kind)
  BY <1>0, <1>2 DEF Change, writerVars, ThreadMarks, Control, Flow, Recorded, Numbers, Opening,
     HostTypes, switches, kept, heard
<1>3. CASE \E on \in BOOLEAN : ModsReapply(on)
  BY <1>0, <1>3 DEF ModsReapply, writerVars, ThreadMarks, Control, Flow, Recorded, Numbers, Opening,
     HostTypes, switches, kept, heard
<1>4. CASE enabled /\ ~failed /\ OnlineFrame
  BY <1>0, <1>4 DEF OnlineFrame, EndSegment, ThreadMarks, Control, Flow, Recorded, Numbers,
     Opening, HostTypes, switches, kept, heard
<1>5. CASE FrameUnrecorded
  BY <1>0, <1>5 DEF FrameUnrecorded, EndSegment, StopRecording, ThreadMarks, Control, Flow,
     Recorded, Numbers, Opening, HostTypes, switches, kept, heard
<1>6. CASE StartRecorder
  <2>1. StartDone \/ StartFailed
    BY <1>6, StartRecorderCases
  <2>2. CASE StartDone
    BY <1>0, <2>2 DEF StartDone, ThreadMarks, Control, Flow, Recorded, Numbers, Opening,
       HostTypes
  <2>3. CASE StartFailed
    BY <1>0, <2>3 DEF StartFailed, ThreadMarks, Control, Flow, Recorded, Numbers, Opening,
       HostTypes
  <2> QED
    BY <2>1, <2>2, <2>3
<1>7. CASE FrameBegin
  BY <1>0, <1>7 DEF FrameBegin, NeedsSegment, ThreadMarks, Control, Flow, Recorded, Numbers,
     Opening, HostTypes, switches, kept, heard
<1>8. CASE OpenSegment
  <2>1. OpenDone \/ OpenFailed
    BY <1>8, OpenSegmentCases
  <2>2. CASE OpenDone
    BY <1>0, <2>2 DEF OpenDone, EndSegment, ThreadMarks, Control, Flow, Recorded, Numbers,
       Opening, HostTypes
  <2>3. CASE OpenFailed
    BY <1>0, <2>3 DEF OpenFailed, EndSegment, ThreadMarks, Control, Flow, Recorded, Numbers,
       Opening, HostTypes
  <2> QED
    BY <2>1, <2>2, <2>3
<1>9. CASE EvictText
  BY <1>0, <1>9 DEF EvictText, MustEvict, ThreadMarks, Control, Flow, Recorded, Numbers,
     Opening, HostTypes, switches, kept, heard
<1>10. CASE EvictState
  <2>1. EvictDone \/ EvictFailed
    BY <1>10, EvictStateCases
  <2>2. CASE EvictDone
    BY <1>0, <2>2 DEF EvictDone, ThreadMarks, Control, Flow, Recorded, Numbers, Opening,
       HostTypes
  <2>3. CASE EvictFailed
    BY <1>0, <2>3 DEF EvictFailed, ThreadMarks, Control, Flow, Recorded, Numbers, Opening,
       HostTypes
  <2> QED
    BY <2>1, <2>2, <2>3
<1>11. CASE BeginSegment
  <2>1. BeginDone \/ BeginFailed
    BY <1>11, BeginSegmentCases
  <2>2. CASE BeginDone
    BY <1>0, <2>2 DEF BeginDone, MustEvict, ThreadMarks, Control, Flow, Recorded, Numbers,
       Opening, HostTypes
  <2>3. CASE BeginFailed
    BY <1>0, <2>3 DEF BeginFailed, MustEvict, ThreadMarks, Control, Flow, Recorded, Numbers,
       Opening, HostTypes
  <2> QED
    BY <2>1, <2>2, <2>3
<1>12. CASE QueueCheckpoint
  <2>1. CheckpointDone \/ CheckpointFailed
    BY <1>12, QueueCheckpointCases
  <2>2. CASE CheckpointDone
    BY <1>0, <2>2 DEF CheckpointDone, ThreadMarks, Control, Flow, Recorded, Numbers,
       Opening, HostTypes
  <2>3. CASE CheckpointFailed
    BY <1>0, <2>3 DEF CheckpointFailed, ThreadMarks, Control, Flow, Recorded, Numbers,
       Opening, HostTypes
  <2> QED
    BY <2>1, <2>2, <2>3
<1>13. CASE RecordEvents
  BY <1>0, <1>13 DEF RecordEvents, WriteOut, GoesOn, StopRecording, ThreadMarks, Control,
     Flow, Recorded, Numbers, Opening, HostTypes, switches, kept, heard
<1>14. CASE RecordInput
  BY <1>0, <1>14 DEF RecordInput, WriteOut, GoesOn, StopRecording, ThreadMarks, Control,
     Flow, Recorded, Numbers, Opening, HostTypes, switches, kept, heard
<1>15. CASE FrameEnd
  BY <1>0, <1>15 DEF FrameEnd, WriteOut, GoesOn, StopRecording, ThreadMarks, Control, Flow,
     Recorded, Numbers, Opening, HostTypes, switches, kept, heard
<1>16. CASE Shutdown
  BY <1>0, <1>16 DEF Shutdown, EndSegment, ThreadMarks, Control, Flow, Recorded, Numbers,
     Opening, HostTypes, switches, kept, heard
<1>17. CASE AskToStop
  BY <1>0, <1>17 DEF AskToStop, ThreadMarks, Control, Flow, Recorded, Numbers, Opening,
     HostTypes, switches, kept, heard
<1>18. CASE Join
  BY <1>0, <1>18 DEF Join, writerVars, queueVars, ThreadMarks, Control, Flow, Recorded,
     Numbers, Opening, HostTypes, switches, kept, heard
<1> QED
  BY <1>1, <1>2, <1>3, <1>4, <1>5, <1>6, <1>7, <1>8, <1>9, <1>10, <1>11, <1>12, <1>13,
     <1>14, <1>15, <1>16, <1>17, <1>18 DEF HostStep, RecorderStep

(* How far the two threads are. *)
LEMMA ThreadsStep ==
  ASSUME IInv, HostStep \/ RecorderStep
  PROVE  Threads' /\ Weighed'
<1>1. QueueMoves /\ ThreadMarks
  BY HostMoves, MarksStep
<1>2. Threads /\ segment \in Nat /\ stop \in BOOLEAN
  BY HostTypesHold DEF IInv, HostTypes, TypeOK, WriterTypeOK
<1>3. UNCHANGED <<open, buf>> /\ stop' \in BOOLEAN /\ Weighed'
  BY <1>1 DEF QueueMoves, diskVars
<1>4. CASE worker' = worker
  <2>1. worker = "off" => ~started' /\ segment' = 0 /\ queue' = <<>> /\ open' = None
    BY <1>1, <1>2, <1>3, <1>4 DEF Threads, QueueMoves, ThreadMarks
  <2>2. /\ pc' \in {"stop", "join"} => worker # "off"
        /\ worker # "off" => started' \/ pc' \in {"stop", "join", "exit"}
    BY <1>1, <1>2, <1>4 DEF Threads, ThreadMarks
  <2>3. stop' => pc' \in {"join", "exit"}
    BY <1>1, <1>2, <1>3 DEF Threads, QueueMoves, ThreadMarks
  <2>4. worker \in {"closing", "done"} => error' # "none" \/ (stop' /\ queue' = <<>>)
    BY <1>1, <1>2, <1>3 DEF Threads, QueueMoves, Running
  <2>5. (pc' = "exit" /\ segment' > 0) => worker = "done" /\ (error' # "none" => loud')
    BY <1>1 DEF ThreadMarks
  <2> QED
    BY <1>2, <1>3, <1>4, <2>1, <2>2, <2>3, <2>4, <2>5 DEF Threads
<1>5. CASE worker' # worker
  <2>1. /\ worker' = "on" /\ pc' = "open" /\ pc = "host" /\ stop' = stop /\ ~started
    BY <1>1, <1>5 DEF QueueMoves
  <2>2. started'
    BY <1>5, MarksStep DEF ThreadMarks
  <2> QED
    BY <1>2, <1>3, <2>1, <2>2 DEF Threads
<1> QED
  BY <1>3, <1>4, <1>5

(* What is not begun has no lines. *)
LEMMA SaidSoFarStep ==
  ASSUME IInv, HostStep \/ RecorderStep
  PROVE  SaidSoFar'
<1>0. HostTypes /\ Control /\ SaidSoFar /\ said \in [Segs -> Seq(Entries)]
  BY HostTypesHold DEF IInv, TypeOK
<1>1. CASE enabled /\ ~failed /\ Poke
  BY <1>0, <1>1 DEF Poke, SaidSoFar, Segs, Control, Flow, Recorded, Numbers, Opening,
     HostTypes, switches, kept, heard
<1>2. CASE \E kind \in {"load", "settings", "moved"} : Change(kind)
  BY <1>0, <1>2 DEF Change, SaidSoFar, Segs, Control, Flow, Recorded, Numbers, Opening,
     HostTypes, switches, kept, heard
<1>3. CASE \E on \in BOOLEAN : ModsReapply(on)
  BY <1>0, <1>3 DEF ModsReapply, SaidSoFar, Segs, Control, Flow, Recorded, Numbers, Opening,
     HostTypes, switches, kept, heard
<1>4. CASE enabled /\ ~failed /\ OnlineFrame
  BY <1>0, <1>4 DEF OnlineFrame, EndSegment, SaidSoFar, Segs, Control, Flow, Recorded,
     Numbers, Opening, HostTypes, switches, kept, heard
<1>5. CASE FrameUnrecorded
  BY <1>0, <1>5 DEF FrameUnrecorded, EndSegment, StopRecording, SaidSoFar, Segs, Control,
     Flow, Recorded, Numbers, Opening, HostTypes, switches, kept, heard
<1>6. CASE StartRecorder
  <2>1. StartDone \/ StartFailed
    BY <1>6, StartRecorderCases
  <2>2. CASE StartDone
    BY <1>0, <2>2 DEF StartDone, SaidSoFar, Segs, Control, Flow, Recorded, Numbers, Opening,
       HostTypes
  <2>3. CASE StartFailed
    BY <1>0, <2>3 DEF StartFailed, SaidSoFar, Segs, Control, Flow, Recorded, Numbers,
       Opening, HostTypes
  <2> QED
    BY <2>1, <2>2, <2>3
<1>7. CASE FrameBegin
  BY <1>0, <1>7 DEF FrameBegin, NeedsSegment, SaidSoFar, Segs, Control, Flow, Recorded,
     Numbers, Opening, HostTypes, switches, kept, heard
<1>8. CASE OpenSegment
  <2>1. OpenDone \/ OpenFailed
    BY <1>8, OpenSegmentCases
  <2>2. CASE OpenDone
    BY <1>0, <2>2 DEF OpenDone, EndSegment, SaidSoFar, Segs, Control, Flow, Recorded,
       Numbers, Opening, HostTypes
  <2>3. CASE OpenFailed
    BY <1>0, <2>3 DEF OpenFailed, EndSegment, SaidSoFar, Segs, Control, Flow, Recorded,
       Numbers, Opening, HostTypes
  <2> QED
    BY <2>1, <2>2, <2>3
<1>9. CASE EvictText
  BY <1>0, <1>9 DEF EvictText, MustEvict, SaidSoFar, Segs, Control, Flow, Recorded, Numbers,
     Opening, HostTypes, switches, kept, heard
<1>10. CASE EvictState
  <2>1. EvictDone \/ EvictFailed
    BY <1>10, EvictStateCases
  <2>2. CASE EvictDone
    BY <1>0, <2>2 DEF EvictDone, SaidSoFar, Segs, Control, Flow, Recorded, Numbers, Opening,
       HostTypes
  <2>3. CASE EvictFailed
    BY <1>0, <2>3 DEF EvictFailed, SaidSoFar, Segs, Control, Flow, Recorded, Numbers,
       Opening, HostTypes
  <2> QED
    BY <2>1, <2>2, <2>3
<1>11. CASE BeginSegment
  <2>1. BeginDone \/ BeginFailed
    BY <1>11, BeginSegmentCases
  <2>2. CASE BeginDone
    BY <1>0, <2>2 DEF BeginDone, MustEvict, SaidSoFar, Segs, Control, Flow, Recorded,
       Numbers, Opening, HostTypes
  <2>3. CASE BeginFailed
    BY <1>0, <2>3 DEF BeginFailed, MustEvict, SaidSoFar, Segs, Control, Flow, Recorded,
       Numbers, Opening, HostTypes
  <2> QED
    BY <2>1, <2>2, <2>3
<1>12. CASE QueueCheckpoint
  <2>1. CheckpointDone \/ CheckpointFailed
    BY <1>12, QueueCheckpointCases
  <2>2. CASE CheckpointDone
    BY <1>0, <2>2 DEF CheckpointDone, SaidSoFar, Segs, Control, Flow, Recorded, Numbers,
       Opening, HostTypes
  <2>3. CASE CheckpointFailed
    BY <1>0, <2>3 DEF CheckpointFailed, SaidSoFar, Segs, Control, Flow, Recorded, Numbers,
       Opening, HostTypes
  <2> QED
    BY <2>1, <2>2, <2>3
<1>13. CASE RecordEvents
  BY <1>0, <1>13 DEF RecordEvents, WriteOut, GoesOn, StopRecording, SaidSoFar, Segs,
     Control, Flow, Recorded, Numbers, Opening, HostTypes, switches, kept, heard
<1>14. CASE RecordInput
  BY <1>0, <1>14 DEF RecordInput, WriteOut, GoesOn, StopRecording, SaidSoFar, Segs, Control,
     Flow, Recorded, Numbers, Opening, HostTypes, switches, kept, heard
<1>15. CASE FrameEnd
  BY <1>0, <1>15 DEF FrameEnd, WriteOut, GoesOn, StopRecording, SaidSoFar, Segs, Control,
     Flow, Recorded, Numbers, Opening, HostTypes, switches, kept, heard
<1>16. CASE Shutdown
  BY <1>0, <1>16 DEF Shutdown, EndSegment, SaidSoFar, Segs, Control, Flow, Recorded,
     Numbers, Opening, HostTypes, switches, kept, heard
<1>17. CASE AskToStop
  BY <1>0, <1>17 DEF AskToStop, SaidSoFar, Segs, Control, Flow, Recorded, Numbers, Opening,
     HostTypes, switches, kept, heard
<1>18. CASE Join
  BY <1>0, <1>18 DEF Join, SaidSoFar, Segs, Control, Flow, Recorded, Numbers, Opening,
     HostTypes, switches, kept, heard
<1> QED
  BY <1>1, <1>2, <1>3, <1>4, <1>5, <1>6, <1>7, <1>8, <1>9, <1>10, <1>11, <1>12, <1>13,
     <1>14, <1>15, <1>16, <1>17, <1>18 DEF HostStep, RecorderStep

(* The types, in two parts. *)
FlagsOK ==
  /\ pc \in {"host", "open", "evict", "evict_state", "checkpoint", "lines", "run", "stop", "join", "exit"}
  /\ allow \in BOOLEAN /\ enabled \in BOOLEAN /\ started \in BOOLEAN /\ failed \in BOOLEAN
  /\ suspended \in BOOLEAN /\ mod_paused \in BOOLEAN /\ recording \in BOOLEAN
  /\ pending \in BOOLEAN /\ loud \in BOOLEAN
  /\ ev \in {"none", "some", "over"} /\ news \subseteq {"load", "settings", "moved"}
  /\ untold \subseteq {"poke", "change"}

CountsOK ==
  /\ segment \in 0 .. MaxSegment /\ oldest \in 0 .. MaxSegment
  /\ sizes \in [Slots -> Sizes \union {0}] /\ history \in Nat /\ len \in Sizes \union {0}
  /\ rows \in 0 .. SegmentFrames

LEMMA TypeParts ==
  TypeOK <=> /\ WriterTypeOK /\ FlagsOK /\ CountsOK
             /\ said \in [Segs -> Seq(Entries)] /\ changes \in 0 .. MaxChanges
  BY DEF TypeOK, FlagsOK, CountsOK

LEMMA SlotRange ==
  ASSUME NEW n \in Nat
  PROVE  Slot(n) \in Slots
<1>1. Segments \in Nat \ {0}
  BY ReplayAssumption
<1>2. n % Segments \in 0 .. Segments - 1
  BY <1>1
<1> QED
  BY <1>2 DEF Slot, Slots

LEMMA SlotsTotal ==
  ASSUME NEW f \in [Slots -> Sizes \union {0}]
  PROVE  /\ IsFiniteSet(Slots) /\ f \in [Slots -> Nat] /\ Total(f) \in Nat
         /\ \A i \in Slots : f[i] \in Nat /\ f[i] <= Total(f)
         /\ \A i \in Slots, v \in Nat : Total([f EXCEPT ![i] = v]) = Total(f) - f[i] + v
<1>1. IsFiniteSet(Slots)
  BY ReplayAssumption, FS_Interval DEF Slots
<1>2. f \in [Slots -> Nat]
  <2>1. Sizes \union {0} \subseteq Nat
    BY WriterAssumption
  <2> QED
    BY <2>1
<1> QED
  BY <1>1, <1>2, TotalNat, TotalAtLeast, TotalExcept

(* The flags. *)
LEMMA FlagsStep ==
  ASSUME IInv, HostStep \/ RecorderStep
  PROVE  FlagsOK'
<1>0. FlagsOK
  BY TypeParts DEF IInv
<1>1. CASE enabled /\ ~failed /\ Poke
  BY <1>0, <1>1 DEF Poke, FlagsOK, switches, kept, heard
<1>2. CASE \E kind \in {"load", "settings", "moved"} : Change(kind)
  BY <1>0, <1>2 DEF Change, FlagsOK, switches, kept, heard
<1>3. CASE \E on \in BOOLEAN : ModsReapply(on)
  BY <1>0, <1>3 DEF ModsReapply, FlagsOK, switches, kept, heard
<1>4. CASE enabled /\ ~failed /\ OnlineFrame
  BY <1>0, <1>4 DEF OnlineFrame, EndSegment, FlagsOK, switches, kept, heard
<1>5. CASE FrameUnrecorded
  BY <1>0, <1>5 DEF FrameUnrecorded, EndSegment, StopRecording, FlagsOK, switches, kept,
     heard
<1>6. CASE StartRecorder
  <2>1. StartDone \/ StartFailed
    BY <1>6, StartRecorderCases
  <2>2. CASE StartDone
    BY <1>0, <2>2 DEF StartDone, FlagsOK
  <2>3. CASE StartFailed
    BY <1>0, <2>3 DEF StartFailed, FlagsOK
  <2> QED
    BY <2>1, <2>2, <2>3
<1>7. CASE FrameBegin
  BY <1>0, <1>7 DEF FrameBegin, NeedsSegment, FlagsOK, switches, kept, heard
<1>8. CASE OpenSegment
  <2>1. OpenDone \/ OpenFailed
    BY <1>8, OpenSegmentCases
  <2>2. CASE OpenDone
    BY <1>0, <2>2 DEF OpenDone, EndSegment, FlagsOK
  <2>3. CASE OpenFailed
    BY <1>0, <2>3 DEF OpenFailed, EndSegment, FlagsOK
  <2> QED
    BY <2>1, <2>2, <2>3
<1>9. CASE EvictText
  BY <1>0, <1>9 DEF EvictText, MustEvict, FlagsOK, switches, kept, heard
<1>10. CASE EvictState
  <2>1. EvictDone \/ EvictFailed
    BY <1>10, EvictStateCases
  <2>2. CASE EvictDone
    BY <1>0, <2>2 DEF EvictDone, FlagsOK
  <2>3. CASE EvictFailed
    BY <1>0, <2>3 DEF EvictFailed, FlagsOK
  <2> QED
    BY <2>1, <2>2, <2>3
<1>11. CASE BeginSegment
  <2>1. BeginDone \/ BeginFailed
    BY <1>11, BeginSegmentCases
  <2>2. CASE BeginDone
    BY <1>0, <2>2 DEF BeginDone, MustEvict, FlagsOK
  <2>3. CASE BeginFailed
    BY <1>0, <2>3 DEF BeginFailed, MustEvict, FlagsOK
  <2> QED
    BY <2>1, <2>2, <2>3
<1>12. CASE QueueCheckpoint
  <2>1. CheckpointDone \/ CheckpointFailed
    BY <1>12, QueueCheckpointCases
  <2>2. CASE CheckpointDone
    BY <1>0, <2>2 DEF CheckpointDone, FlagsOK
  <2>3. CASE CheckpointFailed
    BY <1>0, <2>3 DEF CheckpointFailed, FlagsOK
  <2> QED
    BY <2>1, <2>2, <2>3
<1>13. CASE RecordEvents
  BY <1>0, <1>13 DEF RecordEvents, WriteOut, GoesOn, StopRecording, FlagsOK, switches, kept,
     heard
<1>14. CASE RecordInput
  BY <1>0, <1>14 DEF RecordInput, WriteOut, GoesOn, StopRecording, Takes, Accepts, FlagsOK,
     switches, kept, heard
<1>15. CASE FrameEnd
  BY <1>0, <1>15 DEF FrameEnd, WriteOut, GoesOn, StopRecording, FlagsOK, switches, kept,
     heard
<1>16. CASE Shutdown
  BY <1>0, <1>16 DEF Shutdown, EndSegment, FlagsOK, switches, kept, heard
<1>17. CASE AskToStop
  BY <1>0, <1>17 DEF AskToStop, FlagsOK, switches, kept, heard
<1>18. CASE Join
  BY <1>0, <1>18 DEF Join, FlagsOK, switches, kept, heard
<1> QED
  BY <1>1, <1>2, <1>3, <1>4, <1>5, <1>6, <1>7, <1>8, <1>9, <1>10, <1>11, <1>12, <1>13,
     <1>14, <1>15, <1>16, <1>17, <1>18 DEF HostStep, RecorderStep

(* What the steps that change the numbers find.                               *)
LEMMA CountsNow ==
  ASSUME IInv
  PROVE  /\ HostTypes /\ Control /\ CountsOK
         /\ Segments \in Nat \ {0}
         /\ \A i \in Slots : sizes[i] \in Nat /\ history - sizes[i] \in Nat
         /\ Slot(segment) \in Slots /\ Slot(oldest) \in Slots
<1>1. HostTypes /\ Control /\ CountsOK /\ Accounted
  BY NumbersInRange, TypeParts DEF IInv
<1>2. history = Total(sizes) /\ sizes \in [Slots -> Sizes \union {0}]
  BY <1>1 DEF Accounted, CountsOK
<1>3. \A i \in Slots : sizes[i] \in Nat /\ sizes[i] <= history /\ history \in Nat
  BY <1>2, SlotsTotal
<1>4. \A i \in Slots : history - sizes[i] \in Nat
  BY <1>3
<1>5. Slot(segment) \in Slots /\ Slot(oldest) \in Slots
  BY <1>1, SlotRange DEF HostTypes
<1> QED
  BY <1>1, <1>3, <1>4, <1>5, ReplayAssumption

(* The numbers. *)
LEMMA CountsStep ==
  ASSUME IInv, HostStep \/ RecorderStep
  PROVE  CountsOK'
<1>0. /\ HostTypes /\ Control /\ CountsOK
      /\ \A i \in Slots : history - sizes[i] \in Nat
      /\ Slot(segment) \in Slots /\ Slot(oldest) \in Slots
  BY CountsNow
<1>1. CASE enabled /\ ~failed /\ Poke
  BY <1>0, <1>1 DEF Poke, CountsOK, Control, Flow, Recorded, Numbers, Opening, switches,
     kept, heard, HostTypes
<1>2. CASE \E kind \in {"load", "settings", "moved"} : Change(kind)
  BY <1>0, <1>2 DEF Change, CountsOK, Control, Flow, Recorded, Numbers, Opening, switches,
     kept, heard, HostTypes
<1>3. CASE \E on \in BOOLEAN : ModsReapply(on)
  BY <1>0, <1>3 DEF ModsReapply, CountsOK, Control, Flow, Recorded, Numbers, Opening,
     switches, kept, heard, HostTypes
<1>4. CASE enabled /\ ~failed /\ OnlineFrame
  BY <1>0, <1>4 DEF OnlineFrame, EndSegment, CountsOK, Control, Flow, Recorded, Numbers,
     Opening, switches, kept, heard, HostTypes
<1>5. CASE FrameUnrecorded
  BY <1>0, <1>5 DEF FrameUnrecorded, EndSegment, StopRecording, CountsOK, Control, Flow,
     Recorded, Numbers, Opening, switches, kept, heard, HostTypes
<1>6. CASE StartRecorder
  <2>1. StartDone \/ StartFailed
    BY <1>6, StartRecorderCases
  <2>2. CASE StartDone
    BY <1>0, <2>2 DEF StartDone, CountsOK, Control, Flow, Recorded, Numbers, Opening,
       HostTypes
  <2>3. CASE StartFailed
    BY <1>0, <2>3 DEF StartFailed, CountsOK, Control, Flow, Recorded, Numbers, Opening,
       HostTypes
  <2> QED
    BY <2>1, <2>2, <2>3
<1>7. CASE FrameBegin
  BY <1>0, <1>7 DEF FrameBegin, NeedsSegment, CountsOK, Control, Flow, Recorded, Numbers,
     Opening, switches, kept, heard, HostTypes
<1>8. CASE OpenSegment
  <2>1. OpenDone \/ OpenFailed
    BY <1>8, OpenSegmentCases
  <2>2. CASE OpenDone
    BY <1>0, <2>2 DEF OpenDone, EndSegment, CountsOK, Control, Flow, Recorded, Numbers,
       Opening, HostTypes
  <2>3. CASE OpenFailed
    BY <1>0, <2>3 DEF OpenFailed, EndSegment, CountsOK, Control, Flow, Recorded, Numbers,
       Opening, HostTypes
  <2> QED
    BY <2>1, <2>2, <2>3
<1>9. CASE EvictText
  BY <1>0, <1>9 DEF EvictText, MustEvict, CountsOK, Control, Flow, Recorded, Numbers,
     Opening, switches, kept, heard, HostTypes
<1>10. CASE EvictState
  <2>1. EvictDone \/ EvictFailed
    BY <1>10, EvictStateCases
  <2>2. CASE EvictDone
    BY <1>0, <2>2 DEF EvictDone, CountsOK, Control, Flow, Recorded, Numbers, Opening,
       HostTypes
  <2>3. CASE EvictFailed
    BY <1>0, <2>3 DEF EvictFailed, CountsOK, Control, Flow, Recorded, Numbers, Opening,
       HostTypes
  <2> QED
    BY <2>1, <2>2, <2>3
<1>11. CASE BeginSegment
  <2>1. BeginDone \/ BeginFailed
    BY <1>11, BeginSegmentCases
  <2>2. CASE BeginDone
    BY <1>0, <2>2 DEF BeginDone, MustEvict, CountsOK, Control, Flow, Recorded, Numbers,
       Opening, HostTypes
  <2>3. CASE BeginFailed
    BY <1>0, <2>3 DEF BeginFailed, MustEvict, CountsOK, Control, Flow, Recorded, Numbers,
       Opening, HostTypes
  <2> QED
    BY <2>1, <2>2, <2>3
<1>12. CASE QueueCheckpoint
  <2>1. CheckpointDone \/ CheckpointFailed
    BY <1>12, QueueCheckpointCases
  <2>2. CASE CheckpointDone
    BY <1>0, <2>2 DEF CheckpointDone, CountsOK, Control, Flow, Recorded, Numbers, Opening,
       HostTypes
  <2>3. CASE CheckpointFailed
    BY <1>0, <2>3 DEF CheckpointFailed, CountsOK, Control, Flow, Recorded, Numbers, Opening,
       HostTypes
  <2> QED
    BY <2>1, <2>2, <2>3
<1>13. CASE RecordEvents
  BY <1>0, <1>13 DEF RecordEvents, WriteOut, GoesOn, StopRecording, CountsOK, Control, Flow,
     Recorded, Numbers, Opening, switches, kept, heard, HostTypes
<1>14. CASE RecordInput
  BY <1>0, <1>14 DEF RecordInput, WriteOut, GoesOn, StopRecording, CountsOK, Control, Flow,
     Recorded, Numbers, Opening, switches, kept, heard, HostTypes
<1>15. CASE FrameEnd
  BY <1>0, <1>15 DEF FrameEnd, WriteOut, GoesOn, StopRecording, CountsOK, Control, Flow,
     Recorded, Numbers, Opening, switches, kept, heard, HostTypes
<1>16. CASE Shutdown
  BY <1>0, <1>16 DEF Shutdown, EndSegment, CountsOK, Control, Flow, Recorded, Numbers,
     Opening, switches, kept, heard, HostTypes
<1>17. CASE AskToStop
  BY <1>0, <1>17 DEF AskToStop, CountsOK, Control, Flow, Recorded, Numbers, Opening,
     switches, kept, heard, HostTypes
<1>18. CASE Join
  BY <1>0, <1>18 DEF Join, CountsOK, Control, Flow, Recorded, Numbers, Opening, switches,
     kept, heard, HostTypes
<1> QED
  BY <1>1, <1>2, <1>3, <1>4, <1>5, <1>6, <1>7, <1>8, <1>9, <1>10, <1>11, <1>12, <1>13,
     <1>14, <1>15, <1>16, <1>17, <1>18 DEF HostStep, RecorderStep

(* A line is said behind what was said before. *)
LEMMA Saying ==
  ASSUME IInv, segment \in Segs, NEW kind \in {"E", "I", "H"}, WriteOut(kind)
  PROVE  said' \in Words /\ Grows(said, said')
<1>1. said \in [Segs -> Seq(Entries)] /\ NewLine(kind) \in Entries
  BY NewLineMade DEF IInv, TypeOK
<1> DEFINE l == NewLine(kind)
<1>2. said' = [said EXCEPT ![segment] = Append(said[segment], l)]
  BY DEF WriteOut
<1>3. l \in Entries
  BY <1>1
<1> HIDE DEF l
<1>4. Append(said[segment], l) \in Seq(Entries) /\ IsPrefix(said[segment], Append(said[segment], l))
  BY <1>1, <1>3, AppendProperties, PrefixAppend
<1>5. \A n \in Segs : IsPrefix(said[n], said[n])
  BY <1>1, PrefixSelf
<1>6. \A n \in Segs : said'[n] = IF n = segment THEN Append(said[segment], l) ELSE said[n]
  BY <1>1, <1>2
<1>7. said' \in [Segs -> Seq(Entries)]
  BY <1>1, <1>2, <1>4
<1> QED
  BY <1>4, <1>5, <1>6, <1>7 DEF Words, Grows

LEMMA SaidMore ==
  ASSUME IInv, HostStep \/ RecorderStep
  PROVE  said' \in [Segs -> Seq(Entries)] /\ Grows(said, said')
<1>1. /\ pc = "lines" => segment \in Segs
      /\ recording => segment \in Segs
  BY NumbersInRange
<1>2. CASE said' = said
  BY <1>2, SaidGrows DEF Words
<1>3. CASE RecordEvents
  BY <1>1, <1>3, Saying DEF RecordEvents, Words
<1>4. CASE RecordInput
  BY <1>1, <1>4, Saying DEF RecordInput, Words
<1>5. CASE FrameEnd
  <2>1. said' = said \/ (recording /\ WriteOut("H"))
    BY <1>5 DEF FrameEnd
  <2> QED
    BY <1>1, <1>2, <2>1, Saying DEF Words
<1>6. HostStep \/ RecorderStep => said' = said \/ RecordEvents \/ RecordInput \/ FrameEnd
  BY DEF HostStep, RecorderStep, Poke, Change, ModsReapply, OnlineFrame, FrameUnrecorded,
         StartRecorder, FrameBegin, OpenSegment, EvictText, EvictState, BeginSegment,
         QueueCheckpoint, Shutdown, AskToStop, Join
<1> QED
  BY <1>2, <1>3, <1>4, <1>5, <1>6

(* The types. *)
LEMMA TypeStep ==
  ASSUME IInv, HostStep \/ RecorderStep
  PROVE  TypeOK'
<1>1. QueueMoves /\ FlagsOK' /\ CountsOK'
  BY HostMoves, FlagsStep, CountsStep
<1>2. TypeOK
  BY DEF IInv
<1>3. WriterTypeOK'
  BY <1>1, <1>2 DEF QueueMoves, TypeOK, WriterTypeOK, diskVars
<1>4. changes' \in 0 .. MaxChanges
  <2>1. MaxChanges \in Nat
    BY ReplayAssumption
  <2>2. changes' = changes \/ (changes < MaxChanges /\ changes' = changes + 1)
    BY DEF HostStep, RecorderStep
  <2> QED
    BY <1>2, <2>1, <2>2 DEF TypeOK
<1>5. said' \in [Segs -> Seq(Entries)]
  BY SaidMore
<1> QED
  BY <1>1, <1>3, <1>4, <1>5 DEF TypeOK, FlagsOK, CountsOK

(* A step that leaves the slots alone. *)
SlotsQuiet ==
  /\ UNCHANGED <<oldest, segment, sizes, history>>
  /\ pc' # "checkpoint"
  /\ pc' \in {"evict", "evict_state"} <=> pc \in {"evict", "evict_state"}
SlotSteps ==
  SlotsQuiet \/ StartDone \/ OpenDone \/ EvictDone \/ EvictFailed \/ BeginDone \/ BeginFailed

(* Which steps touch the slots. *)
LEMMA SlotStepsAre ==
  ASSUME IInv, HostStep \/ RecorderStep
  PROVE  SlotSteps
<1>0. Accounted
  BY DEF IInv
<1>1. CASE enabled /\ ~failed /\ Poke
  BY <1>0, <1>1 DEF Poke, SlotSteps, SlotsQuiet, switches, kept, heard
<1>2. CASE \E kind \in {"load", "settings", "moved"} : Change(kind)
  BY <1>0, <1>2 DEF Change, SlotSteps, SlotsQuiet, switches, kept, heard
<1>3. CASE \E on \in BOOLEAN : ModsReapply(on)
  BY <1>0, <1>3 DEF ModsReapply, SlotSteps, SlotsQuiet, switches, kept, heard
<1>4. CASE enabled /\ ~failed /\ OnlineFrame
  BY <1>0, <1>4 DEF OnlineFrame, EndSegment, SlotSteps, SlotsQuiet, switches, kept, heard
<1>5. CASE FrameUnrecorded
  BY <1>0, <1>5 DEF FrameUnrecorded, EndSegment, StopRecording, SlotSteps, SlotsQuiet,
     switches, kept, heard
<1>6. CASE StartRecorder
  <2>1. StartDone \/ StartFailed
    BY <1>6, StartRecorderCases
  <2>2. CASE StartDone
    BY <1>0, <2>2 DEF StartDone, SlotSteps, SlotsQuiet
  <2>3. CASE StartFailed
    BY <1>0, <2>3 DEF StartFailed, SlotSteps, SlotsQuiet
  <2> QED
    BY <2>1, <2>2, <2>3
<1>7. CASE FrameBegin
  BY <1>0, <1>7 DEF FrameBegin, NeedsSegment, SlotSteps, SlotsQuiet, switches, kept, heard
<1>8. CASE OpenSegment
  <2>1. OpenDone \/ OpenFailed
    BY <1>8, OpenSegmentCases
  <2>2. CASE OpenDone
    BY <1>0, <2>2 DEF OpenDone, EndSegment, SlotSteps, SlotsQuiet
  <2>3. CASE OpenFailed
    BY <1>0, <2>3 DEF OpenFailed, EndSegment, SlotSteps, SlotsQuiet
  <2> QED
    BY <2>1, <2>2, <2>3
<1>9. CASE EvictText
  BY <1>0, <1>9 DEF EvictText, MustEvict, SlotSteps, SlotsQuiet, switches, kept, heard
<1>10. CASE EvictState
  <2>1. EvictDone \/ EvictFailed
    BY <1>10, EvictStateCases
  <2>2. CASE EvictDone
    BY <1>0, <2>2 DEF EvictDone, SlotSteps, SlotsQuiet
  <2>3. CASE EvictFailed
    BY <1>0, <2>3 DEF EvictFailed, SlotSteps, SlotsQuiet
  <2> QED
    BY <2>1, <2>2, <2>3
<1>11. CASE BeginSegment
  <2>1. BeginDone \/ BeginFailed
    BY <1>11, BeginSegmentCases
  <2>2. CASE BeginDone
    BY <1>0, <2>2 DEF BeginDone, MustEvict, SlotSteps, SlotsQuiet
  <2>3. CASE BeginFailed
    BY <1>0, <2>3 DEF BeginFailed, MustEvict, SlotSteps, SlotsQuiet
  <2> QED
    BY <2>1, <2>2, <2>3
<1>12. CASE QueueCheckpoint
  <2>1. CheckpointDone \/ CheckpointFailed
    BY <1>12, QueueCheckpointCases
  <2>2. CASE CheckpointDone
    BY <1>0, <2>2 DEF CheckpointDone, SlotSteps, SlotsQuiet
  <2>3. CASE CheckpointFailed
    BY <1>0, <2>3 DEF CheckpointFailed, SlotSteps, SlotsQuiet
  <2> QED
    BY <2>1, <2>2, <2>3
<1>13. CASE RecordEvents
  BY <1>0, <1>13 DEF RecordEvents, WriteOut, GoesOn, StopRecording, SlotSteps, SlotsQuiet,
     switches, kept, heard
<1>14. CASE RecordInput
  BY <1>0, <1>14 DEF RecordInput, WriteOut, GoesOn, StopRecording, SlotSteps, SlotsQuiet,
     switches, kept, heard
<1>15. CASE FrameEnd
  BY <1>0, <1>15 DEF FrameEnd, WriteOut, GoesOn, StopRecording, SlotSteps, SlotsQuiet,
     switches, kept, heard
<1>16. CASE Shutdown
  BY <1>0, <1>16 DEF Shutdown, EndSegment, SlotSteps, SlotsQuiet, switches, kept, heard
<1>17. CASE AskToStop
  BY <1>0, <1>17 DEF AskToStop, SlotSteps, SlotsQuiet, switches, kept, heard
<1>18. CASE Join
  BY <1>0, <1>18 DEF Join, SlotSteps, SlotsQuiet, switches, kept, heard
<1> QED
  BY <1>1, <1>2, <1>3, <1>4, <1>5, <1>6, <1>7, <1>8, <1>9, <1>10, <1>11, <1>12, <1>13,
     <1>14, <1>15, <1>16, <1>17, <1>18 DEF HostStep, RecorderStep

(* Segments less than a round apart have slots of their own. *)
LEMMA SlotSame ==
  ASSUME NEW m \in Nat, NEW n \in Nat, n <= m, m - n < Segments, Slot(m) = Slot(n)
  PROVE  m = n
<1> DEFINE S == Segments
           a == m \div S
           b == n \div S
           r == m % S
<1>1. S \in Nat \ {0}
  BY ReplayAssumption
<1>2. /\ m = S * a + r /\ n = S * b + r
      /\ a \in Int /\ b \in Int /\ r \in Int
  BY <1>1 DEF Slot
<1>3. m \in Nat /\ n \in Nat /\ n <= m /\ m - n < S
  OBVIOUS
<1> HIDE DEF a, b, r, S
<1>4. m - n = S * (a - b)
  BY <1>1, <1>2
<1>5. a - b \in Int /\ S * (a - b) < S /\ S * (a - b) >= 0
  BY <1>1, <1>2, <1>3, <1>4
<1> DEFINE k == a - b
<1> HIDE DEF k
<1>6. k \in Int /\ S * k < S /\ S * k >= 0
  BY <1>5 DEF k
<1>7. k = 0
  BY <1>1, <1>6
<1>8. S * (a - b) = 0
  BY <1>1, <1>7 DEF k
<1> QED
  BY <1>3, <1>4, <1>8

(* The slots. *)
LEMMA AccountedStep ==
  ASSUME IInv, HostStep \/ RecorderStep
  PROVE  Accounted'
<1>1. SlotSteps
  BY SlotStepsAre
<1>2. /\ \A i \in Slots : sizes[i] # 0 => \E n \in Slotted \ {0} : Slot(n) = i
      /\ \A m, n \in Slotted : n - m < Segments
      /\ history = Total(sizes)
  BY DEF IInv, Accounted
<1>3. /\ HostTypes /\ Control /\ CountsOK /\ Segments \in Nat \ {0}
      /\ Slot(segment) \in Slots /\ Slot(oldest) \in Slots
  BY CountsNow
<1>4. segment \in Nat /\ oldest \in Nat /\ history \in Nat
  BY <1>3 DEF HostTypes, CountsOK
<1>5. sizes \in [Slots -> Sizes \union {0}] /\ DOMAIN sizes = Slots /\ len \in Sizes \union {0}
  BY <1>3 DEF CountsOK
<1>6. CASE SlotsQuiet
  <2>1. /\ oldest' = oldest /\ segment' = segment /\ sizes' = sizes /\ history' = history
        /\ Slotted' = Slotted /\ pc' # "checkpoint"
    BY <1>6 DEF SlotsQuiet, Slotted
  <2> QED
    BY <1>2, <2>1 DEF Accounted
<1>7. CASE StartDone
  <2>1. /\ segment = 0 /\ segment' = 0 /\ oldest' = 1 /\ sizes' = sizes /\ history' = history
        /\ pc = "host" /\ pc' = "open"
    BY <1>3, <1>4, <1>7 DEF StartDone, Control, Numbers
  <2>2. Slotted \ {0} = {} /\ Slotted' = {}
    BY <1>4, <2>1 DEF Slotted
  <2> QED
    BY <1>2, <2>1, <2>2 DEF Accounted
<1>8. CASE OpenDone
  <2>1. /\ segment' = segment + 1 /\ oldest' = oldest /\ sizes' = sizes /\ history' = history
        /\ pc = "open" /\ pc' = "evict"
    BY <1>8 DEF OpenDone
  <2>2. Slotted' = Slotted
    BY <1>4, <2>1 DEF Slotted
  <2> QED
    BY <1>2, <2>1, <2>2 DEF Accounted
<1>9. CASE EvictDone \/ EvictFailed
  <2>1. /\ segment' = segment /\ oldest' = oldest + 1 /\ pc = "evict_state" /\ pc' # "checkpoint"
        /\ sizes' = [sizes EXCEPT ![Slot(oldest)] = 0]
        /\ history' = history - sizes[Slot(oldest)]
    BY <1>9 DEF EvictDone, EvictFailed
  <2>2. oldest < segment /\ Slotted = oldest .. segment - 1
    BY <1>3, <2>1 DEF Control, Flow, Slotted
  <2>3. Slotted' = oldest + 1 .. segment - 1 \/ Slotted' = oldest + 1 .. segment
    BY <2>1 DEF Slotted
  <2>4. \A m, n \in Slotted' : n - m < Segments
    <3>1. segment - 1 - oldest < Segments
      BY <1>2, <1>4, <2>2
    <3> QED
      BY <1>3, <1>4, <2>3, <3>1
  <2>5. ASSUME NEW i \in Slots, sizes'[i] # 0 PROVE \E n \in Slotted' \ {0} : Slot(n) = i
    <3>1. i # Slot(oldest) /\ sizes[i] # 0
      BY <1>5, <2>1, <2>5
    <3>2. PICK n \in Slotted \ {0} : Slot(n) = i
      BY <1>2, <3>1
    <3>3. n # oldest
      BY <3>1, <3>2
    <3>4. n \in Slotted'
      BY <1>4, <2>2, <2>3, <3>2, <3>3
    <3> QED
      BY <3>2, <3>4
  <2>6. history' = Total(sizes')
    <3> DEFINE i == Slot(oldest)
    <3>1. i \in Slots
      BY <1>3
    <3> HIDE DEF i
    <3>2. \A v \in Nat : Total([sizes EXCEPT ![i] = v]) = Total(sizes) - sizes[i] + v
      BY <1>5, <3>1, SlotsTotal
    <3>3. Total(sizes) \in Nat /\ sizes[i] \in Nat
      BY <1>5, <3>1, SlotsTotal
    <3>4. Total([sizes EXCEPT ![i] = 0]) = Total(sizes) - sizes[i]
      BY <3>2, <3>3
    <3> QED
      BY <1>2, <2>1, <3>4 DEF i
  <2> QED
    BY <2>1, <2>4, <2>5, <2>6 DEF Accounted
<1>10. CASE BeginDone \/ BeginFailed
  <2>1. /\ segment' = segment /\ oldest' = oldest /\ pc = "evict" /\ ~MustEvict /\ len' = len
        /\ sizes' = [sizes EXCEPT ![Slot(segment)] = len]
        /\ history' = history + len
        /\ pc' \notin {"evict", "evict_state"}
    BY <1>10 DEF BeginDone, BeginFailed
  <2>2. /\ segment > 0 /\ oldest \in 1 .. segment /\ Slotted = oldest .. segment - 1
        /\ Slotted' = oldest .. segment
    BY <1>3, <2>1 DEF Control, Flow, Numbers, Opening, Slotted
  <2>3. len \in Nat /\ Limit \in Nat
    BY <1>3, ReplayAssumption DEF HostTypes
  <2>4. oldest = segment \/ (segment - oldest < Segments /\ history + len <= Limit)
    BY <1>3, <1>4, <2>1, <2>2, <2>3 DEF MustEvict
  <2>5. segment - oldest < Segments
    BY <1>3, <1>4, <2>4
  <2>6. \A m, n \in Slotted' : n - m < Segments
    BY <1>3, <1>4, <2>2, <2>5
  <2>7. sizes[Slot(segment)] = 0
    <3> SUFFICES ASSUME sizes[Slot(segment)] # 0 PROVE FALSE
      OBVIOUS
    <3>1. PICK n \in Slotted \ {0} : Slot(n) = Slot(segment)
      BY <1>2, <1>3
    <3>2. n \in Nat /\ n < segment /\ segment - n < Segments
      BY <1>3, <1>4, <2>2, <2>5, <3>1
    <3> QED
      BY <1>4, <3>1, <3>2, SlotSame
  <2>8. ASSUME NEW i \in Slots, sizes'[i] # 0 PROVE \E n \in Slotted' \ {0} : Slot(n) = i
    <3>1. CASE i = Slot(segment)
      <4>1. segment \in Slotted' \ {0}
        BY <1>4, <2>2
      <4> QED
        BY <3>1, <4>1
    <3>2. CASE i # Slot(segment)
      <4>1. sizes[i] # 0
        BY <1>5, <2>1, <2>8, <3>2
      <4>2. PICK n \in Slotted \ {0} : Slot(n) = i
        BY <1>2, <4>1
      <4>3. n \in Slotted'
        BY <1>4, <2>2, <4>2
      <4> QED
        BY <4>2, <4>3
    <3> QED
      BY <3>1, <3>2
  <2>9. history' = Total(sizes')
    <3>1. /\ Total([sizes EXCEPT ![Slot(segment)] = len]) = Total(sizes) - sizes[Slot(segment)] + len
          /\ Total(sizes) \in Nat
      BY <1>3, <1>5, <2>3, SlotsTotal
    <3> QED
      BY <1>2, <2>1, <2>3, <2>7, <3>1
  <2>10. /\ history' <= Limit \/ oldest' = segment'
         /\ sizes'[Slot(segment)] = len'
    BY <1>3, <1>5, <2>1, <2>4
  <2>11. Slot(segment') = Slot(segment)
    BY <2>1
  <2> QED
    BY <2>6, <2>8, <2>9, <2>10, <2>11 DEF Accounted
<1> QED
  BY <1>1, <1>6, <1>7, <1>8, <1>9, <1>10 DEF SlotSteps

-----------------------------------------------------------------------------
(* The queue leads to the disk the recorder means: first the steps that put   *)
(* nothing.                                                                   *)

(* Before a step that may put: nothing failed and the writer still runs.      *)
LEMMA PlanNow ==
  ASSUME IInv, error = "none", ~stop
  PROVE  /\ Running /\ Planned \in Disks /\ Sound(Planned, said)
         /\ ~failed => Meant(Planned)
         /\ \A n \in Live : Planned.lines[n] = said[n]
<1>1. Threads /\ Planning
  BY DEF IInv
<1>2. Running
  BY <1>1 DEF Threads, Running
<1> QED
  BY <1>1, <1>2, PlannedSound DEF Planning

LEMMA StillHere ==
  ASSUME IInv, pc \notin {"join", "exit"}
  PROVE  ~stop
  BY DEF IInv, Threads

(* What is meant is the same after the step. *)
MeantStays ==
  /\ TextsMeant' \ {0} = TextsMeant \ {0} /\ StatesMeant' \ {0} = StatesMeant \ {0}
  /\ sizes' = sizes /\ history' = history /\ segment' = segment /\ len' = len
  /\ pc' = "checkpoint" <=> pc = "checkpoint"
  /\ recording' = recording

LEMMA QuietPlan ==
  ASSUME IInv, UNCHANGED <<queue, error, diskVars, said>>, Running' = Running,
         error = "none" => Live' = Live,
         (error = "none" /\ ~failed') => ~failed /\ MeantStays
  PROVE  Promised' /\ Planning'
<1>1. Promised' /\ Planned' = Planned /\ Planning
  BY QuietKeeps DEF IInv
<1>2. error = "none" => \A n \in Live' : Planned'.lines[n] = said'[n]
  BY <1>1 DEF Planning
<1>3. ASSUME error = "none", ~failed' PROVE Meant(Planned)'
  <2>1. MeantStays /\ Meant(Planned)
    BY <1>1, <1>3 DEF Planning
  <2>2. \A n \in Segs : n # 0
    BY SegsFinite
  <2>3. \A n \in Segs : n \in StatesMeant' <=> n \in StatesMeant
    BY <2>1, <2>2 DEF MeantStays
  <2>4. Slot(segment') = Slot(segment)
    BY <2>1 DEF MeantStays
  <2>5. /\ Planned'.files = TextsMeant' \ {0}
        /\ Planned'.whole = StatesMeant' \ {0}
    BY <1>1, <2>1 DEF MeantStays, Meant
  <2>6. \A n \in Segs : Planned'.states[n] = IF n \in StatesMeant' THEN sizes'[Slot(n)] ELSE 0
    BY <1>1, <2>1, <2>3 DEF MeantStays, Meant
  <2>7. \A n \in StatesMeant' \ {0} : sizes'[Slot(n)] # 0
    BY <2>1 DEF MeantStays, Meant
  <2>8. /\ Total(Planned'.states) + (IF pc' = "checkpoint" THEN len' ELSE 0) = history'
        /\ Planned'.open = IF recording' \/ pc' = "checkpoint" THEN segment' ELSE None
    BY <1>1, <2>1 DEF MeantStays, Meant
  <2> QED
    BY <2>5, <2>6, <2>7, <2>8 DEF Meant
<1> QED
  BY <1>1, <1>2, <1>3 DEF Planning

(* The pcs between which nothing that is meant changes.                       *)
LEMMA SamePlace ==
  ASSUME IInv, UNCHANGED <<queue, error, diskVars, said, worker>>,
         UNCHANGED <<oldest, segment, sizes, history, len, recording>>, failed => failed',
         failed' \in BOOLEAN,
         pc' \in {"evict", "evict_state", "checkpoint"} => pc' = pc,
         pc \in {"evict", "evict_state", "checkpoint"} => pc' = pc
  PROVE  Promised' /\ Planning'
<1>1. Running' = Running /\ Live' = Live /\ MeantStays
  BY DEF Running, Live, MeantStays, TextsMeant, StatesMeant, Opening
<1> QED
  BY <1>1, QuietPlan

(* end_segment(). *)
LEMMA EndPlan ==
  ASSUME IInv, QueueEnd, UNCHANGED <<worker, diskVars, said>>, pc \notin Opening \union {"join", "exit"},
         recording' = FALSE, failed => failed', failed' \in BOOLEAN,
         UNCHANGED <<oldest, sizes, history>>,
         \/ segment' = segment /\ pc' \notin Opening
         \/ /\ pc = "open" /\ pc' = "evict" /\ segment' = segment + 1
  PROVE  Promised' /\ Planning'
<1>0. HostTypes /\ Control /\ SaidSoFar /\ pc # "checkpoint" /\ pc' # "checkpoint"
  BY NumbersInRange DEF IInv, Opening
<1>1. ~stop
  BY StillHere
<1>2. /\ Promised' /\ error' \in {"none", "full", "io"}
      /\ error # "none" => error' = error
      /\ error' = "none" /\ ~stop =>
              /\ Planned'.files = Planned.files /\ Planned'.lines = Planned.lines
              /\ Planned'.states = Planned.states /\ Planned'.whole = Planned.whole
              /\ ~failed /\ pc # "checkpoint" => Planned'.open = None
  BY EndKeeps
<1>3. ASSUME error' = "none" PROVE Planning'
  <2>1. error = "none" /\ Planned \in Disks /\ Sound(Planned, said)
        /\ (~failed => Meant(Planned)) /\ \A n \in Live : Planned.lines[n] = said[n]
    BY <1>1, <1>2, <1>3, PlanNow
  <2>2. /\ Planned'.files = Planned.files /\ Planned'.lines = Planned.lines
        /\ Planned'.states = Planned.states /\ Planned'.whole = Planned.whole
        /\ ~failed => Planned'.open = None
    BY <1>0, <1>1, <1>2, <1>3
  <2>3. TextsMeant' = TextsMeant /\ StatesMeant' = StatesMeant
    BY <1>0 DEF TextsMeant, StatesMeant, Opening, HostTypes
  <2>4. ~failed' => Meant(Planned)'
    BY <1>0, <2>1, <2>2, <2>3 DEF Meant
  <2>5. ASSUME NEW n \in Live' PROVE Planned'.lines[n] = said'[n]
    <3>1. CASE n \in Live
      BY <2>1, <2>2, <3>1
    <3>2. CASE n \notin Live
      <4>1. n = segment + 1 /\ pc = "open" /\ n \in Segs
        BY <1>0, <2>5, <3>2 DEF Live, HostTypes, Opening, Segs, Control, Flow
      <4>2. said[n] = <<>>
        BY <1>0, <4>1 DEF SaidSoFar, HostTypes
      <4>3. IsPrefix(Planned.lines[n], said[n])
        BY <2>1, <4>1 DEF Sound
      <4>4. Planned.lines[n] \in Seq(Entries)
        BY <2>1, <4>1, DiskParts
      <4>5. Planned.lines[n] = <<>>
        BY <4>2, <4>3, <4>4, PrefixOfEmpty
      <4> QED
        BY <2>2, <4>2, <4>5
    <3> QED
      BY <3>1, <3>2
  <2> QED
    BY <2>4, <2>5 DEF Planning
<1>4. error' # "none" => Planning'
  BY DEF Planning
<1> QED
  BY <1>2, <1>3, <1>4

(* A put that the queue refuses: the error is set, nothing is meant any more. *)
LEMMA RefusedPlan ==
  ASSUME IInv, NEW c \in Commands, Enqueue(c), ~Accepts(c), UNCHANGED <<worker, diskVars>>, ~stop,
         said' \in Words, Grows(said, said')
  PROVE  Promised' /\ Planning' /\ error' # "none"
<1>1. error' # "none" /\ Promised'
  BY PutParts, PutKeeps
<1> QED
  BY <1>1 DEF Planning

(* What a put that is taken finds, and what it must show.                     *)
LEMMA TakenPlan ==
  ASSUME IInv, NEW c \in Commands, Enqueue(c), Accepts(c), UNCHANGED <<worker, diskVars>>,
         said' \in Words, Grows(said, said'), Ready(c, Planned, said')
  PROVE  Promised' /\ Planned' = Apply(c, Planned) /\ error' = "none"
  BY PutParts, PutKeeps

LEMMA PutNow ==
  ASSUME IInv, pc \in {"evict", "evict_state", "checkpoint"}
  PROVE  /\ HostTypes /\ Control /\ CountsOK /\ ~stop /\ ~failed /\ ~recording
         /\ segment \in Segs /\ oldest \in Segs /\ oldest <= segment /\ len \in Sizes
         /\ segment \in Nat \ {0} /\ oldest \in Nat \ {0} /\ history \in Nat
         /\ said \in Words /\ Grows(said, said)
         /\ Begin(segment) \in Commands /\ RemoveText(oldest) \in Commands
         /\ RemoveState(oldest) \in Commands /\ Checkpoint(segment, len) \in Commands
<1>1. HostTypes /\ Control /\ segment \in Segs /\ oldest \in Segs /\ len \in Sizes /\ CountsOK
  BY NumbersInRange, CountsNow DEF Opening
<1>2. ~failed /\ ~recording /\ oldest <= segment /\ segment \in Nat \ {0} /\ oldest \in Nat \ {0}
  BY <1>1 DEF Control, Flow, Numbers, Opening, HostTypes
<1>3. ~stop
  BY StillHere
<1> QED
  BY <1>1, <1>2, <1>3, CommandsMade, SaidGrows DEF CountsOK

(* evict_oldest(), its first half. *)
LEMMA EvictTextPlan ==
  ASSUME IInv, EvictText
  PROVE  Promised' /\ Planning'
<1> DEFINE c == RemoveText(oldest)
           p == Planned
<1>1. /\ pc = "evict" /\ pc' = "evict_state" /\ oldest < segment /\ Enqueue(c)
      /\ UNCHANGED <<worker, diskVars, said, segment, oldest, sizes, history, len, failed, recording>>
  BY DEF EvictText, MustEvict, switches, kept
<1>2. /\ ~stop /\ ~failed /\ ~recording /\ segment \in Segs /\ oldest \in Segs
      /\ segment \in Nat \ {0} /\ oldest \in Nat \ {0} /\ c \in Commands
      /\ said \in Words /\ Grows(said, said) /\ HostTypes
  BY <1>1, PutNow
<1>3. c.op = "remove_text" /\ c.seg = oldest
  BY DEF RemoveText
<1> HIDE DEF c
<1>4. CASE ~Accepts(c)
  BY <1>1, <1>2, <1>4, RefusedPlan
<1>5. CASE Accepts(c)
  <2>1. /\ p \in Disks /\ Meant(p) /\ \A n \in Live : p.lines[n] = said[n]
    BY <1>2, <1>5, PlanNow DEF Accepts
  <2>2. Ready(c, p, said')
    BY <1>1, <1>2, <1>3, <2>1 DEF Ready, Meant
  <2>3. Promised' /\ Planned' = Apply(c, p) /\ error' = "none"
    BY <1>1, <1>2, <1>5, <2>2, TakenPlan
  <2>4. /\ Planned'.open = p.open /\ Planned'.files = p.files \ {oldest}
        /\ Planned'.lines = [p.lines EXCEPT ![oldest] = <<>>]
        /\ Planned'.states = p.states /\ Planned'.whole = p.whole
    BY <1>2, <1>3, <2>1, <2>3, ApplyFields
  <2>5. DOMAIN p.lines = Segs
    BY <2>1, DiskParts
  <2> HIDE DEF p
  <2>6. /\ TextsMeant = oldest .. segment - 1 /\ TextsMeant' = oldest + 1 .. segment - 1
        /\ StatesMeant = oldest .. segment - 1 /\ StatesMeant' = StatesMeant
        /\ Live = oldest .. segment /\ Live' = oldest + 1 .. segment
    BY <1>1, <1>2 DEF TextsMeant, StatesMeant, Live, Opening
  <2>7. Planned'.files = TextsMeant' \ {0}
    BY <1>2, <2>1, <2>4, <2>6 DEF Meant
  <2>8. Meant(Planned)'
    BY <1>1, <2>1, <2>4, <2>6, <2>7 DEF Meant
  <2>9. ASSUME NEW n \in Live' PROVE Planned'.lines[n] = said'[n]
    <3>1. n \in Live /\ n # oldest /\ n \in Segs
      BY <1>2, <2>6, <2>9 DEF Segs, HostTypes
    <3> QED
      BY <1>1, <2>1, <2>4, <2>5, <3>1
  <2> QED
    BY <2>3, <2>8, <2>9 DEF Planning
<1> QED
  BY <1>4, <1>5

(* evict_oldest(), its second half. *)
LEMMA EvictStatePlan ==
  ASSUME IInv, EvictDone \/ EvictFailed
  PROVE  Promised' /\ Planning'
<1> DEFINE c == RemoveState(oldest)
           p == Planned
<1>1. /\ pc = "evict_state" /\ Enqueue(c) /\ oldest' = oldest + 1
      /\ sizes' = [sizes EXCEPT ![Slot(oldest)] = 0]
      /\ history' = history - sizes[Slot(oldest)]
      /\ UNCHANGED <<worker, diskVars, said, segment, len>>
      /\ error' = "none" => pc' = "evict" /\ recording' = recording
  BY DEF EvictDone, EvictFailed
<1>2. /\ ~stop /\ ~failed /\ ~recording /\ segment \in Segs /\ oldest \in Segs
      /\ segment \in Nat \ {0} /\ oldest \in Nat \ {0} /\ c \in Commands /\ history \in Nat
      /\ said \in Words /\ Grows(said, said) /\ HostTypes /\ Control /\ CountsOK
  BY <1>1, PutNow
<1>3. c.op = "remove_state" /\ c.seg = oldest
  BY DEF RemoveState
<1> HIDE DEF c
<1>4. CASE ~Accepts(c)
  BY <1>1, <1>2, <1>4, RefusedPlan
<1>5. CASE Accepts(c)
  <2>1. /\ p \in Disks /\ Meant(p) /\ \A n \in Live : p.lines[n] = said[n]
    BY <1>2, <1>5, PlanNow DEF Accepts
  <2>2. oldest < segment
    BY <1>1, <1>2 DEF Control, Flow
  <2>3. /\ TextsMeant = oldest + 1 .. segment - 1 /\ StatesMeant = oldest .. segment - 1
        /\ Live = oldest + 1 .. segment /\ Slotted = oldest .. segment - 1
    BY <1>1, <1>2 DEF TextsMeant, StatesMeant, Live, Opening, Slotted
  <2>4. Ready(c, p, said')
    BY <1>1, <1>2, <1>3, <2>1, <2>3 DEF Ready, Meant
  <2>5. Promised' /\ Planned' = Apply(c, p) /\ error' = "none"
    BY <1>1, <1>2, <1>5, <2>4, TakenPlan
  <2>6. /\ Planned'.open = p.open /\ Planned'.files = p.files
        /\ Planned'.lines = p.lines
        /\ Planned'.states = [p.states EXCEPT ![oldest] = 0]
        /\ Planned'.whole = p.whole \ {oldest}
    BY <1>2, <1>3, <2>1, <2>5, ApplyFields
  <2>7. p.states \in [Segs -> Sizes \union {0}] /\ DOMAIN p.states = Segs
    BY <2>1, DiskParts
  <2> HIDE DEF p
  <2>8. /\ TextsMeant' = oldest + 1 .. segment - 1 /\ StatesMeant' = oldest + 1 .. segment - 1
        /\ Live' = oldest + 1 .. segment
    BY <1>1, <1>2, <2>5 DEF TextsMeant, StatesMeant, Live, Opening
  <2>9. ASSUME NEW n \in StatesMeant' PROVE sizes'[Slot(n)] = sizes[Slot(n)] /\ n \in StatesMeant
    <3>1. n \in Nat /\ oldest < n /\ n \in Slotted /\ oldest \in Slotted /\ n \in StatesMeant
      BY <1>2, <2>2, <2>3, <2>8, <2>9
    <3>2. n - oldest < Segments
      BY <3>1 DEF IInv, Accounted
    <3>3. Slot(n) # Slot(oldest)
      BY <1>2, <3>1, <3>2, SlotSame
    <3>4. Slot(n) \in Slots /\ DOMAIN sizes = Slots
      BY <1>2, <3>1, SlotRange DEF CountsOK
    <3> QED
      BY <1>1, <3>1, <3>3, <3>4
  <2>10. ASSUME NEW n \in Segs
         PROVE  Planned'.states[n] = IF n \in StatesMeant' THEN sizes'[Slot(n)] ELSE 0
    <3>1. CASE n = oldest
      <4>1. n \notin StatesMeant'
        BY <1>2, <2>8, <3>1
      <4> QED
        BY <2>6, <2>7, <3>1, <4>1
    <3>2. CASE n # oldest
      <4>1. n \in StatesMeant' <=> n \in StatesMeant
        BY <1>2, <2>3, <2>8, <3>2
      <4>2. Planned'.states[n] = p.states[n]
        BY <2>6, <2>7, <3>2
      <4> QED
        BY <2>1, <2>9, <4>1, <4>2 DEF Meant
    <3> QED
      BY <3>1, <3>2
  <2>11. Total(Planned'.states) = history'
    <3>1. p.states[oldest] = sizes[Slot(oldest)]
      <4>1. oldest \in StatesMeant
        BY <1>2, <2>2, <2>3
      <4> QED
        BY <1>2, <2>1, <4>1 DEF Meant
    <3>2. Total(p.states) = history
      <4>1. Total(p.states) + 0 = history /\ Total(p.states) \in Nat
        BY <1>1, <2>1, <2>7, StatesTotal DEF Meant
      <4> QED
        BY <4>1
    <3>3. \A v \in Nat : Total([p.states EXCEPT ![oldest] = v]) = Total(p.states) - p.states[oldest] + v
      BY <1>2, <2>7, StatesTotal
    <3>4. p.states[oldest] \in Nat
      BY <1>2, <2>7, StatesTotal
    <3>5. Total([p.states EXCEPT ![oldest] = 0]) = history - p.states[oldest]
      BY <1>2, <3>2, <3>3, <3>4
    <3> QED
      BY <1>1, <2>6, <3>1, <3>5
  <2>12. Planned'.whole = StatesMeant' \ {0} /\ Planned'.files = TextsMeant' \ {0}
    BY <1>2, <2>1, <2>3, <2>6, <2>8 DEF Meant
  <2>13. Planned'.open = None /\ pc' = "evict" /\ ~recording' /\ history' \in Int
    BY <1>1, <1>2, <2>1, <2>5, <2>6 DEF Meant
  <2>14. \A n \in StatesMeant' \ {0} : sizes'[Slot(n)] # 0
    BY <2>1, <2>9 DEF Meant
  <2>15. Meant(Planned)'
    <3>1. Total(Planned'.states) + 0 = history'
      <4>1. \A x \in Int : x + 0 = x
        OBVIOUS
      <4>2. Total(Planned'.states) + 0 = history' + 0
        BY <2>11
      <4> QED
        BY <2>13, <4>1, <4>2
    <3> QED
      BY <2>10, <2>12, <2>13, <2>14, <3>1 DEF Meant
  <2>16. \A n \in Live' : Planned'.lines[n] = said'[n]
    BY <1>1, <2>1, <2>3, <2>6, <2>8
  <2> QED
    BY <2>5, <2>15, <2>16 DEF Planning
<1> QED
  BY <1>4, <1>5

(* begin_segment_files(): the text is begun. *)
LEMMA BeginPlan ==
  ASSUME IInv, BeginDone
  PROVE  Promised' /\ Planning'
<1> DEFINE c == Begin(segment)
           p == Planned
<1>1. /\ pc = "evict" /\ pc' = "checkpoint" /\ Enqueue(c) /\ Accepts(c) /\ ~MustEvict
      /\ sizes' = [sizes EXCEPT ![Slot(segment)] = len]
      /\ history' = history + len
      /\ UNCHANGED <<worker, diskVars, said, segment, oldest, len, recording>>
  BY DEF BeginDone
<1>2. /\ ~stop /\ ~failed /\ ~recording /\ segment \in Segs /\ oldest \in Segs /\ oldest <= segment
      /\ segment \in Nat \ {0} /\ oldest \in Nat \ {0} /\ c \in Commands /\ history \in Nat
      /\ said \in Words /\ Grows(said, said) /\ HostTypes /\ Control /\ CountsOK
  BY <1>1, PutNow
<1>3. c.op = "begin" /\ c.seg = segment
  BY DEF Begin
<1> HIDE DEF c
<1>4. /\ p \in Disks /\ Meant(p) /\ \A n \in Live : p.lines[n] = said[n]
  BY <1>1, <1>2, PlanNow DEF Accepts
<1>5. /\ TextsMeant = oldest .. segment - 1 /\ StatesMeant = oldest .. segment - 1
      /\ Live = oldest .. segment
  BY <1>1, <1>2 DEF TextsMeant, StatesMeant, Live, Opening
<1>6. oldest # segment => segment - oldest < Segments
  <2>1. Segments \in Nat /\ Limit \in Nat /\ len \in Nat
    BY <1>2, ReplayAssumption DEF HostTypes
  <2> QED
    BY <1>1, <1>2, <2>1 DEF MustEvict
<1>7. Ready(c, p, said')
  <2>1. p.open = None /\ p.files = TextsMeant \ {0}
    BY <1>1, <1>2, <1>4 DEF Meant
  <2>2. \A n \in p.files : n < segment /\ segment - n < Segments
    <3>1. Segments \in Nat
      BY ReplayAssumption
    <3> QED
      BY <1>2, <1>5, <1>6, <2>1, <3>1
  <2> QED
    BY <1>3, <2>1, <2>2 DEF Ready
<1>8. Promised' /\ Planned' = Apply(c, p) /\ error' = "none"
  BY <1>1, <1>2, <1>7, TakenPlan
<1>9. /\ Planned'.open = segment /\ Planned'.files = p.files \union {segment}
      /\ Planned'.lines = [p.lines EXCEPT ![segment] = <<>>]
      /\ Planned'.states = p.states /\ Planned'.whole = p.whole
  BY <1>2, <1>3, <1>4, <1>8, ApplyFields
<1>10. DOMAIN p.lines = Segs
  BY <1>4, DiskParts
<1> HIDE DEF p
<1>11. /\ TextsMeant' = oldest .. segment /\ StatesMeant' = StatesMeant
       /\ Live' = oldest .. segment
  BY <1>1, <1>2 DEF TextsMeant, StatesMeant, Live, Opening
<1>12. ASSUME NEW n \in StatesMeant PROVE sizes'[Slot(n)] = sizes[Slot(n)]
  <2>1. n \in Nat /\ n < segment /\ segment - n < Segments
    <3>1. Segments \in Nat
      BY ReplayAssumption
    <3> QED
      BY <1>2, <1>5, <1>6, <1>12, <3>1
  <2>2. Slot(n) # Slot(segment)
    BY <1>2, <2>1, SlotSame
  <2>3. Slot(n) \in Slots /\ DOMAIN sizes = Slots
    BY <1>2, <2>1, SlotRange DEF CountsOK
  <2> QED
    BY <1>1, <2>2, <2>3
<1>13. Planned'.files = TextsMeant' \ {0}
  BY <1>2, <1>4, <1>5, <1>9, <1>11 DEF Meant
<1>14. \A n \in Segs : Planned'.states[n] = IF n \in StatesMeant' THEN sizes'[Slot(n)] ELSE 0
  BY <1>4, <1>9, <1>11, <1>12 DEF Meant
<1>15. \A n \in StatesMeant' \ {0} : sizes'[Slot(n)] # 0
  BY <1>4, <1>11, <1>12 DEF Meant
<1>16. Total(Planned'.states) + len' = history'
  <2>1. Total(p.states) + 0 = history /\ Total(p.states) \in Nat
    <3>1. p.states \in [Segs -> Sizes \union {0}]
      BY <1>4, DiskParts DEF p
    <3> QED
      BY <1>1, <1>4, <3>1, StatesTotal DEF Meant
  <2>2. Total(p.states) = history
    BY <2>1
  <2> QED
    BY <1>1, <1>9, <2>2
<1>17. Meant(Planned)'
  <2>1. Planned'.whole = StatesMeant' \ {0}
    BY <1>4, <1>9, <1>11 DEF Meant
  <2> QED
    BY <1>1, <1>9, <1>13, <1>14, <1>15, <1>16, <2>1 DEF Meant
<1>18. ASSUME NEW n \in Live' PROVE Planned'.lines[n] = said'[n]
  <2>1. n \in Live /\ n \in Segs
    BY <1>2, <1>5, <1>11, <1>18 DEF Segs, HostTypes
  <2>2. CASE n = segment
    <3>1. said[n] = <<>>
      BY <1>1, <2>1, <2>2 DEF IInv, SaidSoFar, Opening
    <3> QED
      BY <1>1, <1>9, <1>10, <2>1, <2>2, <3>1
  <2>3. CASE n # segment
    BY <1>1, <1>4, <1>9, <1>10, <2>1, <2>3
  <2> QED
    BY <2>2, <2>3
<1> QED
  BY <1>8, <1>17, <1>18 DEF Planning

(* The checkpoint is handed over. *)
LEMMA CheckpointPlan ==
  ASSUME IInv, CheckpointDone
  PROVE  Promised' /\ Planning'
<1> DEFINE c == Checkpoint(segment, len)
           p == Planned
<1>1. /\ pc = "checkpoint" /\ pc' = "lines" /\ Enqueue(c) /\ Accepts(c) /\ recording' = TRUE
      /\ UNCHANGED <<worker, diskVars, said, segment, oldest, len, sizes, history>>
  BY DEF CheckpointDone
<1>2. /\ ~stop /\ ~failed /\ segment \in Segs /\ oldest \in Segs /\ oldest <= segment
      /\ segment \in Nat \ {0} /\ oldest \in Nat \ {0} /\ c \in Commands /\ history \in Nat
      /\ len \in Sizes /\ said \in Words /\ Grows(said, said) /\ HostTypes
  BY <1>1, PutNow
<1>3. c.op = "state" /\ c.seg = segment /\ c.size = len
  BY DEF Checkpoint
<1> HIDE DEF c
<1>4. /\ p \in Disks /\ Meant(p) /\ \A n \in Live : p.lines[n] = said[n]
  BY <1>1, <1>2, PlanNow DEF Accepts
<1>5. /\ TextsMeant = oldest .. segment /\ StatesMeant = oldest .. segment - 1
      /\ Live = oldest .. segment
  BY <1>1, <1>2 DEF TextsMeant, StatesMeant, Live, Opening
<1>6. /\ history <= Limit \/ oldest = segment
      /\ sizes[Slot(segment)] = len /\ len # 0 /\ len \in Nat
  BY <1>1, <1>2 DEF IInv, Accounted, HostTypes
<1>7. p.states \in [Segs -> Sizes \union {0}] /\ DOMAIN p.states = Segs
  BY <1>4, DiskParts
<1>8. p.states[segment] = 0
  <2>1. segment \notin StatesMeant
    BY <1>2, <1>5
  <2> QED
    BY <1>2, <1>4, <2>1 DEF Meant
<1>9. Total(p.states) + len = history
  BY <1>1, <1>4 DEF Meant
<1>10. Ready(c, p, said')
  <2>1. p.open = segment
    BY <1>1, <1>4 DEF Meant
  <2>2. p.lines[segment] = <<>>
    <3>1. said[segment] = <<>>
      BY <1>1, <1>2 DEF IInv, SaidSoFar, Opening
    <3>2. segment \in Live
      BY <1>2, <1>5
    <3> QED
      BY <1>4, <3>1, <3>2
  <2>3. (\A n \in Segs : p.states[n] = 0) \/ Total(p.states) + len <= Limit
    <3>1. CASE oldest = segment
      <4>1. StatesMeant = {}
        BY <1>2, <1>5, <3>1
      <4> QED
        BY <1>4, <4>1 DEF Meant
    <3>2. CASE history <= Limit
      BY <1>9, <3>2
    <3> QED
      BY <1>6, <3>1, <3>2
  <2> QED
    BY <1>3, <1>8, <2>1, <2>2, <2>3 DEF Ready
<1>11. Promised' /\ Planned' = Apply(c, p) /\ error' = "none"
  BY <1>1, <1>2, <1>10, TakenPlan
<1>12. /\ Planned'.open = p.open /\ Planned'.files = p.files
       /\ Planned'.lines = p.lines
       /\ Planned'.states = [p.states EXCEPT ![segment] = len]
       /\ Planned'.whole = p.whole \union {segment}
  BY <1>2, <1>3, <1>4, <1>11, ApplyFields
<1>13. \A v \in Nat : Total([p.states EXCEPT ![segment] = v]) = Total(p.states) - p.states[segment] + v
  BY <1>2, <1>7, StatesTotal
<1>14. Total(p.states) \in Nat
  BY <1>7, StatesTotal
<1> HIDE DEF p
<1>15. /\ TextsMeant' = oldest .. segment /\ StatesMeant' = oldest .. segment
       /\ Live' = oldest .. segment
  BY <1>1, <1>2 DEF TextsMeant, StatesMeant, Live, Opening
<1>16. Total(Planned'.states) = history'
  <2>1. Total([p.states EXCEPT ![segment] = len]) = Total(p.states) + len
    BY <1>6, <1>8, <1>13, <1>14
  <2> QED
    BY <1>1, <1>9, <1>12, <2>1
<1>17. ASSUME NEW n \in Segs
       PROVE  Planned'.states[n] = IF n \in StatesMeant' THEN sizes'[Slot(n)] ELSE 0
  <2>1. CASE n = segment
    <3>1. n \in StatesMeant'
      BY <1>2, <1>15, <2>1
    <3> QED
      BY <1>1, <1>6, <1>7, <1>12, <2>1, <3>1
  <2>2. CASE n # segment
    <3>1. n \in StatesMeant' <=> n \in StatesMeant
      BY <1>2, <1>5, <1>15, <2>2
    <3>2. Planned'.states[n] = p.states[n]
      BY <1>7, <1>12, <2>2
    <3> QED
      BY <1>1, <1>4, <3>1, <3>2 DEF Meant
  <2> QED
    BY <2>1, <2>2
<1>18. \A n \in StatesMeant' \ {0} : sizes'[Slot(n)] # 0
  <2> TAKE n \in StatesMeant' \ {0}
  <2>1. n = segment \/ n \in StatesMeant \ {0}
    BY <1>2, <1>5, <1>15
  <2> QED
    BY <1>1, <1>4, <1>6, <2>1 DEF Meant
<1>19. Planned'.whole = StatesMeant' \ {0} /\ Planned'.files = TextsMeant' \ {0}
  BY <1>2, <1>4, <1>5, <1>12, <1>15 DEF Meant
<1>20. Meant(Planned)'
  <2>1. Planned'.open = segment
    BY <1>1, <1>4, <1>12 DEF Meant
  <2>2. Total(Planned'.states) + 0 = history'
    <3>1. \A x \in Nat : x + 0 = x
      OBVIOUS
    <3>2. Total(Planned'.states) + 0 = history + 0
      BY <1>1, <1>16
    <3> QED
      BY <1>1, <1>2, <3>1, <3>2
  <2> QED
    BY <1>1, <1>17, <1>18, <1>19, <2>1, <2>2 DEF Meant
<1>21. \A n \in Live' : Planned'.lines[n] = said'[n]
  BY <1>1, <1>4, <1>5, <1>12, <1>15
<1> QED
  BY <1>11, <1>20, <1>21 DEF Planning

(* A line of the frame. *)
LEMMA LinePlan ==
  ASSUME IInv, NEW kind \in {"E", "I", "H"}, WriteOut(kind), recording, pc \in {"lines", "run"},
         UNCHANGED <<worker, diskVars, segment, oldest, len, sizes, history>>,
         pc' \in {"lines", "run", "host"}
  PROVE  Promised' /\ Planning'
<1> DEFINE c == RecordLine(NewLine(kind))
           p == Planned
           l == NewLine(kind)
<1>0. HostTypes /\ Control /\ segment \in Segs /\ oldest \in Segs /\ TypeOK
  BY NumbersInRange DEF IInv
<1>1. c \in Commands /\ l \in Entries /\ said' \in Words /\ Grows(said, said')
  BY <1>0, NewLineMade, Saying
<1>2. /\ Enqueue(c) /\ said' = [said EXCEPT ![segment] = Append(said[segment], l)]
      /\ Accepts(c) => failed' = failed /\ recording'
  BY DEF WriteOut, Takes, GoesOn, StopRecording, switches
<1>3. ~stop /\ ~failed
  BY <1>0, StillHere DEF Control, Recorded
<1>4. c.op = "line" /\ c.line = l /\ l.seg = segment /\ DOMAIN said = Segs
  BY <1>0 DEF RecordLine, NewLine, TypeOK
<1>5. oldest <= segment /\ segment \in Nat \ {0} /\ oldest \in Nat \ {0} /\ segment # None
  BY <1>0 DEF HostTypes, Control, Recorded, Numbers, None
<1> HIDE DEF c, l
<1>6. CASE ~Accepts(c)
  BY <1>1, <1>2, <1>3, <1>6, RefusedPlan
<1>7. CASE Accepts(c)
  <2>1. /\ p \in Disks /\ Meant(p) /\ \A n \in Live : p.lines[n] = said[n]
    BY <1>3, <1>7, PlanNow DEF Accepts
  <2>2. /\ TextsMeant = oldest .. segment /\ StatesMeant = oldest .. segment
        /\ Live = oldest .. segment \ {0}
    BY DEF TextsMeant, StatesMeant, Live, Opening
  <2>3. p.open = segment /\ p.lines[segment] = said[segment]
        /\ segment \in p.files /\ segment \in p.whole
    BY <1>5, <2>1, <2>2 DEF Meant
  <2>4. Ready(c, p, said')
    <3>1. said'[segment] = Append(said[segment], l) /\ said'[segment] \in Seq(Entries)
      BY <1>0, <1>1, <1>2, <1>4 DEF Words
    <3>2. IsPrefix(said'[segment], said'[segment])
      BY <3>1, PrefixSelf
    <3> QED
      BY <1>4, <2>3, <3>1, <3>2 DEF Ready
  <2>5. Promised' /\ Planned' = Apply(c, p) /\ error' = "none"
    BY <1>1, <1>2, <1>7, <2>4, TakenPlan
  <2>6. /\ Planned'.open = p.open /\ Planned'.files = p.files
        /\ Planned'.lines = [p.lines EXCEPT ![p.open] = Append(p.lines[p.open], c.line)]
        /\ Planned'.states = p.states /\ Planned'.whole = p.whole
    BY <1>1, <1>4, <2>1, <2>5, ApplyFields
  <2>7. DOMAIN p.lines = Segs
    BY <2>1, DiskParts
  <2> HIDE DEF p
  <2>8. /\ TextsMeant' = TextsMeant /\ StatesMeant' = StatesMeant /\ Live' = Live
        /\ pc # "checkpoint" /\ pc' # "checkpoint"
    BY <2>2 DEF TextsMeant, StatesMeant, Live, Opening
  <2>9. Meant(Planned)'
    BY <1>2, <1>7, <2>1, <2>6, <2>8 DEF Meant
  <2>10. ASSUME NEW n \in Live' PROVE Planned'.lines[n] = said'[n]
    <3>1. n \in Live /\ n \in Segs
      BY <1>0, <1>5, <2>2, <2>8, <2>10 DEF Segs, HostTypes
    <3>2. p.lines[n] = said[n]
      BY <2>1, <3>1
    <3> QED
      BY <1>2, <1>4, <2>3, <2>6, <2>7, <3>1, <3>2
  <2> QED
    BY <2>5, <2>9, <2>10 DEF Planning
<1> QED
  BY <1>6, <1>7

(* Every step of the emulation thread keeps what the queue promises.         *)
LEMMA PlanStep ==
  ASSUME IInv, HostStep \/ RecorderStep
  PROVE  Promised' /\ Planning'
<1>0. HostTypes /\ Control /\ FlagsOK' /\ queue \in Seq(Commands)
  BY NumbersInRange, FlagsStep DEF IInv, TypeOK, WriterTypeOK
<1>1. CASE Poke \/ (\E kind \in {"load", "settings", "moved"} : Change(kind))
  <2>1. /\ UNCHANGED <<queue, error, diskVars, said, worker>>
        /\ UNCHANGED <<oldest, segment, sizes, history, len, recording, failed, pc>>
    BY <1>1 DEF Poke, Change, writerVars, queueVars, switches, kept
  <2> QED
    BY <1>0, <2>1, SamePlace DEF FlagsOK
<1>2. CASE (\E on \in BOOLEAN : ModsReapply(on)) \/ FrameBegin \/ Join
  <2>1. /\ UNCHANGED <<queue, error, diskVars, said, worker>>
        /\ UNCHANGED <<oldest, segment, sizes, history, len, recording, failed>>
        /\ pc' = pc \/ (pc = "host" /\ pc' \in {"open", "lines"}) \/ (pc = "join" /\ pc' = "exit")
    BY <1>2 DEF ModsReapply, FrameBegin, Join, writerVars, queueVars, switches, kept
  <2> QED
    BY <1>0, <2>1, SamePlace DEF FlagsOK
<1>3. CASE OnlineFrame
  <2>1. /\ pc = "host" /\ pc' = "run" /\ failed' = failed
        /\ UNCHANGED <<worker, diskVars, said, oldest, segment, sizes, history, len>>
        /\ \/ UNCHANGED <<queue, error, recording>>
           \/ QueueEnd /\ recording' = FALSE
    BY <1>3 DEF OnlineFrame, EndSegment, QueueEnd, queueVars, kept
  <2> QED
    BY <1>0, <2>1, SamePlace, EndPlan DEF FlagsOK, Opening
<1>4. CASE FrameUnrecorded
  <2>1. /\ pc = "host" /\ pc' = "run"
        /\ UNCHANGED <<worker, diskVars, said, oldest, segment, sizes, history, len>>
        /\ \/ UNCHANGED <<queue, error, recording, failed>>
           \/ QueueEnd /\ recording' = FALSE /\ failed' = failed
           \/ error # "none" /\ UNCHANGED <<queue, error>>
    BY <1>4 DEF FrameUnrecorded, EndSegment, QueueEnd, queueVars, kept, switches, StopRecording
  <2>2. CASE UNCHANGED <<queue, error, recording, failed>>
    BY <1>0, <2>1, <2>2, SamePlace DEF FlagsOK
  <2>3. CASE QueueEnd /\ recording' = FALSE /\ failed' = failed
    BY <1>0, <2>1, <2>3, EndPlan DEF FlagsOK, Opening
  <2>4. CASE error # "none" /\ UNCHANGED <<queue, error>>
    <3>1. Running' = Running
      BY <2>1 DEF Running
    <3> QED
      BY <2>1, <2>4, <3>1, QuietPlan
  <2> QED
    BY <2>1, <2>2, <2>3, <2>4
<1>5. CASE StartDone
  <2>1. /\ segment = 0 /\ segment' = 0 /\ oldest' = 1 /\ sizes' = sizes /\ history' = history
        /\ len' = len /\ recording' = recording /\ failed' = failed
        /\ pc = "host" /\ pc' = "open" /\ worker' = "on" /\ ~started
        /\ UNCHANGED <<queue, error, diskVars, said>>
    BY <1>0, <1>5 DEF StartDone, Control, Numbers, HostTypes, queueVars
  <2>2. Running /\ Running'
    BY <2>1 DEF IInv, Threads, Running
  <2>3. MeantStays /\ Live' = Live
    BY <1>0, <2>1 DEF MeantStays, TextsMeant, StatesMeant, Live, Opening, HostTypes
  <2> QED
    BY <2>1, <2>2, <2>3, QuietPlan
<1>6. CASE StartFailed
  <2>1. /\ UNCHANGED <<queue, error, diskVars, said, worker>>
        /\ UNCHANGED <<oldest, segment, sizes, history, len, recording, failed>>
        /\ pc = "host" /\ pc' = "run"
    BY <1>6 DEF StartFailed, queueVars
  <2> QED
    BY <1>0, <2>1, SamePlace DEF FlagsOK
<1>7. CASE OpenDone \/ OpenFailed
  <2>1. /\ pc = "open" /\ QueueEnd /\ recording' = FALSE
        /\ UNCHANGED <<worker, diskVars, said, oldest, sizes, history>>
        /\ failed => failed'
        /\ \/ segment' = segment /\ pc' = "run"
           \/ pc' = "evict" /\ segment' = segment + 1
    BY <1>7 DEF OpenDone, OpenFailed, EndSegment, QueueEnd
  <2> QED
    BY <1>0, <2>1, EndPlan DEF FlagsOK, Opening
<1>8. CASE EvictText
  BY <1>8, EvictTextPlan
<1>9. CASE EvictState
  BY <1>9, EvictStateCases, EvictStatePlan
<1>10. CASE BeginDone
  BY <1>10, BeginPlan
<1>11. CASE BeginFailed
  <2>1. /\ pc = "evict" /\ pc' = "run" /\ failed' = TRUE
        /\ UNCHANGED <<worker, diskVars, said, oldest, segment>>
    BY <1>11 DEF BeginFailed
  <2>2. ~stop /\ Begin(segment) \in Commands /\ said \in Words /\ Grows(said, said)
    BY <2>1, PutNow
  <2>3. CASE Enqueue(Begin(segment)) /\ ~Accepts(Begin(segment))
    BY <2>1, <2>2, <2>3, RefusedPlan
  <2>4. CASE UNCHANGED queueVars
    <3>1. UNCHANGED <<queue, error>> /\ Running' = Running /\ Live' = Live
      BY <2>1, <2>4 DEF Running, Live, queueVars
    <3> QED
      BY <2>1, <3>1, QuietPlan
  <2> QED
    BY <1>11, <2>3, <2>4 DEF BeginFailed
<1>12. CASE CheckpointDone
  BY <1>12, CheckpointPlan
<1>13. CASE CheckpointFailed
  <2>1. /\ pc = "checkpoint" /\ pc' = "run" /\ failed' = TRUE
        /\ UNCHANGED <<worker, diskVars, said, oldest, segment>>
    BY <1>13 DEF CheckpointFailed
  <2>2. ~stop /\ Checkpoint(segment, len) \in Commands /\ said \in Words /\ Grows(said, said)
    BY <2>1, PutNow
  <2>3. CASE Enqueue(Checkpoint(segment, len)) /\ ~Accepts(Checkpoint(segment, len))
    BY <2>1, <2>2, <2>3, RefusedPlan
  <2>4. CASE UNCHANGED queueVars
    <3>1. UNCHANGED <<queue, error>> /\ Running' = Running /\ Live' = Live
      BY <2>1, <2>4 DEF Running, Live, queueVars
    <3> QED
      BY <2>1, <3>1, QuietPlan
  <2> QED
    BY <1>13, <2>3, <2>4 DEF CheckpointFailed
<1>14. CASE RecordEvents
  <2>1. /\ WriteOut("E") /\ pc = "lines" /\ pc' \in {"lines", "run"} /\ recording
        /\ UNCHANGED <<worker, diskVars, segment, oldest, len, sizes, history>>
    BY <1>0, <1>14 DEF RecordEvents, kept, Control, Flow
  <2> QED
    BY <2>1, LinePlan
<1>15. CASE RecordInput
  <2>1. /\ WriteOut("I") /\ pc = "lines" /\ pc' = "run" /\ recording
        /\ UNCHANGED <<worker, diskVars, segment, oldest, len, sizes, history>>
    BY <1>0, <1>15 DEF RecordInput, kept, Control, Flow
  <2> QED
    BY <2>1, LinePlan
<1>16. CASE FrameEnd
  <2>1. /\ pc = "run" /\ pc' = "host"
        /\ UNCHANGED <<worker, diskVars, segment, oldest, len, sizes, history>>
        /\ \/ recording /\ WriteOut("H")
           \/ UNCHANGED <<queue, error, recording, failed, said>>
    BY <1>16 DEF FrameEnd, kept, switches, queueVars
  <2> QED
    BY <1>0, <2>1, LinePlan, SamePlace DEF FlagsOK
<1>17. CASE Shutdown
  <2>1. /\ pc = "host" /\ pc' \in {"stop", "exit"} /\ failed' = failed
        /\ UNCHANGED <<worker, diskVars, said, oldest, segment, sizes, history, len>>
        /\ \/ UNCHANGED <<queue, error, recording>>
           \/ QueueEnd /\ recording' = FALSE
    BY <1>17 DEF Shutdown, EndSegment, QueueEnd, queueVars, kept
  <2> QED
    BY <1>0, <2>1, SamePlace, EndPlan DEF FlagsOK, Opening
<1>18. CASE AskToStop
  <2>1. /\ UNCHANGED <<queue, error, diskVars, said, worker>>
        /\ UNCHANGED <<oldest, segment, sizes, history, len, recording, failed>>
        /\ pc = "stop" /\ pc' = "join"
    BY <1>18 DEF AskToStop, switches, kept
  <2> QED
    BY <1>0, <2>1, SamePlace DEF FlagsOK
<1> QED
  BY <1>1, <1>2, <1>3, <1>4, <1>5, <1>6, <1>7, <1>8, <1>9, <1>10, <1>11, <1>12, <1>13, <1>14,
     <1>15, <1>16, <1>17, <1>18, StartRecorderCases, OpenSegmentCases, BeginSegmentCases,
     QueueCheckpointCases DEF HostStep, RecorderStep

-----------------------------------------------------------------------------
LEMMA HostStepInv ==
  ASSUME IInv, HostStep \/ RecorderStep
  PROVE  IInv'
<1>1. TypeOK' /\ Control' /\ Noted'
  BY TypeStep, ControlStep, NotedStep
<1>2. Accounted' /\ SaidSoFar'
  BY AccountedStep, SaidSoFarStep
<1>3. Threads' /\ Weighed'
  BY ThreadsStep
<1>4. Promised' /\ Planning'
  BY PlanStep
<1> QED
  BY <1>1, <1>2, <1>3, <1>4 DEF IInv

-----------------------------------------------------------------------------
(* At the start nothing waits and nothing is on disk. *)
LEMMA InitInv ==
  ASSUME Init
  PROVE  IInv
<1>1. /\ MaxSegment \in Nat \ {0} /\ Capacity \in Nat /\ Segments \in Nat \ {0}
      /\ SegmentFrames \in Nat \ {0} /\ MaxChanges \in Nat
  BY WriterAssumption, ReplayAssumption
<1>2. /\ queue = <<>> /\ used = 0 /\ stop = FALSE /\ error = "none" /\ open = None /\ buf = <<>>
      /\ files = {} /\ text = [n \in Segs |-> <<>>] /\ states = [n \in Segs |-> 0] /\ whole = {}
      /\ worker \in {"on", "off"} /\ started \in BOOLEAN /\ (worker = "on" <=> started)
  BY DEF Init, WriterInit
<1>3. <<>> \in Seq(Commands) /\ <<>> \in Seq(Entries) /\ Len(queue) = 0
  BY <1>2
<1>4. /\ WriterTypeOK
  BY <1>1, <1>2, <1>3 DEF WriterTypeOK
<1>5. said = [n \in Segs |-> <<>>] /\ said \in [Segs -> Seq(Entries)]
  BY <1>3 DEF Init
<1>6. sizes = [i \in Slots |-> 0] /\ sizes \in [Slots -> Sizes \union {0}] /\ DOMAIN sizes = Slots
  BY DEF Init
<1>7. /\ pc = "host" /\ failed = FALSE /\ suspended = FALSE /\ recording = FALSE
      /\ segment = 0 /\ oldest \in {0, 1} /\ (started => oldest = 1)
      /\ history = 0 /\ len = 0 /\ rows = 0 /\ ev = "none" /\ news = {} /\ pending = FALSE
      /\ untold = {} /\ loud = FALSE /\ changes = 0
  BY DEF Init
<1>8. allow \in BOOLEAN /\ enabled \in BOOLEAN /\ mod_paused \in BOOLEAN
  BY DEF Init
<1>9. FlagsOK /\ CountsOK
  <2>1. FlagsOK
    BY <1>2, <1>7, <1>8 DEF FlagsOK
  <2>2. CountsOK
    <3>1. /\ segment \in 0 .. MaxSegment /\ oldest \in 0 .. MaxSegment /\ rows \in 0 .. SegmentFrames
          /\ len \in Sizes \union {0} /\ history \in Nat
      BY <1>1, <1>7
    <3> QED
      BY <1>6, <3>1 DEF CountsOK
  <2> QED
    BY <2>1, <2>2
<1>10. TypeOK
  BY <1>1, <1>4, <1>5, <1>7, <1>9, TypeParts
<1>11. Control /\ Noted /\ Threads
  BY <1>2, <1>7 DEF Control, Flow, Recorded, Numbers, Opening, Noted, Threads
<1>12. Total(sizes) = 0
  BY <1>6, ReplayAssumption, FS_Interval, TotalZero DEF Slots
<1>13. Accounted
  <2>1. Slotted \subseteq {0}
    BY <1>7 DEF Slotted
  <2>2. \A m, n \in Slotted : n - m < Segments
    BY <1>1, <2>1
  <2> QED
    BY <1>6, <1>7, <1>12, <2>2 DEF Accounted
<1>14. SaidSoFar
  BY <1>5 DEF SaidSoFar
<1>15. Weighed
  <2>1. used = Units(queue)
    BY <1>2, UnitsEmpty
  <2> QED
    BY <1>1, <1>2, <2>1 DEF Weighed, Units
<1>16. /\ DiskNow.open = None /\ DiskNow.files = {} /\ DiskNow.states = states /\ DiskNow.whole = {}
       /\ \A n \in Segs : DiskNow.lines[n] = <<>>
  <2>1. \A n \in Segs : LinesOf(n) = <<>>
    BY <1>2, SegsFinite DEF LinesOf, None
  <2> QED
    BY <1>2, <1>4, <2>1, NowParts
<1>17. Sound(DiskNow, said)
  <2>1. \A n \in Segs : IsPrefix(DiskNow.lines[n], said[n])
    BY <1>3, <1>5, <1>16, PrefixSelf
  <2>2. \A n \in Segs : DiskNow.states[n] = 0
    BY <1>2, <1>16
  <2> QED
    BY <1>16, <2>1, <2>2 DEF Sound
<1>18. Ahead(DiskNow, queue)[0] = DiskNow /\ Planned = DiskNow
  BY <1>3, AheadAt DEF Planned
<1>19. Promised
  <2>1. \A i \in 0 .. Len(queue) : i = 0
    BY <1>3
  <2>2. \A i \in 1 .. Len(queue) : FALSE
    BY <1>3
  <2> QED
    BY <1>17, <1>18, <2>1, <2>2 DEF Promised
<1>20. Planning
  <2>1. /\ TextsMeant \ {0} = {} /\ StatesMeant \ {0} = {} /\ Live = {}
    BY <1>7 DEF TextsMeant, StatesMeant, Live, Opening
  <2>2. \A n \in Segs : n \notin StatesMeant
    BY <2>1, SegsFinite
  <2>3. Total(states) = 0
    BY <1>2, SegsFinite, TotalZero
  <2>4. Meant(DiskNow)
    BY <1>2, <1>7, <1>16, <2>1, <2>2, <2>3 DEF Meant
  <2> QED
    BY <1>18, <2>1, <2>4 DEF Planning
<1> QED
  BY <1>10, <1>11, <1>13, <1>14, <1>15, <1>19, <1>20 DEF IInv

(* Nothing happens. *)
LEMMA StutterInv ==
  ASSUME IInv, UNCHANGED vars
  PROVE  IInv'
<1>1. /\ UNCHANGED <<queue, error, diskVars, said, worker, stop, used>>
      /\ UNCHANGED <<oldest, segment, sizes, history, len, recording, failed, pc>>
  BY DEF vars, writerVars, queueVars, kept, switches
<1>2. UNCHANGED <<allow, enabled, started, suspended, mod_paused, rows, ev, news, untold, pending,
                  loud, changes, open, buf, files, text, states, whole>>
  BY DEF vars, writerVars, diskVars, kept, switches, heard
<1>3. Promised' /\ Planning'
  <2>1. failed \in BOOLEAN
    BY HostTypesHold DEF IInv, HostTypes
  <2> QED
    BY <1>1, <2>1, SamePlace
<1>4. TypeOK'
  BY <1>1, <1>2 DEF IInv, TypeOK, WriterTypeOK
<1>5. Control' /\ Noted' /\ SaidSoFar'
  BY <1>1, <1>2 DEF IInv, Control, Flow, Recorded, Numbers, Opening, Noted, SaidSoFar
<1>6. Accounted' /\ Threads' /\ Weighed'
  BY <1>1, <1>2 DEF IInv, Accounted, Slotted, Threads, Weighed
<1> QED
  BY <1>3, <1>4, <1>5, <1>6 DEF IInv

-----------------------------------------------------------------------------
(* The state of the recorder, its queue and its writer keep what IInv says,   *)
(* whatever the player, the frames and the failing disk do.                   *)
THEOREM Invariant == Spec => []IInv
<1>1. Init => IInv
  BY InitInv
<1>2. IInv /\ [Next]_vars => IInv'
  BY HostStepInv, WriterStepInv, StutterInv DEF Next, Exited
<1> QED
  BY <1>1, <1>2, PTL DEF Spec

(* The type of every variable. *)
THEOREM TypeCorrect == Spec => []TypeOK
<1>1. IInv => TypeOK
  BY DEF IInv
<1> QED
  BY <1>1, Invariant, PTL

(* Each segment replays alone: when a frame's inputs are recorded, whatever   *)
(* changed the machine since the segment's checkpoint is told by a line of it *)
(* (cyc_replay_frame_begin()).                                                *)
THEOREM Alone == Spec => []ReplaysAlone
<1>1. IInv => ReplaysAlone
  BY DEF IInv, Noted, ReplaysAlone
<1> QED
  BY <1>1, Invariant, PTL

(* The lines of a segment reach its own file, in the order they were said,    *)
(* and while nothing failed none is missing from file, buffer and queue.      *)
THEOREM LinesArrive == Spec => []OwnLines
<1>1. ASSUME IInv PROVE OwnLines
  <2> SUFFICES ASSUME NEW n \in Live
               PROVE  /\ IsPrefix(LinesOf(n), said[n])
                      /\ error = "none" => Planned.lines[n] = said[n]
    BY DEF OwnLines
  <2>1. n \in Segs
    BY <1>1, NumbersInRange DEF Live, Segs, HostTypes
  <2>2. DiskNow.lines[n] = LinesOf(n)
    BY <1>1, <2>1, NowParts DEF IInv, TypeOK
  <2> QED
    BY <1>1, <2>1, <2>2 DEF IInv, Promised, Sound, Planning
<1> QED
  BY <1>1, Invariant, PTL

(* Whenever the program is killed, a text with lines in it has its whole      *)
(* checkpoint beside it (open_segment_impl(), remove_segment_files()).        *)
THEOREM CrashSafe == Spec => []ReplaysAfterCrash
<1>1. ASSUME IInv PROVE ReplaysAfterCrash
  <2> SUFFICES ASSUME NEW n \in files, text[n] # <<>>
               PROVE  n \in whole
    BY DEF ReplaysAfterCrash
  <2>1. WriterTypeOK /\ n \in Segs /\ text[n] \in Seq(Entries) /\ buf \in Seq(Entries)
    BY <1>1 DEF IInv, TypeOK, WriterTypeOK
  <2>2. DiskNow.lines[n] = LinesOf(n) /\ DiskNow.whole = whole
    BY <2>1, NowParts
  <2>3. LinesOf(n) # <<>>
    <3>1. Len(text[n]) \in Nat /\ Len(text[n]) # 0 /\ Len(buf) \in Nat
      BY <2>1, EmptySeq
    <3>2. Len(Joined(text[n], buf)) = Len(text[n]) + Len(buf)
      BY <2>1, JoinedParts
    <3>3. Len(Joined(text[n], buf)) # 0
      BY <3>1, <3>2
    <3>4. Joined(text[n], buf) # <<>>
      BY <3>3
    <3> QED
      BY <3>4 DEF LinesOf, Joined
  <2> QED
    BY <1>1, <2>1, <2>2, <2>3 DEF IInv, Promised, Sound
<1> QED
  BY <1>1, Invariant, PTL

(* Retention: no more texts on disk than Segments, and the checkpoints within *)
(* the limit unless one alone is larger (open_segment_impl()'s eviction).     *)
THEOREM Retained == Spec => []Retention
<1>1. ASSUME IInv PROVE Retention
  <2>1. WriterTypeOK /\ Sound(DiskNow, said)
    BY <1>1 DEF IInv, TypeOK, Promised
  <2>2. DiskNow.files = files /\ DiskNow.states = states
    BY <2>1, NowParts
  <2>3. /\ \A m, n \in files : n - m < Segments
        /\ \/ \A m, n \in Segs : (states[m] # 0 /\ states[n] # 0) => m = n
           \/ Total(states) <= Limit
    BY <2>1, <2>2 DEF Sound
  <2>4. files \subseteq Segs /\ Segs \subseteq Nat /\ Segments \in Nat \ {0}
    BY <2>1, SegsFinite, ReplayAssumption DEF WriterTypeOK
  <2>5. Cardinality(files) <= Segments
    <3>1. CASE files = {}
      BY <2>4, <3>1, FS_EmptySet
    <3>2. CASE files # {}
      <4>1. files \in SUBSET Nat
        BY <2>4
      <4>2. PICK m \in files : \A n \in files : m <= n
        BY <3>2, <4>1, Least
      <4> DEFINE near == m .. m + Segments - 1
      <4>3. m \in Nat /\ m + Segments - 1 \in Int /\ ~ (m > m + Segments - 1)
        BY <2>4
      <4>4. IsFiniteSet(near) /\ Cardinality(near) = Segments
        <5>1. Cardinality(near) = (m + Segments - 1) - m + 1
          BY <4>3, FS_Interval
        <5>2. (m + Segments - 1) - m + 1 = Segments
          BY <2>4, <4>3
        <5> QED
          BY <4>3, <5>1, <5>2, FS_Interval
      <4>5. files \subseteq near
        BY <2>3, <2>4, <4>2
      <4> HIDE DEF near
      <4>6. files \in SUBSET near
        BY <4>5
      <4> QED
        BY <4>4, <4>6, FS_Subset
    <3> QED
      BY <3>1, <3>2
  <2>6. Cardinality(Kept) <= 1 \/ Total(states) <= Limit
    <3> SUFFICES ASSUME \A m, n \in Segs : (states[m] # 0 /\ states[n] # 0) => m = n
                 PROVE  Cardinality(Kept) <= 1
      BY <2>3
    <3>1. CASE Kept = {}
      BY <3>1, FS_EmptySet
    <3>2. CASE Kept # {}
      <4>1. PICK m \in Kept : TRUE
        BY <3>2
      <4>2. Kept = {m}
        BY <4>1 DEF Kept
      <4>3. Cardinality({m}) = 1
        BY FS_Singleton
      <4> QED
        BY <4>2, <4>3
    <3> QED
      BY <3>1, <3>2
  <2> QED
    BY <2>5, <2>6 DEF Retention
<1> QED
  BY <1>1, Invariant, PTL

(* A session that ends without a report has all it recorded in the segments   *)
(* it kept (cyc_replay_shutdown(), w_worker()).                               *)
THEOREM NothingLost == Spec => []NothingLostQuietly
<1>1. ASSUME IInv PROVE NothingLostQuietly
  <2> SUFFICES ASSUME pc = "exit", ~loud, segment > 0
               PROVE  /\ files = Live
                      /\ \A n \in files : text[n] = said[n] /\ n \in whole
    BY DEF NothingLostQuietly
  <2>1. /\ HostTypes /\ Control /\ Threads /\ Planning /\ WriterTypeOK
    BY <1>1, NumbersInRange DEF IInv, TypeOK
  <2>2. ~failed /\ error = "none"
    BY <2>1 DEF HostTypes, Control, Recorded, Threads
  <2>3. queue = <<>> /\ open = None
    BY <2>1, <2>2 DEF Threads
  <2>4. Planned = DiskNow
    <3>1. Len(queue) = 0
      BY <2>3
    <3> QED
      BY <3>1, AheadAt DEF Planned
  <2>5. /\ Meant(DiskNow) /\ \A n \in Live : DiskNow.lines[n] = said[n]
    BY <2>1, <2>2, <2>4 DEF Planning
  <2>6. DiskNow.files = files /\ DiskNow.whole = whole
        /\ \A n \in Segs : DiskNow.lines[n] = LinesOf(n)
    BY <2>1, NowParts
  <2>7. TextsMeant \ {0} = Live /\ StatesMeant \ {0} = Live
    BY DEF TextsMeant, StatesMeant, Live, Opening
  <2>8. files = Live /\ whole = Live
    BY <2>5, <2>6, <2>7 DEF Meant
  <2>9. \A n \in files : n \in Segs /\ LinesOf(n) = text[n]
    BY <2>1, <2>3, SegsFinite DEF WriterTypeOK, LinesOf, None
  <2> QED
    BY <2>5, <2>6, <2>8, <2>9
<1> QED
  BY <1>1, Invariant, PTL
=============================================================================
