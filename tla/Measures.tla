------------------------------ MODULE Measures ------------------------------
(***************************************************************************)
(* Orders on tuples of natural numbers, under which nothing goes down for  *)
(* ever: what the proofs that a loop is bounded measure its steps by.      *)
(***************************************************************************)
EXTENDS Integers, WellFoundedInduction, TLAPS

Less == OpToRel(<, Nat)

\* The first number that differs decides.
LexOrder(n) == LexProductOrdering(Less, Nat, n)

LEMMA LessIsLess == \A a, b \in Nat : <<a, b>> \in Less <=> a < b
  BY DEF Less, OpToRel

LEMMA LessWellFounded == IsWellFoundedOn(Less, Nat)
  BY NatLessThanWellFounded DEF Less

LEMMA LexWellFounded ==
    ASSUME NEW n \in Nat
    PROVE  IsWellFoundedOn(LexOrder(n), [1 .. n -> Nat])
  BY LessWellFounded, WFLexProductOrdering DEF LexOrder

\* One place goes down, and those before it stay.
LEMMA GoesDown ==
    \A n \in Nat : \A f, g \in [1 .. n -> Nat] :
       (\E j \in 1 .. n : f[j] < g[j] /\ \A i \in 1 .. n : i < j => f[i] = g[i])
          => <<f, g>> \in LexOrder(n)
<1> SUFFICES ASSUME NEW n \in Nat, NEW f \in [1 .. n -> Nat], NEW g \in [1 .. n -> Nat],
                    NEW j \in 1 .. n, f[j] < g[j],
                    \A i \in 1 .. n : i < j => f[i] = g[i]
             PROVE  <<f, g>> \in LexOrder(n)
  OBVIOUS
<1>1. \A i \in 1 .. (j - 1) : f[i] = g[i]
  OBVIOUS
<1> QED BY <1>1, LessIsLess DEF LexOrder, LexProductOrdering

\* Many such tuples in a row: if each stays or goes down and one does not stay, the
\* row goes down, the first one that differs deciding.
LEMMA RowGoesDown ==
    ASSUME NEW n \in Nat, NEW S, NEW R, NEW f \in [1 .. n -> S], NEW g \in [1 .. n -> S],
           \A i \in 1 .. n : f[i] = g[i] \/ <<f[i], g[i]>> \in R,
           NEW k \in 1 .. n, f[k] # g[k]
    PROVE  <<f, g>> \in LexProductOrdering(R, S, n)
<1> DEFINE T == {i \in 1 .. n : f[i] # g[i]}
<1>1. T \subseteq Nat /\ T # {}
  OBVIOUS
<1>2. PICK j \in T : \A i \in T : ~(<<i, j>> \in Less)
  BY <1>1, LessWellFounded, WFMin
<1>3. ASSUME NEW i \in 1 .. (j - 1) PROVE f[i] = g[i]
  <2>1. i \in 1 .. n /\ i \in Nat /\ j \in Nat /\ i < j
    OBVIOUS
  <2>2. <<i, j>> \in Less
    BY <2>1, LessIsLess
  <2> QED BY <1>2, <2>1, <2>2
<1>4. j \in 1 .. n /\ <<f[j], g[j]>> \in R
  BY <1>2
<1> QED BY <1>3, <1>4 DEF LexProductOrdering
=============================================================================
