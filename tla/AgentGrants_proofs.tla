-------------------------- MODULE AgentGrants_proofs --------------------------
(***************************************************************************)
(* Proofs about AgentGrants, for every number of requests, agents and      *)
(* grants, and every depth up to 5, budget and lifetime.                   *)
(***************************************************************************)
EXTENDS AgentGrants, FiniteSetTheorems, WellFoundedInduction, TLAPS

-----------------------------------------------------------------------------
(* Sums over finite sets, as SumFunctionOnSet computes them.               *)

\* The element the fold of SumFunctionOnSet takes out of a set.
Chosen(s) == CHOOSE x \in s : TRUE

\* The equation of its recursive function.
SumsFrom(f, S, it) ==
    [s \in SUBSET S |-> IF s = {} THEN 0 ELSE f[Chosen(s)] + it[s \ {Chosen(s)}]]

\* A sum is the value of a function that solves the equation.
LEMMA SumUnfolds ==
    ASSUME NEW f, NEW S
    PROVE  SumFunctionOnSet(f, S) = (CHOOSE it : it = SumsFrom(f, S, it))[S]
  BY DEF SumFunctionOnSet, FoldFunctionOnSet, MapThenFoldSet, SumsFrom, Chosen

\* Among finite sets there is always a least one: this is how the facts below go
\* by induction.
LEMMA LeastSet ==
    ASSUME NEW S, NEW C \in SUBSET FiniteSubsetsOf(S), C # {}
    PROVE  \E T \in C : \A U \in C : ~(U \subseteq T /\ U # T)
<1>1. IsWellFoundedOn(StrictSubsetOrdering(S), FiniteSubsetsOf(S))
  BY FS_StrictSubsetOrderingWellFounded
<1>2. PICK T \in C : \A U \in C : ~(<<U, T>> \in StrictSubsetOrdering(S))
  BY <1>1, WFMin
<1>3. \A U \in C : <<U, T>> \in (SUBSET S) \X (SUBSET S)
  BY DEF FiniteSubsetsOf
<1> QED BY <1>2, <1>3 DEF StrictSubsetOrdering

\* A set that is not empty has something to take out.
LEMMA ChosenIsMember ==
    ASSUME NEW s, s # {}
    PROVE  Chosen(s) \in s
  BY DEF Chosen

\* Two solutions of the equation agree wherever both are defined.
LEMMA SumsAgree ==
    ASSUME NEW f, NEW S, NEW T, NEW it, NEW jt, it = SumsFrom(f, S, it), jt = SumsFrom(f, T, jt),
           NEW V, IsFiniteSet(V), V \subseteq S, V \subseteq T
    PROVE  it[V] = jt[V]
<1> DEFINE C == {s \in FiniteSubsetsOf(V) : it[s] # jt[s]}
<1>1. ASSUME NEW s \in SUBSET V
      PROVE  /\ it[s] = IF s = {} THEN 0 ELSE f[Chosen(s)] + it[s \ {Chosen(s)}]
             /\ jt[s] = IF s = {} THEN 0 ELSE f[Chosen(s)] + jt[s \ {Chosen(s)}]
  <2>1. s \in SUBSET S /\ s \in SUBSET T
    OBVIOUS
  <2> QED BY <2>1 DEF SumsFrom
<1>2. ASSUME C # {} PROVE FALSE
  <2>1. C \in SUBSET FiniteSubsetsOf(V)
    OBVIOUS
  <2>2. PICK s \in C : \A U \in C : ~(U \subseteq s /\ U # s)
    <3> HIDE DEF C
    <3> QED BY <1>2, <2>1, LeastSet
  <2>3. s \in SUBSET V /\ IsFiniteSet(s) /\ it[s] # jt[s]
    BY DEF FiniteSubsetsOf
  <2>4. s # {}
    BY <1>1, <2>3
  <2>5. PICK U : U = s \ {Chosen(s)}
    OBVIOUS
  <2>6. U \in FiniteSubsetsOf(V) /\ U \subseteq s /\ U # s
    BY <2>3, <2>4, <2>5, ChosenIsMember, FS_RemoveElement DEF FiniteSubsetsOf
  <2>7. it[U] = jt[U]
    BY <2>2, <2>6
  <2> QED BY <1>1, <2>3, <2>4, <2>5, <2>7
<1>3. V \in FiniteSubsetsOf(V)
  BY DEF FiniteSubsetsOf
<1> QED BY <1>2, <1>3

\* The equation has a solution for every finite set.
LEMMA SumsExist ==
    ASSUME NEW f, NEW S, IsFiniteSet(S)
    PROVE  \E it : it = SumsFrom(f, S, it)
<1> DEFINE C == {s \in FiniteSubsetsOf(S) : ~\E it : it = SumsFrom(f, s, it)}
<1>1. ASSUME C # {} PROVE FALSE
  <2>1. C \in SUBSET FiniteSubsetsOf(S)
    OBVIOUS
  <2>2. PICK T \in C : \A U \in C : ~(U \subseteq T /\ U # T)
    <3> HIDE DEF C
    <3> QED BY <1>1, <2>1, LeastSet
  <2>3. T \in SUBSET S /\ IsFiniteSet(T) /\ ~\E it : it = SumsFrom(f, T, it)
    BY DEF FiniteSubsetsOf
  <2>4. ASSUME NEW U \in SUBSET T, U # T
        PROVE  \E it : it = SumsFrom(f, U, it) /\ it[U] = SumFunctionOnSet(f, U)
    <3>1. U \in FiniteSubsetsOf(S)
      BY <2>3, FS_Subset DEF FiniteSubsetsOf
    <3>2. \E it : it = SumsFrom(f, U, it)
      BY <2>2, <2>4, <3>1
    <3>3. PICK jt : jt = CHOOSE it : it = SumsFrom(f, U, it)
      OBVIOUS
    <3>4. jt = SumsFrom(f, U, jt)
      BY <3>2, <3>3
    <3>5. jt[U] = SumFunctionOnSet(f, U)
      BY <3>3, SumUnfolds
    <3> QED BY <3>4, <3>5
  <2>5. ASSUME NEW U \in SUBSET T, U # T, U # {}
        PROVE  SumFunctionOnSet(f, U) = f[Chosen(U)] + SumFunctionOnSet(f, U \ {Chosen(U)})
    <3>1. PICK it : it = SumsFrom(f, U, it) /\ it[U] = SumFunctionOnSet(f, U)
      BY <2>4, <2>5
    <3>2. PICK V : V = U \ {Chosen(U)}
      OBVIOUS
    <3>3. V \in SUBSET T /\ V # T /\ V \subseteq U
      BY <2>5, <3>2
    <3>4. PICK jt : jt = SumsFrom(f, V, jt) /\ jt[V] = SumFunctionOnSet(f, V)
      BY <2>4, <3>3
    <3>5. IsFiniteSet(V)
      BY <2>3, <3>3, FS_Subset
    <3>6. it[V] = jt[V]
      BY <3>1, <3>3, <3>4, <3>5, SumsAgree
    <3>7. it[U] = f[Chosen(U)] + it[V]
      BY <2>5, <3>1, <3>2 DEF SumsFrom
    <3> QED BY <3>1, <3>2, <3>4, <3>6, <3>7
  <2>6. SumFunctionOnSet(f, {}) = 0 \/ T = {}
    <3>1. ASSUME T # {} PROVE SumFunctionOnSet(f, {}) = 0
      <4>1. PICK it : it = SumsFrom(f, {}, it) /\ it[{}] = SumFunctionOnSet(f, {})
        BY <2>4, <3>1
      <4> QED BY <4>1 DEF SumsFrom
    <3> QED BY <3>1
  <2>7. PICK v : v = IF T = {} THEN 0 ELSE f[Chosen(T)] + SumFunctionOnSet(f, T \ {Chosen(T)})
    OBVIOUS
  <2>8. PICK it : it = [s \in SUBSET T |-> IF s = T THEN v ELSE SumFunctionOnSet(f, s)]
    OBVIOUS
  <2>9. ASSUME NEW s \in SUBSET T
        PROVE  it[s] = IF s = {} THEN 0 ELSE f[Chosen(s)] + it[s \ {Chosen(s)}]
    <3>1. CASE s = {} 
      BY <2>6, <2>7, <2>8, <3>1
    <3>2. CASE s # {}
      <4>1. PICK V : V = s \ {Chosen(s)}
        OBVIOUS
      <4>2. V \in SUBSET T /\ V # T
        BY <2>9, <3>2, <4>1, ChosenIsMember
      <4>3. it[V] = SumFunctionOnSet(f, V)
        BY <2>8, <4>2
      <4>4. CASE s = T
        BY <2>7, <2>8, <3>2, <4>1, <4>3, <4>4
      <4>5. CASE s # T
        BY <2>5, <2>8, <3>2, <4>1, <4>3, <4>5
      <4> QED BY <4>4, <4>5
    <3> QED BY <3>1, <3>2
  <2>10. it = SumsFrom(f, T, it)
    <3>1. it = [s \in SUBSET T |-> it[s]]
      BY <2>8
    <3>2. PICK jt : jt = SumsFrom(f, T, it)
      OBVIOUS
    <3>3. jt = [s \in SUBSET T |-> jt[s]] /\ \A s \in SUBSET T : jt[s] = it[s]
      BY <2>9, <3>2 DEF SumsFrom
    <3> QED BY <3>1, <3>2, <3>3
  <2> QED BY <2>3, <2>10
<1>2. S \in FiniteSubsetsOf(S)
  BY DEF FiniteSubsetsOf
<1> QED BY <1>1, <1>2

\* A sum is one of its terms and the sum of the others.
LEMMA SumOfChosen ==
    ASSUME NEW f, NEW S, IsFiniteSet(S)
    PROVE  SumFunctionOnSet(f, S) =
             IF S = {} THEN 0 ELSE f[Chosen(S)] + SumFunctionOnSet(f, S \ {Chosen(S)})
<1>1. PICK it : it = CHOOSE h : h = SumsFrom(f, S, h)
  OBVIOUS
<1>2. it = SumsFrom(f, S, it) /\ it[S] = SumFunctionOnSet(f, S)
  BY <1>1, SumsExist, SumUnfolds
<1>3. PICK T : T = S \ {Chosen(S)}
  OBVIOUS
<1>4. IsFiniteSet(T) /\ T \subseteq S
  BY <1>3, FS_RemoveElement
<1>5. PICK jt : jt = CHOOSE h : h = SumsFrom(f, T, h)
  OBVIOUS
<1>6. jt = SumsFrom(f, T, jt) /\ jt[T] = SumFunctionOnSet(f, T)
  BY <1>4, <1>5, SumsExist, SumUnfolds
<1>7. it[T] = jt[T]
  BY <1>2, <1>4, <1>6, SumsAgree
<1>8. it[S] = IF S = {} THEN 0 ELSE f[Chosen(S)] + it[T]
  BY <1>2, <1>3 DEF SumsFrom
<1> QED BY <1>2, <1>3, <1>6, <1>7, <1>8

\* A sum of naturals is one.
LEMMA SumIsNat ==
    ASSUME NEW f, NEW S, IsFiniteSet(S), \A x \in S : f[x] \in Nat
    PROVE  SumFunctionOnSet(f, S) \in Nat
<1> DEFINE C == {T \in FiniteSubsetsOf(S) : SumFunctionOnSet(f, T) \notin Nat}
<1>1. ASSUME C # {} PROVE FALSE
  <2>1. C \in SUBSET FiniteSubsetsOf(S)
    OBVIOUS
  <2>2. PICK T \in C : \A U \in C : ~(U \subseteq T /\ U # T)
    <3> HIDE DEF C
    <3> QED BY <1>1, <2>1, LeastSet
  <2>3. T \in SUBSET S /\ IsFiniteSet(T) /\ SumFunctionOnSet(f, T) \notin Nat
    BY DEF FiniteSubsetsOf
  <2>4. T # {}
    <3>1. T = {} => SumFunctionOnSet(f, T) = 0
      BY <2>3, SumOfChosen
    <3> QED BY <2>3, <3>1
  <2>5. PICK x \in T : x = Chosen(T)
    BY <2>4, ChosenIsMember
  <2>6. T \ {x} \in FiniteSubsetsOf(S) /\ T \ {x} \subseteq T /\ T \ {x} # T
    BY <2>3, FS_RemoveElement DEF FiniteSubsetsOf
  <2>7. SumFunctionOnSet(f, T \ {x}) \in Nat
    BY <2>2, <2>6
  <2>8. SumFunctionOnSet(f, T) = f[x] + SumFunctionOnSet(f, T \ {x})
    BY <2>3, <2>4, <2>5, SumOfChosen
  <2> QED BY <2>3, <2>7, <2>8
<1>2. S \in FiniteSubsetsOf(S)
  BY DEF FiniteSubsetsOf
<1> QED BY <1>1, <1>2

\* Any term may be taken out of a sum, not only the one the fold would choose.
LEMMA SumTakesOut ==
    ASSUME NEW f, NEW S, IsFiniteSet(S), \A x \in S : f[x] \in Nat, NEW a \in S
    PROVE  SumFunctionOnSet(f, S) = f[a] + SumFunctionOnSet(f, S \ {a})
<1> DEFINE C == {T \in FiniteSubsetsOf(S) :
                   \E x \in T : SumFunctionOnSet(f, T) # f[x] + SumFunctionOnSet(f, T \ {x})}
<1>1. ASSUME C # {} PROVE FALSE
  <2>1. C \in SUBSET FiniteSubsetsOf(S)
    OBVIOUS
  <2>2. PICK T \in C : \A U \in C : ~(U \subseteq T /\ U # T)
    <3> HIDE DEF C
    <3> QED BY <1>1, <2>1, LeastSet
  <2>3. /\ T \in SUBSET S /\ IsFiniteSet(T)
        /\ \E x \in T : SumFunctionOnSet(f, T) # f[x] + SumFunctionOnSet(f, T \ {x})
    BY DEF FiniteSubsetsOf
  <2>4. PICK x \in T : SumFunctionOnSet(f, T) # f[x] + SumFunctionOnSet(f, T \ {x})
    BY <2>3
  <2>5. PICK c \in T : c = Chosen(T)
    BY ChosenIsMember
  <2>6. SumFunctionOnSet(f, T) = f[c] + SumFunctionOnSet(f, T \ {c})
    BY <2>3, <2>5, SumOfChosen
  <2>7. c # x
    BY <2>4, <2>6
  <2>8. PICK U, V, W : U = T \ {c} /\ V = T \ {x} /\ W = (T \ {c}) \ {x}
    OBVIOUS
  <2>9. /\ U \in FiniteSubsetsOf(S) /\ V \in FiniteSubsetsOf(S) /\ IsFiniteSet(W) /\ W \subseteq S
        /\ U \subseteq T /\ V \subseteq T /\ U # T /\ V # T
        /\ x \in U /\ c \in V /\ W = U \ {x} /\ W = V \ {c}
    <3>1. IsFiniteSet(U) /\ IsFiniteSet(V)
      BY <2>3, <2>8, FS_RemoveElement
    <3>2. W = U \ {x}
      BY <2>8
    <3>3. IsFiniteSet(W)
      BY <3>1, <3>2, FS_RemoveElement
    <3> QED BY <2>3, <2>7, <2>8, <3>1, <3>2, <3>3 DEF FiniteSubsetsOf
  <2>10. U \notin C /\ V \notin C
    BY <2>2, <2>9
  <2>11. /\ SumFunctionOnSet(f, U) = f[x] + SumFunctionOnSet(f, W)
         /\ SumFunctionOnSet(f, V) = f[c] + SumFunctionOnSet(f, W)
    BY <2>9, <2>10
  <2>12. SumFunctionOnSet(f, W) \in Nat /\ f[x] \in Nat /\ f[c] \in Nat
    BY <2>3, <2>9, SumIsNat
  <2> QED BY <2>4, <2>6, <2>8, <2>11, <2>12
<1>2. S \in FiniteSubsetsOf(S)
  BY DEF FiniteSubsetsOf
<1> QED BY <1>1, <1>2

\* A sum depends on its terms only.
LEMMA SumOfSameTerms ==
    ASSUME NEW f, NEW h, NEW S, IsFiniteSet(S), \A x \in S : f[x] = h[x]
    PROVE  SumFunctionOnSet(f, S) = SumFunctionOnSet(h, S)
<1> DEFINE C == {T \in FiniteSubsetsOf(S) : SumFunctionOnSet(f, T) # SumFunctionOnSet(h, T)}
<1>1. ASSUME C # {} PROVE FALSE
  <2>1. C \in SUBSET FiniteSubsetsOf(S)
    OBVIOUS
  <2>2. PICK T \in C : \A U \in C : ~(U \subseteq T /\ U # T)
    <3> HIDE DEF C
    <3> QED BY <1>1, <2>1, LeastSet
  <2>3. T \in SUBSET S /\ IsFiniteSet(T) /\ SumFunctionOnSet(f, T) # SumFunctionOnSet(h, T)
    BY DEF FiniteSubsetsOf
  <2>4. T # {}
    BY <2>3, SumOfChosen
  <2>5. PICK x \in T : x = Chosen(T)
    BY <2>4, ChosenIsMember
  <2>6. T \ {x} \in FiniteSubsetsOf(S) /\ T \ {x} \subseteq T /\ T \ {x} # T
    BY <2>3, FS_RemoveElement DEF FiniteSubsetsOf
  <2>7. SumFunctionOnSet(f, T \ {x}) = SumFunctionOnSet(h, T \ {x})
    BY <2>2, <2>6
  <2>8. /\ SumFunctionOnSet(f, T) = f[x] + SumFunctionOnSet(f, T \ {x})
        /\ SumFunctionOnSet(h, T) = h[x] + SumFunctionOnSet(h, T \ {x})
    BY <2>3, <2>4, <2>5, SumOfChosen
  <2> QED BY <2>3, <2>7, <2>8
<1>2. S \in FiniteSubsetsOf(S)
  BY DEF FiniteSubsetsOf
<1> QED BY <1>1, <1>2

\* Among finitely many naturals there is a largest.
LEMMA LargestValue ==
    ASSUME NEW f, NEW S, IsFiniteSet(S), S # {}, \A x \in S : f[x] \in Nat
    PROVE  \E m \in S : \A x \in S : f[x] <= f[m]
<1> DEFINE C == {T \in FiniteSubsetsOf(S) : T # {} /\ ~\E m \in T : \A x \in T : f[x] <= f[m]}
<1>1. ASSUME C # {} PROVE FALSE
  <2>1. C \in SUBSET FiniteSubsetsOf(S)
    OBVIOUS
  <2>2. PICK T \in C : \A U \in C : ~(U \subseteq T /\ U # T)
    <3> HIDE DEF C
    <3> QED BY <1>1, <2>1, LeastSet
  <2>3. T \in SUBSET S /\ IsFiniteSet(T) /\ T # {} /\ ~\E m \in T : \A x \in T : f[x] <= f[m]
    BY DEF FiniteSubsetsOf
  <2>4. PICK a \in T : TRUE
    BY <2>3
  <2>5. PICK U : U = T \ {a}
    OBVIOUS
  <2>6. U \in FiniteSubsetsOf(S) /\ U \subseteq T /\ U # T
    BY <2>3, <2>5, FS_RemoveElement DEF FiniteSubsetsOf
  <2>7. U # {}
    BY <2>3, <2>5
  <2>8. PICK m \in U : \A x \in U : f[x] <= f[m]
    BY <2>2, <2>6, <2>7
  <2>9. f[a] \in Nat /\ \A x \in U : f[x] \in Nat
    BY <2>3, <2>6
  <2>10. \A x \in T : x = a \/ x \in U
    BY <2>5
  <2>11. CASE f[a] <= f[m]
    BY <2>3, <2>6, <2>8, <2>10, <2>11
  <2>12. CASE ~(f[a] <= f[m])
    <3>1. \A x \in T : f[x] <= f[a]
      BY <2>8, <2>9, <2>10, <2>12
    <3> QED BY <2>3, <3>1
  <2> QED BY <2>11, <2>12
<1>2. S \in FiniteSubsetsOf(S)
  BY DEF FiniteSubsetsOf
<1> QED BY <1>1, <1>2

-----------------------------------------------------------------------------
(* Ancestry.  Five steps up reach the root, because a depth is at most 5.  *)

Up(T) == T \cup ({grant[g].parent : g \in T} \ {None})

ClosedUp(T) == \A g \in T : grant[g].parent # None => grant[g].parent \in T

\* Above, without its recursive function.
LEMMA AboveUnfolds ==
    ASSUME NEW S
    PROVE  Above(S) = Up(Up(Up(Up(Up(S)))))
<1> DEFINE Body(f) == [n \in 0..5 |-> IF n = 0 THEN S
                         ELSE f[n - 1] \cup ({grant[g].parent : g \in f[n - 1]} \ {None})]
           F == [n \in 0..5 |-> IF n = 0 THEN S
                           ELSE IF n = 1 THEN Up(S)
                           ELSE IF n = 2 THEN Up(Up(S))
                           ELSE IF n = 3 THEN Up(Up(Up(S)))
                           ELSE IF n = 4 THEN Up(Up(Up(Up(S))))
                           ELSE Up(Up(Up(Up(Up(S)))))]
           up == CHOOSE f : f = Body(f)
<1>1. F = Body(F)
  <2>1. ASSUME NEW n \in 0..5 PROVE F[n] = Body(F)[n]
    <3>1. n = 0 \/ n = 1 \/ n = 2 \/ n = 3 \/ n = 4 \/ n = 5
      OBVIOUS
    <3>2. Body(F)[n] = IF n = 0 THEN S ELSE Up(F[n - 1])
      BY DEF Up
    <3> HIDE DEF Body
    <3> QED BY <3>1, <3>2
  <2> QED BY <2>1
<1>2. up = Body(up)
  <2> HIDE DEF F
  <2>1. \E f : f = Body(f)
    BY <1>1
  <2> HIDE DEF Body
  <2> QED BY <2>1
<1>3. Above(S) = up[5]
  BY DEF Above
<1>4. up[0] = S /\ \A n \in 1..5 : up[n] = Up(up[n - 1])
  <2> HIDE DEF up
  <2>1. \A n \in 0..5 : Body(up)[n] = IF n = 0 THEN S ELSE Up(up[n - 1])
    BY DEF Up
  <2> HIDE DEF Body
  <2>2. \A n \in 0..5 : up[n] = IF n = 0 THEN S ELSE Up(up[n - 1])
    BY <1>2, <2>1
  <2> QED BY <2>2
<1>5. /\ up[1] = Up(S) /\ up[2] = Up(up[1]) /\ up[3] = Up(up[2])
      /\ up[4] = Up(up[3]) /\ up[5] = Up(up[4])
  <2> HIDE DEF up
  <2> QED BY <1>4
<1> HIDE DEF up
<1> QED BY <1>3, <1>5

Down(T) == T \cup {g \in Grants : grant[g].parent \in T}

\* What is below a set of grants is a set of grants.
LEMMA BelowIsGrants ==
    ASSUME NEW S \in SUBSET Grants
    PROVE  Below(S) \subseteq Grants
<1> DEFINE Body(f) == [n \in 0..5 |-> IF n = 0 THEN S
                         ELSE f[n - 1] \cup {g \in Grants : grant[g].parent \in f[n - 1]}]
           F == [n \in 0..5 |-> IF n = 0 THEN S
                           ELSE IF n = 1 THEN Down(S)
                           ELSE IF n = 2 THEN Down(Down(S))
                           ELSE IF n = 3 THEN Down(Down(Down(S)))
                           ELSE IF n = 4 THEN Down(Down(Down(Down(S))))
                           ELSE Down(Down(Down(Down(Down(S)))))]
           down == CHOOSE f : f = Body(f)
<1>1. F = Body(F)
  <2>1. ASSUME NEW n \in 0..5 PROVE F[n] = Body(F)[n]
    <3>1. n = 0 \/ n = 1 \/ n = 2 \/ n = 3 \/ n = 4 \/ n = 5
      OBVIOUS
    <3>2. Body(F)[n] = IF n = 0 THEN S ELSE Down(F[n - 1])
      BY DEF Down
    <3> HIDE DEF Body
    <3> QED BY <3>1, <3>2
  <2> QED BY <2>1
<1>2. down = Body(down)
  <2> HIDE DEF F
  <2>1. \E f : f = Body(f)
    BY <1>1
  <2> HIDE DEF Body
  <2> QED BY <2>1
<1>3. Below(S) = down[5]
  BY DEF Below
<1>4. \A T \in SUBSET Grants : Down(T) \in SUBSET Grants
  BY DEF Down
<1>5. \A n \in 0..5 : down[n] = IF n = 0 THEN S ELSE Down(down[n - 1])
  <2> HIDE DEF down
  <2>1. \A n \in 0..5 : Body(down)[n] = IF n = 0 THEN S ELSE Down(down[n - 1])
    BY DEF Down
  <2> HIDE DEF Body
  <2> QED BY <1>2, <2>1
<1>6. /\ down[0] = S /\ down[1] = Down(down[0]) /\ down[2] = Down(down[1])
      /\ down[3] = Down(down[2]) /\ down[4] = Down(down[3]) /\ down[5] = Down(down[4])
  <2> HIDE DEF down
  <2> QED BY <1>5
<1> HIDE DEF down
<1> QED BY <1>3, <1>4, <1>6

\* A set that is closed but for grants of depth n or less.
ClosedTo(T, n) ==
    /\ T \subseteq Grants
    /\ \A g \in T : grant[g].parent # None => grant[g].parent \in T \/ grant[g].depth <= n

\* One step up lowers the depth at which a set may be open.
LEMMA UpCloses ==
    ASSUME TypeOK, DelegationNarrows, NEW T, NEW n \in 0..5, ClosedTo(T, n)
    PROVE  T \subseteq Up(T) /\ ClosedTo(Up(T), n - 1)
<1>1. \A g \in Grants : /\ grant[g].depth \in 0..5
                        /\ grant[g].parent # None =>
                             /\ grant[g].parent \in Grants
                             /\ grant[g].depth = grant[grant[g].parent].depth + 1
  BY DEF TypeOK, GrantRow, DelegationNarrows
<1>2. Up(T) \subseteq Grants
  BY <1>1 DEF Up, ClosedTo
<1>3. ASSUME NEW g \in Up(T), grant[g].parent # None
      PROVE  grant[g].parent \in Up(T) \/ grant[g].depth <= n - 1
  <2>1. CASE g \in T
    BY <1>3, <2>1 DEF Up
  <2>2. CASE g \notin T
    <3>1. PICK c \in T : grant[c].parent = g /\ g # None
      BY <2>2 DEF Up
    <3>2. grant[c].depth <= n
      BY <2>2, <3>1 DEF ClosedTo
    <3> QED BY <1>1, <1>2, <3>1, <3>2 DEF ClosedTo
  <2> QED BY <2>1, <2>2
<1> QED
  BY <1>2, <1>3 DEF Up, ClosedTo

\* What is above S contains S and its members' parents, and nothing but what any
\* such set contains.
AboveIsClosure ==
    \A S \in SUBSET Grants :
        /\ S \subseteq Above(S) /\ Above(S) \subseteq Grants
        /\ ClosedUp(Above(S))
        /\ \A T \in SUBSET Grants : S \subseteq T /\ ClosedUp(T) => Above(S) \subseteq T

LEMMA AboveCloses == TypeOK /\ DelegationNarrows => AboveIsClosure
<1> SUFFICES ASSUME TypeOK, DelegationNarrows, NEW S \in SUBSET Grants
             PROVE  /\ S \subseteq Above(S) /\ Above(S) \subseteq Grants
                    /\ ClosedUp(Above(S))
                    /\ \A T \in SUBSET Grants : S \subseteq T /\ ClosedUp(T) => Above(S) \subseteq T
  BY DEF AboveIsClosure
<1>1. Above(S) = Up(Up(Up(Up(Up(S)))))
  BY AboveUnfolds
<1>2. ClosedTo(S, 5)
  BY DEF ClosedTo, TypeOK, GrantRow
<1>3. S \subseteq Up(S) /\ ClosedTo(Up(S), 4)
  BY <1>2, UpCloses
<1>4. Up(S) \subseteq Up(Up(S)) /\ ClosedTo(Up(Up(S)), 3)
  BY <1>3, UpCloses
<1>5. Up(Up(S)) \subseteq Up(Up(Up(S))) /\ ClosedTo(Up(Up(Up(S))), 2)
  BY <1>4, UpCloses
<1>6. Up(Up(Up(S))) \subseteq Up(Up(Up(Up(S)))) /\ ClosedTo(Up(Up(Up(Up(S)))), 1)
  BY <1>5, UpCloses
<1>7. Up(Up(Up(Up(S)))) \subseteq Above(S) /\ ClosedTo(Above(S), 0)
  BY <1>1, <1>6, UpCloses
<1>8. \A g \in Grants : grant[g].parent # None =>
        grant[g].parent \in Grants /\ grant[grant[g].parent].depth \in 0..5
                                   /\ grant[g].depth = grant[grant[g].parent].depth + 1
  BY DEF TypeOK, GrantRow, DelegationNarrows
<1>9. ClosedUp(Above(S)) /\ Above(S) \subseteq Grants
  BY <1>7, <1>8 DEF ClosedTo, ClosedUp
<1>10. ASSUME NEW T \in SUBSET Grants, S \subseteq T, ClosedUp(T)
       PROVE  Above(S) \subseteq T
  <2>1. \A R : R \subseteq T => Up(R) \subseteq T
    BY <1>10 DEF Up, ClosedUp
  <2> QED BY <1>1, <1>10, <2>1
<1> QED
  BY <1>3, <1>4, <1>5, <1>6, <1>7, <1>9, <1>10

\* The same in the next state.
LEMMA AboveClosesNext == TypeOK' /\ DelegationNarrows' => AboveIsClosure'
  BY AboveCloses, PTL

\* What a step leaves of a stored grant.
KeepsAncestry ==
    \A g \in Stored : /\ g \in Stored'
                      /\ grant'[g].parent = grant[g].parent
                      /\ grant'[g].actor = grant[g].actor
                      /\ grant'[g].depth = grant[g].depth

\* The ancestry of a stored grant never changes, so that it may be read before its
\* rows are locked.
LEMMA AboveStays ==
    ASSUME TypeOK, GrantsAreGrounded, DelegationNarrows, TypeOK', DelegationNarrows', KeepsAncestry,
           NEW g \in Stored
    PROVE  Above({g})' = Above({g}) /\ Above({g}) \subseteq Stored
<1>1. AboveIsClosure /\ AboveIsClosure'
  BY AboveCloses, AboveClosesNext
<1>2. g \in Grants /\ {g} \in SUBSET Grants /\ Stored \in SUBSET Grants
  BY DEF Stored
<1>3. PICK A \in SUBSET Grants : A = Above({g})
  BY <1>1, <1>2 DEF AboveIsClosure
<1>4. PICK B \in SUBSET Grants : B = Above({g})'
  BY <1>1, <1>2 DEF AboveIsClosure
<1>5. g \in A /\ ClosedUp(A)
  BY <1>1, <1>2, <1>3 DEF AboveIsClosure
<1>6. g \in B /\ \A c \in B : grant'[c].parent # None => grant'[c].parent \in B
  BY <1>1, <1>2, <1>4 DEF AboveIsClosure, ClosedUp
<1>7. A \subseteq Stored
  <2>1. ClosedUp(Stored)
    BY DEF ClosedUp, GrantsAreGrounded, Stored
  <2> QED BY <1>1, <1>2, <1>3, <2>1 DEF AboveIsClosure
<1>8. B \subseteq A
  <2>1. ClosedUp(A)'
    BY <1>5, <1>7 DEF ClosedUp, KeepsAncestry
  <2> QED BY <1>1, <1>2, <1>4, <1>5, <2>1 DEF AboveIsClosure
<1>9. A \subseteq B
  <2>1. ClosedUp(B)
    BY <1>6, <1>7, <1>8 DEF ClosedUp, KeepsAncestry
  <2> QED BY <1>1, <1>2, <1>3, <1>6, <2>1 DEF AboveIsClosure
<1> QED
  BY <1>3, <1>4, <1>7, <1>8, <1>9

-----------------------------------------------------------------------------
(* The ledger: what every grant has counted, against the reports and the   *)
(* counts of the grants delegated from it.                                 *)

Under(up, g) == {h \in Grants : up[h] = g}

\* UsageCountsTheSubtree, of counts u, parents up and reports w.
Counted(u, up, w) == \A g \in Grants : u[g] = w[g] + SumFunctionOnSet(u, Under(up, g))

FewUnder(up) == \A g \in Grants : IsFiniteSet(Under(up, g))

\* The parents of L lead from t through all of L, one child under each.
Line(up, L, t) ==
    /\ \A c \in L : up[c] \in Grants => up[c] \in L /\ up[c] # t
    /\ \A g \in L \ {t} : \E c \in L : up[c] = g
    /\ \A c, d \in L : up[c] \in Grants /\ up[c] = up[d] => c = d

OneMore(u, v, L) == \A g \in Grants : v[g] = IF g \in L THEN u[g] + 1 ELSE u[g]

Usages == [h \in Grants |-> grant[h].usage]
Parents == [h \in Grants |-> grant[h].parent]

LEMMA LedgerOfGrants == UsageCountsTheSubtree <=> Counted(Usages, Parents, uses)
<1>1. ASSUME NEW g \in Grants
      PROVE  Under(Parents, g) = {h \in Grants : grant[h].parent = g} /\ Usages[g] = grant[g].usage
  BY DEF Under, Parents, Usages
<1>2. Counted(Usages, Parents, uses) <=>
        \A g \in Grants : grant[g].usage = uses[g] + SumFunctionOnSet(Usages, Under(Parents, g))
  BY <1>1 DEF Counted
<1>3. UsageCountsTheSubtree <=>
        \A g \in Grants : grant[g].usage =
          uses[g] + SumFunctionOnSet(Usages, {h \in Grants : grant[h].parent = g})
  BY DEF UsageCountsTheSubtree, Usages
<1> QED BY <1>1, <1>2, <1>3

\* A report for t, counted along a line L of parents that starts at t, keeps the
\* books: every grant above t has one child in L, whose count grew with its own.
LEMMA ReportKeepsLedger ==
    ASSUME NEW u \in [Grants -> Nat], NEW v \in [Grants -> Nat], NEW up,
           NEW w \in [Grants -> Nat], NEW x \in [Grants -> Nat],
           NEW L \in SUBSET Grants, NEW t \in L,
           FewUnder(up), Line(up, L, t), OneMore(u, v, L), OneMore(w, x, {t}), Counted(u, up, w)
    PROVE  Counted(v, up, x)
<1> USE DEF FewUnder, Line, OneMore
<1> SUFFICES ASSUME NEW g \in Grants
             PROVE  v[g] = x[g] + SumFunctionOnSet(v, Under(up, g))
  BY DEF Counted
<1>1. PICK S : S = Under(up, g)
  OBVIOUS
<1>2. S \subseteq Grants /\ IsFiniteSet(S) /\ u[g] = w[g] + SumFunctionOnSet(u, S)
  BY <1>1 DEF Under, Counted
<1>3. SumFunctionOnSet(u, S) \in Nat
  BY <1>2, SumIsNat
<1>4. CASE g \notin L \/ g = t
  <2>1. \A c \in S : u[c] = v[c]
    BY <1>1, <1>4 DEF Under
  <2>2. SumFunctionOnSet(v, S) = SumFunctionOnSet(u, S)
    BY <1>2, <2>1, SumOfSameTerms
  <2> QED BY <1>1, <1>2, <1>3, <1>4, <2>2
<1>5. CASE g \in L /\ g # t
  <2>1. PICK c \in L : up[c] = g
    BY <1>5
  <2>2. c \in S
    BY <1>1, <2>1 DEF Under
  <2>3. PICK R : R = S \ {c}
    OBVIOUS
  <2>4. IsFiniteSet(R) /\ R \subseteq S
    BY <1>2, <2>3, FS_RemoveElement
  <2>5. \A d \in R : u[d] = v[d]
    BY <1>1, <2>1, <2>3, <1>2 DEF Under
  <2>6. SumFunctionOnSet(v, R) = SumFunctionOnSet(u, R)
    BY <2>4, <2>5, SumOfSameTerms
  <2>7. SumFunctionOnSet(u, R) \in Nat
    BY <1>2, <2>4, SumIsNat
  <2>8. SumFunctionOnSet(u, S) = u[c] + SumFunctionOnSet(u, R)
    BY <1>2, <2>2, <2>3, SumTakesOut
  <2>9. SumFunctionOnSet(v, S) = v[c] + SumFunctionOnSet(v, R)
    BY <1>2, <2>2, <2>3, SumTakesOut
  <2> QED BY <1>1, <1>2, <1>5, <2>2, <2>6, <2>7, <2>8, <2>9
<1> QED BY <1>4, <1>5

\* A grant stored without uses, under another one or under none, keeps the books.
LEMMA StoreKeepsLedger ==
    ASSUME NEW u \in [Grants -> Nat], NEW up, NEW vp, NEW w \in [Grants -> Nat],
           FewUnder(up), NEW c \in Grants, u[c] = 0, up[c] \notin Grants,
           \A g \in Grants \ {c} : vp[g] = up[g],
           Counted(u, up, w)
    PROVE  Counted(u, vp, w)
<1> SUFFICES ASSUME NEW g \in Grants
             PROVE  u[g] = w[g] + SumFunctionOnSet(u, Under(vp, g))
  BY DEF Counted
<1>1. PICK S : S = Under(up, g)
  OBVIOUS
<1>2. S \subseteq Grants /\ IsFiniteSet(S) /\ u[g] = w[g] + SumFunctionOnSet(u, S) /\ c \notin S
  BY <1>1 DEF Under, Counted, FewUnder
<1>3. CASE vp[c] # g
  <2>1. Under(vp, g) = S
    BY <1>1, <1>2, <1>3 DEF Under
  <2> QED BY <1>2, <2>1
<1>4. CASE vp[c] = g
  <2>1. PICK T : T = S \cup {c}
    OBVIOUS
  <2>2. Under(vp, g) = T
    BY <1>1, <1>2, <1>4, <2>1 DEF Under
  <2>3. IsFiniteSet(T) /\ T \subseteq Grants /\ c \in T /\ T \ {c} = S
    BY <1>2, <2>1, FS_AddElement
  <2>4. SumFunctionOnSet(u, T) = u[c] + SumFunctionOnSet(u, S)
    BY <2>3, SumTakesOut
  <2>5. SumFunctionOnSet(u, S) \in Nat
    BY <1>2, SumIsNat
  <2> QED BY <1>2, <2>2, <2>4, <2>5
<1> QED BY <1>3, <1>4

-----------------------------------------------------------------------------
(* What the ancestry of a grant looks like, and what a report adds to it.  *)

\* T is a line of parents that starts at t.
Chain(t, T) ==
    /\ T \subseteq Grants /\ t \in T
    /\ \A g \in T : grant[g].depth <= grant[t].depth
    /\ \A g, h \in T : grant[g].depth = grant[h].depth => g = h
    /\ \A g \in T \ {t} : \E c \in T : grant[c].parent = g

\* One step up continues the line.
LEMMA UpKeepsChain ==
    ASSUME TypeOK, DelegationNarrows, NEW t \in Grants, NEW T, Chain(t, T)
    PROVE  Chain(t, Up(T))
<1>1. \A g \in Grants : /\ grant[g].depth \in 0..5
                        /\ grant[g].parent # None =>
                             /\ grant[g].parent \in Grants
                             /\ grant[g].depth = grant[grant[g].parent].depth + 1
  BY DEF TypeOK, GrantRow, DelegationNarrows
<1>2. ASSUME NEW a \in Up(T), a \notin T
      PROVE  \E c \in T : grant[c].parent = a /\ a \in Grants /\ grant[c].depth = grant[a].depth + 1
  BY <1>1, <1>2 DEF Up, Chain
<1>3. T \subseteq Up(T) /\ Up(T) \subseteq Grants
  BY <1>2 DEF Up, Chain
<1>4. t \in Up(T) /\ T \subseteq Grants
  BY <1>3 DEF Chain
<1>5. \A g \in Up(T) : grant[g].depth <= grant[t].depth
  BY <1>1, <1>2, <1>3, <1>4 DEF Chain
<1>6. \A g \in Up(T) \ {t} : \E c \in Up(T) : grant[c].parent = g
  BY <1>2, <1>3 DEF Chain
<1>7. ASSUME NEW a \in Up(T), NEW b \in T, a \notin T, grant[a].depth = grant[b].depth
      PROVE  a = b
  <2>1. PICK c \in T : grant[c].parent = a /\ grant[c].depth = grant[a].depth + 1
    BY <1>2, <1>7
  <2>2. b # t
    BY <1>1, <1>4, <1>7, <2>1 DEF Chain
  <2>3. PICK d \in T : grant[d].parent = b
    BY <2>2 DEF Chain
  <2>4. grant[d].depth = grant[b].depth + 1
    BY <1>1, <1>4, <2>3, NoneIsNobody
  <2>5. c = d
    BY <1>7, <2>1, <2>4 DEF Chain
  <2> QED BY <2>1, <2>3, <2>5
<1>8. ASSUME NEW a \in Up(T), NEW b \in Up(T), a \notin T, b \notin T,
             grant[a].depth = grant[b].depth
      PROVE  a = b
  <2>1. PICK c \in T : grant[c].parent = a /\ grant[c].depth = grant[a].depth + 1
    BY <1>2, <1>8
  <2>2. PICK d \in T : grant[d].parent = b /\ grant[d].depth = grant[b].depth + 1
    BY <1>2, <1>8
  <2>3. c = d
    BY <1>8, <2>1, <2>2 DEF Chain
  <2> QED BY <2>1, <2>2, <2>3
<1>9. \A g, h \in Up(T) : grant[g].depth = grant[h].depth => g = h
  BY <1>7, <1>8 DEF Chain
<1> QED
  BY <1>3, <1>4, <1>5, <1>6, <1>9 DEF Chain

\* The ancestry of a grant is the line of its parents: every member but the grant
\* itself has exactly one child in it.
LEMMA AncestryIsChain ==
    ASSUME TypeOK, DelegationNarrows, NEW t \in Grants
    PROVE  Chain(t, Above({t}))
<1>1. Chain(t, {t})
  BY DEF Chain, TypeOK, GrantRow
<1>2. Chain(t, Up(Up(Up(Up(Up({t}))))))
  BY <1>1, UpKeepsChain
<1> QED
  BY <1>2, AboveUnfolds

-----------------------------------------------------------------------------
\* The initial state satisfies the inductive invariant.
LEMMA NoGrantRow ==
    /\ NoGrant \in GrantRow
    /\ NoGrant.status = "absent" /\ NoGrant.parent = None /\ NoGrant.max = None /\ NoGrant.usage = 0
  BY DEF NoGrant, NewGrant, GrantRow

LEMMA InitGrantInv == Init => GrantInv
<1> SUFFICES ASSUME Init PROVE GrantInv
  OBVIOUS
<1>1. \A g \in Grants : grant[g] = NoGrant
  BY DEF Init
<1>2. TypeOK
  BY NoGrantRow DEF Init, TypeOK, Request, Idle, Steps
<1>3. Stored = {} /\ GrantsAreGrounded
  BY <1>1, NoGrantRow DEF Init, Stored, GrantsAreGrounded
<1>4. DelegationNarrows /\ BudgetsHold
  BY <1>1, NoGrantRow, NoneIsNobody DEF DelegationNarrows, BudgetsHold
<1>5. RequestsAreGrounded /\ LocksAreExclusive
  BY DEF Init, RequestsAreGrounded, Grounded, LocksAreExclusive, Idle
<1> QED
  BY <1>2, <1>3, <1>4, <1>5 DEF GrantInv

-----------------------------------------------------------------------------
(* What a step must leave true of the rows, and of the requests that take  *)
(* no part in it.                                                          *)

RowsInv == TypeOK /\ GrantsAreGrounded /\ DelegationNarrows /\ BudgetsHold

\* A step of the requests in R keeps the invariant, if it changes no row that
\* another one has locked.
LEMMA StepKeepsInv ==
    ASSUME GrantInv, RowsInv', KeepsAncestry, NEW R \in SUBSET Requests,
           \A q \in Requests \ R : /\ req'[q] = req[q]
                                   /\ \A g \in req[q].locked : grant'[g] = grant[g],
           \A r \in R : Grounded(r)',
           LocksAreExclusive'
    PROVE  GrantInv'
<1> USE DEF GrantInv, RowsInv
<1>1. ASSUME NEW q \in Requests \ R PROVE Grounded(q)'
  <2>1. PICK x \in Request : req[q] = x /\ req'[q] = x
    BY DEF TypeOK
  <2>2. Grounded(q)
    BY DEF RequestsAreGrounded
  <2>3. \A g \in Stored : g \in Stored'
    BY DEF KeepsAncestry
  <2>4. x.wanted \cup x.locked \subseteq Stored
    BY <2>1, <2>2 DEF Grounded
  <2>5. x.step = "delegating" => /\ grant'[x.grant].status = "active"
                                 /\ grant'[x.grant].depth < MaxDepth[grant'[x.grant].actor]
    BY <2>1, <2>2 DEF Grounded
  <2>6. x.step \in {"using", "counting"} => x.wanted \cup x.locked = Above({x.grant})'
    <3>1. x.step \in {"using", "counting"} =>
            x.grant \in Stored /\ x.wanted \cup x.locked = Above({x.grant})
      BY <2>1, <2>2 DEF Grounded
    <3> QED BY <3>1, AboveStays
  <2>7. x.step = "counting" => x.wanted = {} /\ \A g \in x.locked : Authorizes(g)'
    <3>1. x.step = "counting" => x.wanted = {} /\ \A g \in x.locked : Authorizes(g)
      BY <2>1, <2>2 DEF Grounded
    <3> QED BY <2>1, <3>1 DEF Authorizes, Exhausted
  <2> QED BY <2>1, <2>2, <2>3, <2>4, <2>5, <2>6, <2>7 DEF Grounded
<1>2. RequestsAreGrounded'
  BY <1>1 DEF RequestsAreGrounded
<1> QED
  BY <1>2

\* A request that moves on keeps the invariant, if it locks only what is free.
LEMMA MoveKeepsInv ==
    ASSUME GrantInv, NEW r \in Requests, NEW x \in Request, req' = [req EXCEPT ![r] = x],
           UNCHANGED <<agent, grant, held, uses, now>>, Grounded(r)',
           \A g \in x.locked : g \in req[r].locked \/ GrantFree(r, g)
    PROVE  GrantInv'
<1> USE DEF GrantInv
<1>1. /\ req'[r] = x
      /\ \A q \in Requests \ {r} : req'[q] = req[q]
      /\ req' \in [Requests -> Request]
  BY DEF TypeOK
<1>2. RowsInv' /\ KeepsAncestry
  BY <1>1 DEF RowsInv, TypeOK, GrantsAreGrounded, DelegationNarrows, BudgetsHold, KeepsAncestry, Stored
<1>3. LocksAreExclusive'
  <2> SUFFICES ASSUME NEW p \in Requests, NEW q \in Requests, p # q
               PROVE  (req'[p].locked \cap req'[q].locked) = {}
    BY DEF LocksAreExclusive
  <2>1. req[p].locked \cap req[q].locked = {}
    BY DEF LocksAreExclusive
  <2>2. CASE p = r
    BY <1>1, <2>1, <2>2 DEF GrantFree, LocksAreExclusive
  <2>3. CASE q = r
    BY <1>1, <2>1, <2>3 DEF GrantFree, LocksAreExclusive
  <2>4. CASE p # r /\ q # r
    BY <1>1, <2>1, <2>4
  <2> QED BY <2>2, <2>3, <2>4
<1>4. \A q \in Requests \ {r} : /\ req'[q] = req[q]
                                /\ \A g \in req[q].locked : grant'[g] = grant[g]
  BY <1>1
<1>5. PICK R \in SUBSET Requests : R = {r}
  OBVIOUS
<1> HIDE DEF GrantInv
<1> QED
  BY <1>2, <1>3, <1>4, <1>5, StepKeepsInv

\* A request that ends keeps the invariant, if it changed only rows it had locked.
LEMMA FinishKeepsInv ==
    ASSUME GrantInv, NEW r \in Requests, Finish(r), RowsInv', KeepsAncestry,
           \A g \in Stored : grant'[g] = grant[g] \/ g \in req[r].locked
    PROVE  GrantInv'
<1> USE DEF GrantInv
<1>1. /\ req'[r] = Idle
      /\ \A q \in Requests \ {r} : req'[q] = req[q]
  BY DEF Finish, TypeOK
<1>2. LocksAreExclusive'
  BY <1>1 DEF LocksAreExclusive, Idle
<1>3. Grounded(r)'
  BY <1>1 DEF Grounded, Idle
<1>4. ASSUME NEW q \in Requests \ {r}, NEW g \in req[q].locked PROVE grant'[g] = grant[g]
  <2>1. g \in Stored
    BY DEF RequestsAreGrounded, Grounded
  <2>2. g \notin req[r].locked
    BY DEF LocksAreExclusive
  <2> QED BY <2>1, <2>2
<1>5. PICK R \in SUBSET Requests : R = {r}
  OBVIOUS
<1> HIDE DEF GrantInv
<1> QED
  BY <1>1, <1>2, <1>3, <1>4, <1>5, StepKeepsInv

-----------------------------------------------------------------------------
(* The three ways the rows change.                                         *)

\* Grants that end, of the active ones in T, leave the others as they are.
EndSome(T, s) ==
    grant' = [g \in Grants |-> IF g \in T THEN [grant[g] EXCEPT !.status = s] ELSE grant[g]]

LEMMA EndKeepsRows ==
    ASSUME RowsInv, NEW T \in SUBSET Grants, \A g \in T : grant[g].status = "active",
           NEW s \in {"revoked", "expired"}, EndSome(T, s),
           agent' \in [Agents -> {"active", "disabled"}], req' \in [Requests -> Request],
           UNCHANGED <<held, uses, now>>
    PROVE  RowsInv' /\ KeepsAncestry
<1> USE DEF RowsInv
<1>1. ASSUME NEW g \in T
      PROVE  /\ grant'[g] \in GrantRow /\ grant'[g].status = s
             /\ grant'[g].actor = grant[g].actor /\ grant'[g].parent = grant[g].parent
             /\ grant'[g].depth = grant[g].depth /\ grant'[g].max = grant[g].max
             /\ grant'[g].usage = grant[g].usage /\ grant'[g].expires = grant[g].expires
  <2>1. grant[g] \in GrantRow /\ grant'[g] = [grant[g] EXCEPT !.status = s]
    BY DEF EndSome, TypeOK
  <2> QED BY <2>1 DEF GrantRow, Ended
<1>2. \A g \in Grants \ T : grant'[g] = grant[g]
  BY DEF EndSome
<1>3. TypeOK'
  <2>1. \A g \in Grants : grant'[g] \in GrantRow
    BY <1>1, <1>2 DEF TypeOK
  <2>2. grant' \in [Grants -> GrantRow]
    BY <2>1 DEF EndSome
  <2> QED BY <2>2 DEF TypeOK
<1>4. Stored' = Stored
  BY <1>1, <1>2 DEF Stored
<1>5. GrantsAreGrounded' /\ KeepsAncestry
  BY <1>1, <1>2, <1>4 DEF GrantsAreGrounded, KeepsAncestry, Stored
<1>6. \A g \in Grants : /\ grant'[g].parent = grant[g].parent /\ grant'[g].depth = grant[g].depth
                        /\ grant'[g].max = grant[g].max /\ grant'[g].usage = grant[g].usage
                        /\ grant'[g].expires = grant[g].expires
                        /\ grant'[g].actor = grant[g].actor
                        /\ grant'[g].status = grant[g].status \/ grant'[g].status = s
  BY <1>1, <1>2
<1>7. DelegationNarrows'
  BY <1>6 DEF DelegationNarrows
<1>8. BudgetsHold'
  BY <1>6 DEF BudgetsHold
<1> QED
  BY <1>3, <1>5, <1>7, <1>8

\* A new grant is a root within its budget, or a child of an active grant.
LEMMA StoreKeepsRows ==
    ASSUME RowsInv, NEW c \in Grants, grant[c] = NoGrant, NEW row \in GrantRow,
           grant' = [grant EXCEPT ![c] = row],
           row.status = "active", row.usage = 0, row.actor \in Agents,
           row.parent = None => row.max \in Budgets,
           row.parent # None =>
             /\ row.parent \in Stored /\ grant[row.parent].status = "active"
             /\ row.depth = grant[row.parent].depth + 1
             /\ row.depth <= MaxDepth[grant[row.parent].actor]
             /\ row.max = grant[row.parent].max /\ row.expires = grant[row.parent].expires,
           req' \in [Requests -> Request], held' \in {held, held \cup {c}},
           UNCHANGED <<agent, uses, now>>
    PROVE  RowsInv' /\ KeepsAncestry
<1> USE DEF RowsInv
<1>1. PICK p \in Grants \cup {None}, m \in Nat \cup {None} : p = row.parent /\ m = row.max
  BY DEF GrantRow
<1>2. /\ grant'[c] = row
      /\ \A g \in Grants \ {c} : grant'[g] = grant[g]
      /\ grant' \in [Grants -> GrantRow]
  BY DEF TypeOK
<1>3. c \notin Stored /\ Stored' = Stored \cup {c}
  BY <1>2, NoGrantRow DEF Stored
<1>4. TypeOK'
  BY <1>2 DEF TypeOK
<1>5. \A g \in Grants : grant[g].parent # None => grant[g].parent \in Grants \ {c}
  BY <1>3 DEF GrantsAreGrounded, Stored
<1>6. p # c
  BY <1>1, <1>3, NoneIsNobody
<1>7. GrantsAreGrounded' /\ KeepsAncestry
  BY <1>1, <1>2, <1>3 DEF GrantsAreGrounded, KeepsAncestry, Stored
<1>8. DelegationNarrows'
  <2> SUFFICES ASSUME NEW g \in Grants, NEW q \in Grants, grant'[g].parent = q
               PROVE  /\ grant'[g].depth = grant'[q].depth + 1
                      /\ grant'[g].depth <= MaxDepth[grant'[q].actor]
                      /\ grant'[g].expires <= grant'[q].expires
                      /\ grant'[g].usage <= grant'[q].usage
    BY DEF DelegationNarrows
  <2>1. q # None
    BY NoneIsNobody
  <2>2. CASE g = c
    <3>1. q = p /\ grant'[q] = grant[q] /\ grant[q] \in GrantRow
      BY <1>1, <1>2, <1>6, <2>2 DEF TypeOK
    <3> QED BY <1>1, <1>2, <2>1, <2>2, <3>1 DEF GrantRow
  <2>3. CASE g # c
    <3>1. grant'[g] = grant[g] /\ grant'[q] = grant[q]
      BY <1>2, <1>5, <2>1, <2>3
    <3> QED BY <3>1 DEF DelegationNarrows
  <2> QED BY <2>2, <2>3
<1>9. m # None => m \in Nat /\ 0 < m
  <2>1. CASE p = None
    BY <1>1, <2>1, RegistrationsAreSane
  <2>2. CASE p # None
    <3>1. grant[p] \in GrantRow /\ (m # None => grant[p].usage < m)
      BY <1>1, <2>2 DEF BudgetsHold, Stored, TypeOK
    <3> QED BY <3>1 DEF GrantRow
  <2> QED BY <2>1, <2>2
<1>10. BudgetsHold'
  BY <1>1, <1>2, <1>9 DEF BudgetsHold
<1> QED
  BY <1>4, <1>7, <1>8, <1>10

\* A report counts in the whole ancestry of its grant, every member of which has
\* budget left.
LEMMA CountKeepsRows ==
    ASSUME GrantInv, NEW r \in Requests, CountUsage(r)
    PROVE  RowsInv' /\ KeepsAncestry
<1> USE DEF GrantInv, RowsInv
<1>1. PICK L \in SUBSET Grants : L = req[r].locked
  BY DEF TypeOK, Request
<1>2. /\ L \subseteq Stored /\ \A g \in L : Authorizes(g)
      /\ req[r].grant \in Grants /\ L = Above({req[r].grant})
  BY <1>1 DEF CountUsage, RequestsAreGrounded, Grounded, Stored
<1>3. ClosedUp(L)
  BY <1>2, AboveCloses DEF AboveIsClosure
<1>4. grant' = [g \in Grants |-> IF g \in L THEN Used(grant[g]) ELSE grant[g]]
  BY <1>1 DEF CountUsage
<1>5. ASSUME NEW g \in L
      PROVE  /\ grant'[g] \in GrantRow /\ grant'[g].status \in {"active", "completed"}
             /\ grant'[g].actor = grant[g].actor /\ grant'[g].parent = grant[g].parent
             /\ grant'[g].depth = grant[g].depth /\ grant'[g].max = grant[g].max
             /\ grant'[g].usage = grant[g].usage + 1 /\ grant'[g].expires = grant[g].expires
             /\ grant[g].max # None =>
                  /\ grant[g].usage < grant[g].max
                  /\ grant'[g].status = "completed" <=> grant[g].usage + 1 = grant[g].max
             /\ grant[g].max = None => grant'[g].status = "active"
  <2>1. PICK row \in GrantRow : row = grant[g]
    BY DEF TypeOK
  <2>2. row.status = "active" /\ (row.max # None => row.usage < row.max)
    BY <1>2, <2>1 DEF Authorizes, Exhausted, GrantRow
  <2>3. PICK s \in {"active", "completed"} :
          /\ s = IF row.max # None /\ row.usage + 1 >= row.max THEN "completed" ELSE row.status
          /\ row.max # None => (s = "completed" <=> row.usage + 1 = row.max)
          /\ row.max = None => s = "active"
    BY <2>2 DEF GrantRow
  <2>4. grant'[g] = [row EXCEPT !.usage = row.usage + 1, !.status = s]
    BY <1>4, <2>1, <2>3 DEF Used
  <2>5. row.usage + 1 \in Nat
    BY DEF GrantRow
  <2>6. grant'[g] \in GrantRow
    BY <2>4, <2>5 DEF GrantRow, Ended
  <2>7. /\ grant'[g].status = s /\ grant'[g].usage = row.usage + 1
        /\ grant'[g].actor = row.actor /\ grant'[g].parent = row.parent
        /\ grant'[g].depth = row.depth /\ grant'[g].max = row.max /\ grant'[g].expires = row.expires
    BY <2>4 DEF GrantRow
  <2> QED BY <2>1, <2>2, <2>3, <2>6, <2>7
<1>6. \A g \in Grants \ L : grant'[g] = grant[g]
  BY <1>4
<1>7. TypeOK'
  <2>1. \A g \in Grants : grant'[g] \in GrantRow
    BY <1>5, <1>6 DEF TypeOK
  <2>2. grant' \in [Grants -> GrantRow]
    BY <1>4, <2>1
  <2>3. req' \in [Requests -> Request]
    BY DEF CountUsage, Finish, TypeOK, Request, Idle, Steps
  <2>4. uses' \in [Grants -> Nat] /\ UNCHANGED <<agent, held, now>>
    BY <1>2 DEF CountUsage, TypeOK
  <2> QED BY <2>2, <2>3, <2>4 DEF TypeOK
<1>8. Stored' = Stored
  <2>1. \A g \in Grants : grant'[g].status = "absent" <=> grant[g].status = "absent"
    BY <1>2, <1>5, <1>6 DEF Stored
  <2> QED BY <2>1 DEF Stored
<1>9. \A g \in Grants : /\ grant'[g].parent = grant[g].parent /\ grant'[g].depth = grant[g].depth
                        /\ grant'[g].actor = grant[g].actor /\ grant'[g].expires = grant[g].expires
  BY <1>5, <1>6
<1>10. GrantsAreGrounded' /\ KeepsAncestry
  <2>1. \A g \in Grants : g \notin Stored => grant'[g] = grant[g]
    BY <1>2, <1>6
  <2>2. held' = held
    BY DEF CountUsage
  <2> QED BY <1>8, <1>9, <2>1, <2>2 DEF GrantsAreGrounded, KeepsAncestry, Stored
<1>11. DelegationNarrows'
  <2> SUFFICES ASSUME NEW g \in Grants, NEW q \in Grants, grant'[g].parent = q
               PROVE  /\ grant'[g].depth = grant'[q].depth + 1
                      /\ grant'[g].depth <= MaxDepth[grant'[q].actor]
                      /\ grant'[g].expires <= grant'[q].expires
                      /\ grant'[g].usage <= grant'[q].usage
    BY DEF DelegationNarrows
  <2>1. grant[g].parent = q /\ q # None
    BY <1>9, NoneIsNobody
  <2>2. grant[g].usage \in Nat /\ grant[q].usage \in Nat /\ grant[g].usage <= grant[q].usage
    BY <2>1 DEF TypeOK, GrantRow, DelegationNarrows
  <2>3. g \in L => q \in L
    BY <1>3, <2>1 DEF ClosedUp
  <2>4. grant'[g].usage <= grant'[q].usage
    BY <1>5, <1>6, <2>2, <2>3
  <2> QED BY <1>9, <2>1, <2>4 DEF DelegationNarrows
<1>12. BudgetsHold'
  <2> SUFFICES ASSUME NEW g \in Grants, grant'[g].max # None
               PROVE  /\ grant'[g].usage <= grant'[g].max
                      /\ grant'[g].status = "active" => grant'[g].usage < grant'[g].max
                      /\ grant'[g].status = "completed" => grant'[g].usage = grant'[g].max
    BY DEF BudgetsHold
  <2>1. CASE g \in L
    <3>1. grant[g].usage \in Nat /\ (grant[g].max # None => grant[g].max \in Nat)
      BY DEF TypeOK, GrantRow
    <3> QED BY <1>5, <2>1, <3>1
  <2>2. CASE g \notin L
    BY <1>6, <2>2 DEF BudgetsHold
  <2> QED BY <2>1, <2>2
<1> QED
  BY <1>7, <1>10, <1>11, <1>12

-----------------------------------------------------------------------------
(* The steps of a request.                                                 *)

\* A request arrives without locks, and names what is there.
LEMMA StartKeepsInv ==
    ASSUME GrantInv, NEW r \in Requests,
           NEW s \in {"approving", "exchanging", "using", "revoking", "killing"},
           NEW a \in Agents \cup {None}, NEW g \in Grants \cup {None}, NEW W \in SUBSET Stored,
           Start(r, s, a, g, W), UNCHANGED <<agent, grant, held, uses, now>>,
           s \in {"approving", "exchanging", "killing"} => a \in Agents,
           s \in {"exchanging", "using"} => g \in Stored,
           s = "using" => W = Above({g})
    PROVE  GrantInv'
<1>1. PICK x \in Request :
        /\ req' = [req EXCEPT ![r] = x] /\ req'[r] = x
        /\ x.step = s /\ x.agent = a /\ x.grant = g /\ x.wanted = W /\ x.locked = {}
  <2> DEFINE w == [step |-> s, agent |-> a, grant |-> g, wanted |-> W, locked |-> {}]
  <2>1. W \in SUBSET Grants
    BY DEF Stored
  <2>2. w \in Request /\ w.step = s /\ w.agent = a /\ w.grant = g /\ w.wanted = W /\ w.locked = {}
    BY <2>1 DEF Request, Steps
  <2>3. req' = [req EXCEPT ![r] = w]
    BY DEF Start
  <2> HIDE DEF w
  <2> QED BY <2>2, <2>3 DEF GrantInv, TypeOK
<1>2. Stored' = Stored /\ Above({g})' = Above({g})
  BY DEF Stored, Above
<1>3. Grounded(r)'
  BY <1>1, <1>2 DEF Grounded
<1> QED
  BY <1>1, <1>3, MoveKeepsInv

LEMMA ArriveKeepsInv ==
    ASSUME GrantInv, NEW r \in Requests, Arrive(r)
    PROVE  GrantInv'
<1> USE DEF GrantInv, rows
<1>0. {} \in SUBSET Stored
  OBVIOUS
<1>1. ASSUME NEW a \in Agents, ReadAgent(r, a) PROVE GrantInv'
  <2> HIDE DEF GrantInv
  <2> QED BY <1>0, <1>1, StartKeepsInv DEF ReadAgent
<1>2. ASSUME NEW a \in Agents, BeginKill(r, a) PROVE GrantInv'
  <2> HIDE DEF GrantInv
  <2> QED BY <1>0, <1>2, StartKeepsInv DEF BeginKill
<1>3. ASSUME NEW g \in Grants, ReportUsage(r, g) PROVE GrantInv'
  <2>1. g \in Stored
    BY <1>3 DEF ReportUsage, Stored
  <2>2. PICK W \in SUBSET Stored : W = Above({g})
    <3>1. ClosedUp(Stored) /\ Stored \in SUBSET Grants
      BY DEF ClosedUp, GrantsAreGrounded, Stored
    <3>2. Above({g}) \subseteq Stored
      BY <2>1, <3>1, AboveCloses DEF AboveIsClosure
    <3> QED BY <3>2
  <2>3. Start(r, "using", None, g, W) /\ UNCHANGED <<agent, grant, held, uses, now>>
    BY <1>3, <2>2 DEF ReportUsage
  <2> HIDE DEF GrantInv
  <2> QED BY <2>1, <2>2, <2>3, StartKeepsInv
<1>4. ASSUME NEW g \in Grants, BeginRevoke(r, g) PROVE GrantInv'
  <2>1. PICK W \in SUBSET Stored : W = Active(Below({g}))
    <3>1. Below({g}) \subseteq Grants
      BY BelowIsGrants
    <3>2. Active(Below({g})) \subseteq Stored
      BY <3>1 DEF Active, Stored
    <3> QED BY <3>2
  <2>2. Start(r, "revoking", None, g, W) /\ UNCHANGED <<agent, grant, held, uses, now>>
    BY <1>4, <2>1 DEF BeginRevoke
  <2> HIDE DEF GrantInv
  <2> QED BY <2>2, StartKeepsInv
<1>5. ASSUME NEW g \in Grants, NEW b \in Agents, PresentToken(r, g, b) PROVE GrantInv'
  <2>1. g \in Stored
    BY <1>5 DEF PresentToken, GrantsAreGrounded
  <2> HIDE DEF GrantInv
  <2> QED BY <1>0, <1>5, <2>1, StartKeepsInv DEF PresentToken
<1> QED
  BY <1>1, <1>2, <1>3, <1>4, <1>5 DEF Arrive

\* Taking a lock on a wanted row that is free.
LEMMA LockKeepsInv ==
    ASSUME GrantInv, NEW r \in Requests, NEW g \in Grants, g \in req[r].wanted, GrantFree(r, g),
           req[r].step \in {"using", "revoking", "sweeping"},
           req' = [req EXCEPT ![r].wanted = @ \ {g}, ![r].locked = @ \cup {g}],
           UNCHANGED <<agent, grant, held, uses, now>>
    PROVE  GrantInv'
<1>1. PICK y \in Request : y = req[r]
  BY DEF GrantInv, TypeOK
<1>2. PICK x \in Request :
        /\ req' = [req EXCEPT ![r] = x] /\ req'[r] = x
        /\ x.step = y.step /\ x.agent = y.agent /\ x.grant = y.grant
        /\ x.wanted = y.wanted \ {g} /\ x.locked = y.locked \cup {g}
  <2> DEFINE w == [y EXCEPT !.wanted = y.wanted \ {g}, !.locked = y.locked \cup {g}]
  <2>1. y.wanted \ {g} \in SUBSET Grants /\ y.locked \cup {g} \in SUBSET Grants
    BY DEF Request
  <2>2. /\ w \in Request /\ w.step = y.step /\ w.agent = y.agent /\ w.grant = y.grant
        /\ w.wanted = y.wanted \ {g} /\ w.locked = y.locked \cup {g}
    BY <2>1 DEF Request
  <2>3. req' = [req EXCEPT ![r] = w]
    <3> DEFINE v == [y EXCEPT !.wanted = y.wanted \ {g}]
               mid == [req EXCEPT ![r] = v]
    <3>1. req' = [mid EXCEPT ![r] = [mid[r] EXCEPT !.locked = mid[r].locked \cup {g}]]
      BY <1>1
    <3>2. mid[r] = v /\ v.locked = y.locked
      BY DEF GrantInv, TypeOK, Request
    <3> QED BY <3>1, <3>2
  <2> HIDE DEF w
  <2> QED BY <2>2, <2>3 DEF GrantInv, TypeOK
<1>3. Stored' = Stored /\ Above({y.grant})' = Above({y.grant})
  BY DEF Stored, Above
<1>4. Grounded(r)
  BY DEF GrantInv, RequestsAreGrounded
<1>5. x.wanted \cup x.locked = y.wanted \cup y.locked
  BY <1>1, <1>2
<1>6. Grounded(r)'
  BY <1>1, <1>2, <1>3, <1>4, <1>5 DEF Grounded
<1>7. \A h \in x.locked : h \in req[r].locked \/ GrantFree(r, h)
  BY <1>1, <1>2
<1> QED
  BY <1>2, <1>6, <1>7, MoveKeepsInv

\* Going on with what is locked.
LEMMA GotoKeepsInv ==
    ASSUME GrantInv, NEW r \in Requests, NEW s \in {"delegating", "counting"}, Goto(r, s),
           UNCHANGED <<agent, grant, held, uses, now>>,
           s = "delegating" => /\ req[r].step = "examining"
                               /\ Delegable(req[r].grant),
           s = "counting" => /\ req[r].step = "using" /\ req[r].wanted = {}
                             /\ \A g \in req[r].locked : Usable(g)
    PROVE  GrantInv'
<1>1. PICK y \in Request : y = req[r]
  BY DEF GrantInv, TypeOK
<1>2. PICK x \in Request :
        /\ req' = [req EXCEPT ![r] = x] /\ req'[r] = x
        /\ x.step = s /\ x.agent = y.agent /\ x.grant = y.grant
        /\ x.wanted = y.wanted /\ x.locked = y.locked
  <2> DEFINE w == [y EXCEPT !.step = s]
  <2>1. /\ w \in Request /\ w.step = s /\ w.agent = y.agent /\ w.grant = y.grant
        /\ w.wanted = y.wanted /\ w.locked = y.locked
    BY DEF Request, Steps
  <2>2. req' = [req EXCEPT ![r] = w]
    BY <1>1 DEF Goto
  <2> HIDE DEF w
  <2> QED BY <2>1, <2>2 DEF GrantInv, TypeOK
<1>3. Stored' = Stored /\ Above({y.grant})' = Above({y.grant})
  BY DEF Stored, Above
<1>4. Grounded(r)
  BY DEF GrantInv, RequestsAreGrounded
<1>5. s = "delegating" => /\ grant'[y.grant].status = "active"
                          /\ grant'[y.grant].depth < MaxDepth[grant'[y.grant].actor]
  BY <1>1 DEF Delegable
<1>6. s = "counting" => x.wanted = {} /\ \A g \in x.locked : Authorizes(g)'
  BY <1>1, <1>2 DEF Usable, Authorizes, Exhausted
<1>7. Grounded(r)'
  BY <1>1, <1>2, <1>3, <1>4, <1>5, <1>6 DEF Grounded
<1> QED
  BY <1>1, <1>2, <1>7, MoveKeepsInv

\* Ending without having changed a row.
LEMMA QuitKeepsInv ==
    ASSUME GrantInv, NEW r \in Requests, Finish(r), UNCHANGED <<agent, grant, held, uses, now>>
    PROVE  GrantInv'
<1>1. Idle \in Request /\ Idle.locked = {} /\ Idle.wanted = {} /\ Idle.step = "idle"
  BY DEF Idle, Request, Steps
<1>2. req' = [req EXCEPT ![r] = Idle] /\ req'[r] = Idle
  BY DEF Finish, GrantInv, TypeOK
<1>3. Grounded(r)'
  BY <1>1, <1>2 DEF Grounded
<1> QED
  BY <1>1, <1>2, <1>3, MoveKeepsInv

\* A revocation ends active grants it holds.
LEMMA RevokeKeepsInv ==
    ASSUME GrantInv, NEW r \in Requests, grant' = Revoked(req[r].locked), Finish(r),
           agent' \in [Agents -> {"active", "disabled"}], UNCHANGED <<held, uses, now>>
    PROVE  GrantInv'
<1>1. PICK T \in SUBSET Grants : T = Active(req[r].locked)
  BY DEF GrantInv, TypeOK, Request, Active
<1>2. EndSome(T, "revoked")
  BY <1>1 DEF EndSome, Revoked
<1>3. req' \in [Requests -> Request]
  BY DEF Finish, GrantInv, TypeOK, Request, Idle, Steps
<1>4. RowsInv
  BY DEF GrantInv, RowsInv
<1>5. \A g \in T : grant[g].status = "active" /\ g \in req[r].locked
  BY <1>1 DEF Active
<1>6. RowsInv' /\ KeepsAncestry
  BY <1>1, <1>2, <1>3, <1>4, <1>5, EndKeepsRows
<1>7. \A g \in Stored : grant'[g] = grant[g] \/ g \in req[r].locked
  BY <1>2, <1>5 DEF EndSome, Stored
<1> QED
  BY <1>6, <1>7, FinishKeepsInv

\* A grant stored in an unused row touches nobody's.
LEMMA StoreKeepsInv ==
    ASSUME GrantInv, NEW r \in Requests, NEW c \in Grants, grant[c] = NoGrant, Finish(r),
           \A g \in Grants \ {c} : grant'[g] = grant[g], RowsInv', KeepsAncestry
    PROVE  GrantInv'
<1>1. c \notin Stored
  BY NoGrantRow DEF Stored
<1>2. \A g \in Stored : grant'[g] = grant[g]
  BY <1>1 DEF Stored
<1> QED
  BY <1>2, FinishKeepsInv

LEMMA ProceedKeepsInv ==
    ASSUME GrantInv, NEW r \in Requests, Proceed(r)
    PROVE  GrantInv'
<1> USE DEF rows
<1>1. /\ Grounded(r) /\ RowsInv /\ req[r] \in Request
      /\ req[r].locked \in SUBSET Grants /\ req[r].wanted \in SUBSET Grants
  BY DEF GrantInv, RowsInv, RequestsAreGrounded, TypeOK, Request
<1>2. ASSUME NEW g \in Grants, NEW max \in Budgets, NEW life \in Lifetimes,
             StoreGrant(r, g, max, life)
      PROVE  GrantInv'
  <2>1. PICK a \in Agents : a = req[r].agent
    BY <1>1, <1>2 DEF StoreGrant, Grounded
  <2>2. PICK e \in Nat : e = now + life
    BY RegistrationsAreSane DEF GrantInv, TypeOK
  <2>3. max \in Nat \cup {None}
    BY RegistrationsAreSane
  <2>4. PICK row \in GrantRow :
          /\ row = NewGrant(a, None, 0, max, e)
          /\ row.status = "active" /\ row.actor = a /\ row.parent = None
          /\ row.depth = 0 /\ row.max = max /\ row.usage = 0 /\ row.expires = e
    <3> DEFINE w == NewGrant(a, None, 0, max, e)
    <3>1. /\ w \in GrantRow /\ w.status = "active" /\ w.actor = a /\ w.parent = None
          /\ w.depth = 0 /\ w.max = max /\ w.usage = 0 /\ w.expires = e
      BY <2>3 DEF NewGrant, GrantRow
    <3> HIDE DEF w
    <3> QED BY <3>1 DEF w
  <2>5. /\ grant[g] = NoGrant
        /\ grant' = [grant EXCEPT ![g] = row]
        /\ Finish(r) /\ UNCHANGED <<agent, held, uses, now>>
        /\ req' \in [Requests -> Request]
    <3>1. Finish(r) /\ grant' = [grant EXCEPT ![g] = row]
      BY <1>2, <2>1, <2>2, <2>4 DEF StoreGrant
    <3>2. req' \in [Requests -> Request]
      BY <3>1 DEF Finish, GrantInv, TypeOK, Request, Idle, Steps
    <3> QED BY <1>2, <3>1, <3>2 DEF StoreGrant
  <2>6. RowsInv' /\ KeepsAncestry
    BY <1>1, <2>4, <2>5, StoreKeepsRows
  <2>7. \A h \in Grants \ {g} : grant'[h] = grant[h]
    BY <2>5 DEF GrantInv, TypeOK
  <2> QED BY <2>5, <2>6, <2>7, StoreKeepsInv
<1>3. CASE LockParent(r)
  <2>1. PICK g \in Stored : g = req[r].grant /\ g \in Grants
    BY <1>1, <1>3 DEF LockParent, Grounded, Stored
  <2>2. PICK x \in Request :
          /\ req' = [req EXCEPT ![r] = x] /\ req'[r] = x
          /\ x.step = "examining" /\ x.agent = req[r].agent /\ x.grant = g
          /\ x.wanted = req[r].wanted /\ x.locked = {g}
    <3> DEFINE w == [req[r] EXCEPT !.step = "examining", !.locked = {g}]
    <3>1. /\ w \in Request /\ w.step = "examining" /\ w.agent = req[r].agent /\ w.grant = g
          /\ w.wanted = req[r].wanted /\ w.locked = {g}
      BY <1>1, <2>1 DEF Request, Steps
    <3>2. req' = [req EXCEPT ![r] = w]
      BY <1>3, <2>1 DEF LockParent
    <3> HIDE DEF w
    <3> QED BY <3>1, <3>2 DEF GrantInv, TypeOK
  <2>3. Stored' = Stored
    BY <1>3 DEF LockParent, Stored
  <2>4. Grounded(r)'
    BY <1>1, <1>3, <2>1, <2>2, <2>3 DEF Grounded, LockParent
  <2>5. \A h \in x.locked : GrantFree(r, h)
    BY <1>3, <2>1, <2>2 DEF LockParent
  <2>6. UNCHANGED <<agent, grant, held, uses, now>>
    BY <1>3 DEF LockParent
  <2> QED BY <2>2, <2>4, <2>5, <2>6, MoveKeepsInv
<1>4. CASE AcceptParent(r)
  BY <1>4, GotoKeepsInv DEF AcceptParent
<1>5. CASE RefuseExchange(r) \/ RefuseUsage(r)
  BY <1>5, QuitKeepsInv DEF RefuseExchange, RefuseUsage
<1>6. ASSUME NEW c \in Grants, StoreChild(r, c) PROVE GrantInv'
  <2>1. PICK p \in Grants : /\ p = req[r].grant /\ p \in Stored /\ grant[p].status = "active"
                            /\ grant[p].depth < MaxDepth[grant[p].actor]
                            /\ grant[p] \in GrantRow /\ grant[p].actor \in Agents
    BY <1>1, <1>6 DEF StoreChild, Grounded, Stored, GrantInv, TypeOK, GrantsAreGrounded
  <2>2. PICK a \in Agents : a = req[r].agent
    BY <1>1, <1>6 DEF StoreChild, Grounded
  <2>3. PICK d \in 0..5 : d = grant[p].depth + 1 /\ d <= MaxDepth[grant[p].actor]
    <3>1. grant[p].depth \in 0..5 /\ MaxDepth[grant[p].actor] \in 0..5
      BY <2>1, RegistrationsAreSane DEF GrantRow
    <3> QED BY <2>1, <3>1
  <2>4. PICK m \in Nat \cup {None} : m = grant[p].max
    BY <2>1 DEF GrantRow
  <2>5. PICK e \in Nat : e = grant[p].expires
    BY <2>1 DEF GrantRow
  <2>6. PICK row \in GrantRow :
          /\ row = NewGrant(a, p, d, m, e)
          /\ row.status = "active" /\ row.actor = a /\ row.parent = p
          /\ row.depth = d /\ row.max = m /\ row.usage = 0 /\ row.expires = e
    <3> DEFINE w == NewGrant(a, p, d, m, e)
    <3>1. /\ w \in GrantRow /\ w.status = "active" /\ w.actor = a /\ w.parent = p
          /\ w.depth = d /\ w.max = m /\ w.usage = 0 /\ w.expires = e
      BY DEF NewGrant, GrantRow
    <3> HIDE DEF w
    <3> QED BY <3>1 DEF w
  <2>7. /\ grant[c] = NoGrant
        /\ grant' = [grant EXCEPT ![c] = row]
        /\ Finish(r) /\ held' \in {held, held \cup {c}} /\ UNCHANGED <<agent, uses, now>>
        /\ req' \in [Requests -> Request]
    <3>1. Finish(r) /\ grant' = [grant EXCEPT ![c] = row]
      BY <1>6, <2>1, <2>2, <2>3, <2>4, <2>5, <2>6 DEF StoreChild
    <3>2. req' \in [Requests -> Request]
      BY <3>1 DEF Finish, GrantInv, TypeOK, Request, Idle, Steps
    <3> QED BY <1>6, <3>1, <3>2 DEF StoreChild
  <2>8. p # None
    BY NoneIsNobody
  <2>9. RowsInv' /\ KeepsAncestry
    <3>1. row.actor \in Agents /\ (row.parent = None => row.max \in Budgets)
      BY <2>6, <2>8
    <3>2. row.parent # None =>
            /\ row.parent \in Stored /\ grant[row.parent].status = "active"
            /\ row.depth = grant[row.parent].depth + 1
            /\ row.depth <= MaxDepth[grant[row.parent].actor]
            /\ row.max = grant[row.parent].max /\ row.expires = grant[row.parent].expires
      BY <2>1, <2>3, <2>4, <2>5, <2>6
    <3>3. held' \in {held, held \cup {c}} /\ UNCHANGED <<agent, uses, now>>
      BY <2>7
    <3>4. row.status = "active" /\ row.usage = 0 /\ RowsInv /\ grant[c] = NoGrant
      BY <1>1, <2>6, <2>7
    <3> HIDE DEF rows
    <3> QED BY <2>7, <3>1, <3>2, <3>3, <3>4, StoreKeepsRows
  <2>10. \A h \in Grants \ {c} : grant'[h] = grant[h]
    BY <2>7 DEF GrantInv, TypeOK
  <2> QED BY <2>7, <2>9, <2>10, StoreKeepsInv
<1>7. ASSUME NEW g \in Grants, LockLineage(r, g) PROVE GrantInv'
  BY <1>7, LockKeepsInv DEF LockLineage
<1>8. ASSUME NEW g \in Grants, LockAffected(r, g) PROVE GrantInv'
  BY <1>8, LockKeepsInv DEF LockAffected
<1>9. CASE AcceptUsage(r)
  BY <1>9, GotoKeepsInv DEF AcceptUsage
<1>10. CASE CountUsage(r)
  <2>1. RowsInv' /\ KeepsAncestry
    BY <1>10, CountKeepsRows
  <2>2. \A g \in Stored : grant'[g] = grant[g] \/ g \in req[r].locked
    BY <1>10 DEF CountUsage, Stored
  <2> QED BY <1>10, <2>1, <2>2, FinishKeepsInv DEF CountUsage
<1>11. CASE BeginSweep(r)
  <2>1. PICK W \in SUBSET Stored :
          W = Active(Below({g \in Grants : grant[g].actor = req[r].agent}))
    <3> DEFINE S == {g \in Grants : grant[g].actor = req[r].agent}
    <3>1. S \in SUBSET Grants
      OBVIOUS
    <3> HIDE DEF S
    <3>2. Active(Below(S)) \subseteq Stored
      BY <3>1, BelowIsGrants DEF Active, Stored
    <3> QED BY <3>2 DEF S
  <2>2. PICK x \in Request :
          /\ req' = [req EXCEPT ![r] = x] /\ req'[r] = x
          /\ x.step = "sweeping" /\ x.agent = req[r].agent /\ x.wanted = W
          /\ x.locked = req[r].locked
    <3> DEFINE w == [req[r] EXCEPT !.step = "sweeping", !.wanted = W]
    <3>1. W \in SUBSET Grants
      BY DEF Stored
    <3>2. /\ w \in Request /\ w.step = "sweeping" /\ w.agent = req[r].agent /\ w.wanted = W
          /\ w.locked = req[r].locked
      BY <1>1, <3>1 DEF Request, Steps
    <3>3. req' = [req EXCEPT ![r] = w]
      BY <1>11, <2>1 DEF BeginSweep
    <3> HIDE DEF w
    <3> QED BY <3>2, <3>3 DEF GrantInv, TypeOK
  <2>3. Stored' = Stored
    BY <1>11 DEF BeginSweep, Stored
  <2>4. Grounded(r)'
    BY <1>1, <1>11, <2>2, <2>3 DEF Grounded, BeginSweep
  <2> QED BY <1>11, <2>2, <2>4, MoveKeepsInv DEF BeginSweep
<1>12. CASE CommitRevoke(r)
  BY <1>12, RevokeKeepsInv DEF CommitRevoke, GrantInv, TypeOK
<1>13. CASE CommitKill(r)
  <2>1. agent' \in [Agents -> {"active", "disabled"}]
    BY <1>13 DEF CommitKill, GrantInv, TypeOK
  <2> QED BY <1>13, <2>1, RevokeKeepsInv DEF CommitKill
<1> QED
  BY <1>2, <1>3, <1>4, <1>5, <1>6, <1>7, <1>8, <1>9, <1>10, <1>11, <1>12, <1>13 DEF Proceed

\* What every step does to the rows and to the uses: nothing; it ends active grants;
\* it counts a report; or it stores one grant in an unused row.
Quiet == UNCHANGED <<grant, uses>>

Ends == \E T \in SUBSET Grants, s \in {"revoked", "expired"} :
          /\ \A g \in T : grant[g].status = "active"
          /\ EndSome(T, s) /\ UNCHANGED uses

Counts == \E r \in Requests : CountUsage(r)

Stores == \E r \in Requests, g \in Grants :
            /\ \/ \E max \in Budgets, life \in Lifetimes : StoreGrant(r, g, max, life)
               \/ StoreChild(r, g)

LEMMA NextTouchesRows ==
    ASSUME GrantInv, Next
    PROVE  Quiet \/ Ends \/ Counts \/ Stores
<1> USE DEF rows
<1>1. ASSUME NEW r \in Requests, Arrive(r) PROVE Quiet
  BY <1>1 DEF Arrive, ReadAgent, BeginKill, ReportUsage, BeginRevoke, PresentToken, Quiet
<1>2. ASSUME NEW r \in Requests, CommitRevoke(r) \/ CommitKill(r) PROVE Ends
  <2>1. PICK T \in SUBSET Grants : T = Active(req[r].locked)
    BY DEF GrantInv, TypeOK, Request, Active
  <2>2. \A g \in T : grant[g].status = "active"
    BY <2>1 DEF Active
  <2>3. EndSome(T, "revoked") /\ UNCHANGED uses
    BY <1>2, <2>1 DEF EndSome, Revoked, CommitRevoke, CommitKill
  <2> QED BY <2>2, <2>3 DEF Ends
<1>3. ASSUME NEW r \in Requests, Proceed(r) PROVE Quiet \/ Ends \/ Counts \/ Stores
  <2>1. CASE CommitRevoke(r) \/ CommitKill(r)
    BY <1>2, <2>1
  <2>2. CASE CountUsage(r)
    BY <2>2 DEF Counts
  <2>3. CASE \E g \in Grants, max \in Budgets, life \in Lifetimes : StoreGrant(r, g, max, life)
    BY <2>3 DEF Stores
  <2>4. CASE \E c \in Grants : StoreChild(r, c)
    BY <2>4 DEF Stores
  <2>5. CASE LockParent(r) \/ AcceptParent(r) \/ RefuseExchange(r) \/ AcceptUsage(r)
             \/ RefuseUsage(r) \/ BeginSweep(r)
    BY <2>5 DEF LockParent, AcceptParent, RefuseExchange, AcceptUsage, RefuseUsage, BeginSweep, Quiet
  <2>6. CASE \E g \in Grants : LockLineage(r, g) \/ LockAffected(r, g)
    BY <2>6 DEF LockLineage, LockAffected, Quiet
  <2> QED BY <1>3, <2>1, <2>2, <2>3, <2>4, <2>5, <2>6 DEF Proceed
<1>4. CASE ExpireGrants
  <2>1. PICK T \in SUBSET Grants : T = Overdue
    BY DEF Overdue
  <2>2. \A g \in T : grant[g].status = "active"
    BY <2>1 DEF Overdue
  <2>3. EndSome(T, "expired") /\ UNCHANGED uses
    BY <1>4, <2>1 DEF EndSome, ExpireGrants
  <2> QED BY <2>2, <2>3 DEF Ends
<1>5. ASSUME NEW r \in Requests, DeadlockVictim(r) PROVE Quiet
  BY <1>5 DEF DeadlockVictim, Quiet
<1>6. ASSUME NEW a \in Agents, Enable(a) PROVE Quiet
  BY <1>6 DEF Enable, Quiet
<1>7. ASSUME NEW g \in Grants, RedeemRoot(g) PROVE Quiet
  BY <1>7 DEF RedeemRoot, Quiet
<1>8. CASE Tick
  BY <1>8 DEF Tick, Quiet
<1> QED
  BY <1>1, <1>3, <1>4, <1>5, <1>6, <1>7, <1>8 DEF Next

\* A step that leaves the grants and the requests alone keeps the invariant.
LEMMA StillKeepsInv ==
    ASSUME GrantInv, UNCHANGED <<grant, req, uses>>,
           agent' \in [Agents -> {"active", "disabled"}], held' \subseteq Stored, now' \in Nat
    PROVE  GrantInv'
<1>1. Stored' = Stored
  BY DEF Stored
<1>2. RowsInv' /\ KeepsAncestry
  BY <1>1 DEF GrantInv, RowsInv, TypeOK, GrantsAreGrounded, DelegationNarrows, BudgetsHold,
              KeepsAncestry, Stored
<1>3. LocksAreExclusive'
  BY DEF GrantInv, LocksAreExclusive
<1>4. PICK R \in SUBSET Requests : R = {}
  OBVIOUS
<1> QED
  BY <1>2, <1>3, <1>4, StepKeepsInv

\* Every step keeps the invariant.
LEMMA NextKeepsGrantInv == GrantInv /\ [Next]_vars => GrantInv'
<1> SUFFICES ASSUME GrantInv, [Next]_vars PROVE GrantInv'
  OBVIOUS
<1> USE DEF rows
<1>1. ASSUME NEW r \in Requests, Arrive(r) \/ Proceed(r) \/ DeadlockVictim(r) PROVE GrantInv'
  BY <1>1, ArriveKeepsInv, ProceedKeepsInv, QuitKeepsInv DEF DeadlockVictim
<1>2. held \subseteq Stored /\ now \in Nat /\ agent \in [Agents -> {"active", "disabled"}]
  BY DEF GrantInv, GrantsAreGrounded, TypeOK
<1>3. ASSUME NEW a \in Agents, Enable(a) PROVE GrantInv'
  BY <1>2, <1>3, StillKeepsInv DEF Enable
<1>4. ASSUME NEW g \in Grants, RedeemRoot(g) PROVE GrantInv'
  <2>1. g \in Stored
    BY <1>4 DEF RedeemRoot, Stored
  <2>2. held' \subseteq Stored
    BY <1>2, <1>4, <2>1 DEF RedeemRoot
  <2> QED BY <1>2, <1>4, <2>2, StillKeepsInv DEF RedeemRoot
<1>5. CASE ExpireGrants
  <2>1. PICK T \in SUBSET Grants : T = Overdue
    BY DEF Overdue
  <2>2. \A g \in T : grant[g].status = "active"
    BY <2>1 DEF Overdue
  <2>3. EndSome(T, "expired")
    BY <1>5, <2>1 DEF EndSome, ExpireGrants
  <2>4. RowsInv /\ req' = req /\ req' \in [Requests -> Request] /\ agent' = agent
    BY <1>5 DEF GrantInv, RowsInv, TypeOK, ExpireGrants
  <2>5. RowsInv' /\ KeepsAncestry
    BY <1>2, <1>5, <2>2, <2>3, <2>4, EndKeepsRows DEF ExpireGrants
  <2>6. \A q \in Requests : \A g \in req[q].locked : g \in Grants /\ g \notin T
    BY <1>5, <2>1 DEF ExpireGrants, GrantInv, TypeOK, Request
  <2>7. \A q \in Requests : \A g \in req[q].locked : grant'[g] = grant[g]
    BY <2>3, <2>6 DEF EndSome
  <2>8. LocksAreExclusive'
    BY <2>4 DEF GrantInv, LocksAreExclusive
  <2>9. PICK R \in SUBSET Requests : R = {}
    OBVIOUS
  <2> QED BY <2>4, <2>5, <2>7, <2>8, <2>9, StepKeepsInv
<1>6. CASE Tick
  BY <1>2, <1>6, StillKeepsInv DEF Tick
<1>7. CASE UNCHANGED vars
  BY <1>2, <1>7, StillKeepsInv DEF vars
<1> QED
  BY <1>1, <1>3, <1>4, <1>5, <1>6, <1>7 DEF Next

-----------------------------------------------------------------------------
(* The ledger of the reachable states.                                     *)

\* Only finitely many grants are stored, and so every grant has finitely many
\* children.
LEMMA FewChildren ==
    ASSUME LedgerInv, NEW g \in Grants
    PROVE  IsFiniteSet(Under(Parents, g))
<1>1. Under(Parents, g) \subseteq Stored
  BY NoGrantRow, NoneIsNobody DEF Under, Parents, LedgerInv, GrantInv, GrantsAreGrounded
<1> QED BY <1>1, FS_Subset DEF LedgerInv

\* The counts, the parents and the reports are functions into what the sums need.
LEMMA LedgerTypes ==
    ASSUME TypeOK
    PROVE  /\ Usages \in [Grants -> Nat] /\ uses \in [Grants -> Nat]
           /\ Parents \in [Grants -> Grants \cup {None}]
  BY DEF TypeOK, GrantRow, Usages, Parents

\* A counted report.
LEMMA CountKeepsLedger ==
    ASSUME LedgerInv, NEW r \in Requests, CountUsage(r), GrantInv'
    PROVE  Stored' = Stored /\ UsageCountsTheSubtree'
<1> USE DEF LedgerInv, GrantInv
<1>1. PICK L \in SUBSET Grants, t \in Grants : L = req[r].locked /\ t = req[r].grant
  BY DEF CountUsage, TypeOK, Request, RequestsAreGrounded, Grounded, Stored
<1>2. L = Above({t}) /\ t \in Stored /\ L \subseteq Stored
  BY <1>1 DEF CountUsage, RequestsAreGrounded, Grounded
<1>3. Chain(t, L) /\ ClosedUp(L)
  BY <1>1, <1>2, AncestryIsChain, AboveCloses DEF AboveIsClosure
<1>4. \A g \in Grants : /\ grant[g] \in GrantRow
                        /\ grant'[g] = IF g \in L THEN Used(grant[g]) ELSE grant[g]
  BY <1>1 DEF CountUsage, TypeOK
<1>5. ASSUME NEW g \in Grants
      PROVE  /\ grant'[g].usage = IF g \in L THEN grant[g].usage + 1 ELSE grant[g].usage
             /\ grant'[g].parent = grant[g].parent
             /\ grant'[g].status = "absent" => grant[g].status = "absent"
             /\ grant[g].status = "absent" => g \notin L
  <2>1. PICK row \in GrantRow : row = grant[g]
    BY <1>4
  <2>2. PICK s : s = IF row.max # None /\ row.usage + 1 >= row.max THEN "completed" ELSE row.status
    OBVIOUS
  <2>3. Used(row) = [row EXCEPT !.usage = row.usage + 1, !.status = s]
    BY <2>2 DEF Used
  <2>4. /\ Used(row).usage = row.usage + 1 /\ Used(row).parent = row.parent
        /\ Used(row).status = s
    BY <2>3 DEF GrantRow
  <2>5. row.status = "absent" => g \notin L
    BY <1>2, <2>1 DEF Stored
  <2> QED BY <1>4, <2>1, <2>2, <2>4, <2>5
<1>6. Stored' = Stored
  <2>1. \A g \in Grants : g \in Stored => g \in Stored'
    BY <1>5 DEF Stored
  <2>2. \A g \in Grants : g \notin Stored => g \notin Stored'
    BY <1>4, <1>5 DEF Stored
  <2> QED BY <2>1, <2>2 DEF Stored
<1>7. PICK u \in [Grants -> Nat], up \in [Grants -> Grants \cup {None}], w \in [Grants -> Nat] :
        u = Usages /\ up = Parents /\ w = uses
  BY LedgerTypes
<1>8. PICK v \in [Grants -> Nat], x \in [Grants -> Nat] : v = Usages' /\ x = uses'
  BY LedgerTypes DEF TypeOK, GrantRow, Usages
<1>9. Parents' = up
  BY <1>5, <1>7 DEF Parents
<1>10. Counted(u, up, w) /\ FewUnder(up)
  BY <1>7, LedgerOfGrants, FewChildren DEF FewUnder
<1>11. OneMore(u, v, L)
  BY <1>5, <1>7, <1>8 DEF Usages, OneMore
<1>12. OneMore(w, x, {t})
  BY <1>1, <1>7, <1>8 DEF CountUsage, OneMore
<1>13. \A g \in Grants : up[g] = grant[g].parent /\ grant[g].depth \in 0..5
  BY <1>4, <1>7 DEF Parents, GrantRow
<1>14. \A c, p \in Grants : up[c] = p => grant[c].depth = grant[p].depth + 1
  BY <1>13 DEF DelegationNarrows
<1>15. Line(up, L, t)
  <2>1. \A c \in L : up[c] \in Grants => up[c] \in L /\ up[c] # t
    BY <1>3, <1>13, <1>14, NoneIsNobody DEF Chain, ClosedUp
  <2>2. \A g \in L \ {t} : \E c \in L : up[c] = g
    BY <1>3, <1>13 DEF Chain
  <2>3. \A c, d \in L : up[c] \in Grants /\ up[c] = up[d] => c = d
    BY <1>3, <1>14 DEF Chain
  <2> QED BY <2>1, <2>2, <2>3 DEF Line
<1>16. t \in L
  BY <1>3 DEF Chain
<1>17. Counted(v, up, x)
  BY <1>10, <1>11, <1>12, <1>15, <1>16, ReportKeepsLedger
<1>18. Counted(Usages, Parents, uses)'
  BY <1>8, <1>9, <1>17 DEF Counted, Under
<1> QED
  BY <1>6, <1>18, LedgerOfGrants, PTL

\* A stored grant.
LEMMA StoreKeepsBooks ==
    ASSUME LedgerInv, GrantInv', Stores
    PROVE  IsFiniteSet(Stored)' /\ UsageCountsTheSubtree'
<1> USE DEF LedgerInv, GrantInv
<1>1. PICK c \in Grants :
        /\ grant[c] = NoGrant /\ grant'[c].usage = 0
        /\ \A g \in Grants \ {c} : grant'[g] = grant[g]
  <2>1. PICK r \in Requests, c \in Grants :
          \/ \E max \in Budgets, life \in Lifetimes : StoreGrant(r, c, max, life)
          \/ StoreChild(r, c)
    BY DEF Stores
  <2>2. \E a, p, d, m, e : grant' = [grant EXCEPT ![c] = NewGrant(a, p, d, m, e)]
    BY <2>1 DEF StoreGrant, StoreChild
  <2>3. grant[c] = NoGrant
    BY <2>1 DEF StoreGrant, StoreChild
  <2> QED BY <2>2, <2>3 DEF TypeOK, NewGrant
<1>2. uses' = uses
  BY DEF Stores, StoreGrant, StoreChild
<1>3. PICK F : F = Stored \cup {c}
  OBVIOUS
<1>4. IsFiniteSet(F)
  BY <1>3, FS_AddElement
<1>5. Stored' \subseteq F
  BY <1>1, <1>3 DEF Stored
<1>6. IsFiniteSet(Stored)'
  BY <1>4, <1>5, FS_Subset
<1>7. PICK u \in [Grants -> Nat], up \in [Grants -> Grants \cup {None}], w \in [Grants -> Nat] :
        u = Usages /\ up = Parents /\ w = uses
  BY LedgerTypes
<1>8. PICK vp : vp = Parents'
  OBVIOUS
<1>9. Usages' = u
  <2>1. \A g \in Grants : grant'[g].usage = grant[g].usage
    BY <1>1, NoGrantRow
  <2> QED BY <1>7, <2>1 DEF Usages
<1>10. \A g \in Grants \ {c} : vp[g] = up[g]
  BY <1>1, <1>7, <1>8 DEF Parents
<1>11. u[c] = 0 /\ up[c] \notin Grants
  BY <1>1, <1>7, NoGrantRow, NoneIsNobody DEF Usages, Parents
<1>12. FewUnder(up) /\ Counted(u, up, w)
  BY <1>7, LedgerOfGrants, FewChildren DEF FewUnder
<1>13. Counted(u, vp, w)
  BY <1>10, <1>11, <1>12, StoreKeepsLedger
<1>14. Counted(Usages, Parents, uses)'
  BY <1>2, <1>7, <1>8, <1>9, <1>13 DEF Counted, Under
<1> QED
  BY <1>6, <1>14, LedgerOfGrants, PTL

\* Steps that change neither counts nor parents.
LEMMA EndKeepsBooks ==
    ASSUME LedgerInv, Quiet \/ Ends
    PROVE  Stored' = Stored /\ UsageCountsTheSubtree'
<1>1. \A g \in Grants : /\ grant'[g].usage = grant[g].usage /\ grant'[g].parent = grant[g].parent
                        /\ grant'[g].status = "absent" <=> grant[g].status = "absent"
  <2>1. CASE Quiet
    BY <2>1 DEF Quiet
  <2>2. CASE Ends
    <3>1. PICK T \in SUBSET Grants, s \in {"revoked", "expired"} :
            (\A g \in T : grant[g].status = "active") /\ EndSome(T, s)
      BY <2>2 DEF Ends
    <3>2. \A g \in Grants : /\ grant[g] \in GrantRow
                            /\ grant'[g] = IF g \in T THEN [grant[g] EXCEPT !.status = s]
                                                      ELSE grant[g]
      BY <3>1 DEF EndSome, LedgerInv, GrantInv, TypeOK
    <3> QED BY <3>1, <3>2 DEF GrantRow
  <2> QED BY <2>1, <2>2
<1>2. uses' = uses
  BY DEF Quiet, Ends
<1>3. Stored' = Stored
  BY <1>1 DEF Stored
<1>4. Usages' = Usages /\ Parents' = Parents
  BY <1>1 DEF Usages, Parents
<1>5. Counted(Usages, Parents, uses)
  BY LedgerOfGrants DEF LedgerInv
<1>6. Counted(Usages, Parents, uses)'
  BY <1>2, <1>4, <1>5 DEF Counted
<1> QED
  BY <1>3, <1>6, LedgerOfGrants, PTL

\* Nothing is stored, reported or counted at first.
LEMMA InitLedgerInv == Init => LedgerInv
<1> SUFFICES ASSUME Init PROVE LedgerInv
  OBVIOUS
<1>1. GrantInv
  BY InitGrantInv
<1>2. \A g \in Grants : /\ grant[g].status = "absent" /\ grant[g].parent = None
                        /\ grant[g].usage = 0 /\ uses[g] = 0
  BY NoGrantRow DEF Init
<1>3. Stored = {}
  BY <1>2 DEF Stored
<1>4. Counted(Usages, Parents, uses)
  <2>1. ASSUME NEW g \in Grants PROVE Under(Parents, g) = {}
    BY <1>2, NoneIsNobody DEF Under, Parents
  <2>2. SumFunctionOnSet(Usages, {}) = 0
    <3>1. IsFiniteSet({})
      BY FS_EmptySet
    <3> QED BY <3>1, SumOfChosen
  <2> QED BY <1>2, <2>1, <2>2 DEF Counted, Usages
<1> QED
  BY <1>1, <1>3, <1>4, FS_EmptySet, LedgerOfGrants DEF LedgerInv

\* Every step keeps the books.
LEMMA NextKeepsLedgerInv == LedgerInv /\ [Next]_vars => LedgerInv'
<1> SUFFICES ASSUME LedgerInv, [Next]_vars PROVE LedgerInv'
  OBVIOUS
<1>1. GrantInv /\ GrantInv'
  BY NextKeepsGrantInv DEF LedgerInv
<1>2. CASE Quiet \/ Ends
  <2>1. Stored' = Stored /\ UsageCountsTheSubtree'
    BY <1>2, EndKeepsBooks
  <2> QED BY <1>1, <2>1 DEF LedgerInv
<1>3. CASE Counts
  <2>1. Stored' = Stored /\ UsageCountsTheSubtree'
    BY <1>1, <1>3, CountKeepsLedger DEF Counts
  <2> QED BY <1>1, <2>1 DEF LedgerInv
<1>4. CASE Stores
  BY <1>1, <1>4, StoreKeepsBooks DEF LedgerInv
<1>5. Quiet \/ Ends \/ Counts \/ Stores
  <2>1. CASE Next
    BY <1>1, <2>1, NextTouchesRows
  <2>2. CASE UNCHANGED vars
    BY <2>2 DEF vars, Quiet
  <2> QED BY <2>1, <2>2
<1> QED
  BY <1>2, <1>3, <1>4, <1>5

-----------------------------------------------------------------------------
(* The theorems.                                                           *)

\* The inductive invariant holds of every reachable state.
THEOREM GrantInvariant == Spec => []GrantInv
<1>1. Init => GrantInv
  BY InitGrantInv
<1>2. GrantInv /\ [Next]_vars => GrantInv'
  BY NextKeepsGrantInv
<1> QED
  BY <1>1, <1>2, PTL DEF Spec

\* Rows and requests have the shape the schema gives them: no grant is deeper than
\* delegation_grants' CHECK allows.
THEOREM TypeCorrect == Spec => []TypeOK
<1>1. GrantInv => TypeOK
  BY DEF GrantInv
<1> QED
  BY <1>1, GrantInvariant, PTL

\* However many reports arrive together, no budget is overdrawn, and the last use
\* completes its grant (/agent-grants/:grantId/usage).
THEOREM BudgetsHoldAlways == Spec => []BudgetsHold
<1>1. GrantInv => BudgetsHold
  BY DEF GrantInv
<1> QED
  BY <1>1, GrantInvariant, PTL

\* A report is charged to the complete ancestry of its grant and to nothing else:
\* what a grant has counted is the reports accepted for it and what its children
\* have counted, in every reachable state (/agent-grants/:grantId/usage).
THEOREM UsageCountsTheSubtreeAlways == Spec => []UsageCountsTheSubtree
<1>1. Init => LedgerInv
  BY InitLedgerInv
<1>2. LedgerInv /\ [Next]_vars => LedgerInv'
  BY NextKeepsLedgerInv
<1>3. LedgerInv => UsageCountsTheSubtree
  BY DEF LedgerInv
<1> QED
  BY <1>1, <1>2, <1>3, PTL DEF Spec

\* A delegated grant never exceeds the one it came from (tokenExchangeGrant).
THEOREM DelegationNarrowsAlways == Spec => []DelegationNarrows
<1>1. GrantInv => DelegationNarrows
  BY DEF GrantInv
<1> QED
  BY <1>1, GrantInvariant, PTL

\* No step changes how a grant ended: the revocation's and the expiry's statements
\* touch active rows only, and a report's rows were active when it locked them
\* (api/agents.ts, workers.ts).
THEOREM EndingsStayFinal == Spec => EndingsAreFinal
<1> DEFINE A == \A g \in Grants : grant[g].status \in Ended => grant'[g].status = grant[g].status
<1>1. ASSUME GrantInv, Next, NEW g \in Grants, grant[g].status \in Ended
      PROVE  grant'[g].status = grant[g].status
  <2>1. grant \in [Grants -> GrantRow]
    BY <1>1 DEF GrantInv, TypeOK
  <2>2. CASE Quiet
    BY <2>2 DEF Quiet
  <2>3. CASE Ends
    BY <1>1, <2>1, <2>3 DEF Ends, EndSome, Ended
  <2>4. CASE Counts
    <3>1. PICK r \in Requests : CountUsage(r)
      BY <2>4 DEF Counts
    <3>2. g \notin req[r].locked
      BY <1>1, <3>1 DEF GrantInv, RequestsAreGrounded, Grounded, CountUsage, Authorizes, Ended
    <3> QED BY <3>1, <3>2 DEF CountUsage
  <2>5. CASE Stores
    <3>1. PICK c \in Grants : /\ grant[c] = NoGrant
                              /\ \A h \in Grants \ {c} : grant'[h] = grant[h]
      BY <2>1, <2>5 DEF Stores, StoreGrant, StoreChild
    <3>2. g # c
      BY <1>1, <3>1, NoGrantRow DEF Ended
    <3> QED BY <3>1, <3>2
  <2> QED BY <1>1, <2>2, <2>3, <2>4, <2>5, NextTouchesRows
<1>2. GrantInv /\ [Next]_vars => [A]_vars
  BY <1>1
<1> QED
  BY <1>2, GrantInvariant, PTL DEF Spec, EndingsAreFinal

\* A child is stored under a grant that is active in that very step, because the
\* row was locked when its status was looked at (tokenExchangeGrant).
THEOREM ParentsAreActiveThen == Spec => ParentsAreActive
<1> DEFINE A == \A c \in Grants : grant[c] = NoGrant /\ grant'[c].parent # None =>
                  grant[grant'[c].parent].status = "active"
<1>1. ASSUME GrantInv, Next, NEW g \in Grants, grant[g] = NoGrant, grant'[g].parent # None
      PROVE  grant[grant'[g].parent].status = "active"
  <2>1. grant \in [Grants -> GrantRow] /\ grant[g].parent = None /\ grant[g].status = "absent"
    BY <1>1, NoGrantRow DEF GrantInv, TypeOK
  <2>2. CASE Quiet
    BY <1>1, <2>1, <2>2 DEF Quiet
  <2>3. CASE Ends
    BY <1>1, <2>1, <2>3 DEF Ends, EndSome
  <2>4. CASE Counts
    <3>1. PICK r \in Requests : CountUsage(r)
      BY <2>4 DEF Counts
    <3>2. g \notin req[r].locked
      BY <1>1, <2>1, <3>1 DEF GrantInv, RequestsAreGrounded, Grounded, CountUsage, Stored
    <3> QED BY <1>1, <2>1, <3>1, <3>2 DEF CountUsage
  <2>5. CASE Stores
    <3>1. PICK r \in Requests, c \in Grants :
            \/ \E max \in Budgets, life \in Lifetimes : StoreGrant(r, c, max, life)
            \/ StoreChild(r, c)
      BY <2>5 DEF Stores
    <3>2. \A h \in Grants \ {c} : grant'[h] = grant[h]
      BY <2>1, <3>1 DEF StoreGrant, StoreChild
    <3>3. g = c
      BY <1>1, <2>1, <3>2
    <3>4. ~\E max \in Budgets, life \in Lifetimes : StoreGrant(r, c, max, life)
      BY <1>1, <2>1, <3>3 DEF StoreGrant, NewGrant
    <3>5. grant'[c].parent = req[r].grant /\ req[r].step = "delegating"
      BY <2>1, <3>1, <3>4 DEF StoreChild, NewGrant
    <3> QED BY <1>1, <3>3, <3>5 DEF GrantInv, RequestsAreGrounded, Grounded
  <2> QED BY <1>1, <2>2, <2>3, <2>4, <2>5, NextTouchesRows
<1>2. GrantInv /\ [Next]_vars => [A]_vars
  BY <1>1
<1> QED
  BY <1>2, GrantInvariant, PTL DEF Spec, ParentsAreActive

\* A report is counted only while the whole ancestry of its grant is active and
\* within its budgets: the rows it examined are the ancestry of that moment, and
\* they stayed locked (/agent-grants/:grantId/usage).
THEOREM UsesStayAuthorized == Spec => UsesAreAuthorized
<1> DEFINE A == \A g \in Grants : uses'[g] # uses[g] =>
                  \A h \in Above({g}) : grant[h].status = "active" /\ ~Exhausted(h)
<1>1. ASSUME GrantInv, Next, NEW g \in Grants, uses'[g] # uses[g], NEW h \in Above({g})
      PROVE  grant[h].status = "active" /\ ~Exhausted(h)
  <2> USE DEF rows
  <2>1. ~Quiet /\ ~Ends
    BY <1>1 DEF Quiet, Ends
  <2>2. ~Stores
    BY <1>1 DEF Stores, StoreGrant, StoreChild
  <2>3. PICK r \in Requests : CountUsage(r)
    BY <1>1, <2>1, <2>2, NextTouchesRows DEF Counts
  <2>4. g = req[r].grant
    BY <1>1, <2>3 DEF CountUsage, GrantInv, TypeOK
  <2>5. h \in req[r].locked
    BY <1>1, <2>3, <2>4 DEF GrantInv, RequestsAreGrounded, Grounded, CountUsage
  <2> QED BY <1>1, <2>3, <2>5 DEF GrantInv, RequestsAreGrounded, Grounded, CountUsage, Authorizes
<1>2. GrantInv /\ [Next]_vars => [A]_vars
  BY <1>1
<1> QED
  BY <1>2, GrantInvariant, PTL DEF Spec, UsesAreAuthorized

-----------------------------------------------------------------------------
(* The refinement of DelegationTree.                                       *)

\* The fields of a node.
LEMMA NodeFields ==
    ASSUME NEW row
    PROVE  /\ Node(row).status = row.status /\ Node(row).parent = row.parent
           /\ Node(row).level = row.depth /\ Node(row).max = row.max /\ Node(row).used = row.usage
  BY DEF Node

\* An unused row is an unused node, a new one a fresh node.
LEMMA NewNodes ==
    /\ Node(NoGrant) = Tree!Unused
    /\ \A a, p, d, m, e : Node(NewGrant(a, p, d, m, e)) = Tree!Fresh(p, d, m)
<1>1. \A a, p, d, m, e : Node(NewGrant(a, p, d, m, e)) = Tree!Fresh(p, d, m)
  BY DEF Node, NewGrant, Tree!Fresh
<1>2. Node(NoGrant) = Tree!Unused
  BY DEF Node, NoGrant, NewGrant, Tree!Unused, Tree!Fresh
<1> QED BY <1>1, <1>2

\* Storing a row makes its node, and leaves the others.
LEMMA StoreMapsForest ==
    ASSUME TypeOK, NEW c \in Grants, NEW row, grant' = [grant EXCEPT ![c] = row]
    PROVE  Forest' = [Forest EXCEPT ![c] = Node(row)]
<1>1. \A g \in Grants : Node(grant'[g]) = IF g = c THEN Node(row) ELSE Node(grant[g])
  BY DEF TypeOK
<1>2. Forest' = [g \in Grants |-> IF g = c THEN Node(row) ELSE Node(grant[g])]
  BY <1>1 DEF Forest
<1>3. [Forest EXCEPT ![c] = Node(row)] = [g \in Grants |-> IF g = c THEN Node(row) ELSE Node(grant[g])]
  BY DEF Forest
<1> QED BY <1>2, <1>3

\* An approved grant is a new root, a delegated one a new leaf of an active grant.
LEMMA StoresMap ==
    ASSUME GrantInv, Stores
    PROVE  Tree!Next
<1>1. PICK r \in Requests, c \in Grants :
        \/ \E max \in Budgets, life \in Lifetimes : StoreGrant(r, c, max, life)
        \/ StoreChild(r, c)
  BY DEF Stores
<1>2. TypeOK
  BY DEF GrantInv
<1>3. grant[c] = NoGrant /\ Forest[c] = Tree!Unused
  <2>1. grant[c] = NoGrant
    BY <1>1 DEF StoreGrant, StoreChild
  <2> QED BY <2>1, NewNodes DEF Forest
<1>4. ASSUME NEW max \in Budgets, NEW life \in Lifetimes, StoreGrant(r, c, max, life)
      PROVE  Tree!Approve(c, max)
  <2>1. PICK row : row = NewGrant(req[r].agent, None, 0, max, now + life)
    OBVIOUS
  <2>2. grant' = [grant EXCEPT ![c] = row]
    BY <1>4, <2>1 DEF StoreGrant
  <2>3. Forest' = [Forest EXCEPT ![c] = Node(row)]
    BY <1>2, <2>2, StoreMapsForest
  <2>4. Node(row) = Tree!Fresh(None, 0, max)
    BY <2>1, NewNodes
  <2> QED BY <1>3, <2>3, <2>4 DEF Tree!Approve
<1>5. CASE StoreChild(r, c)
  <2>1. PICK p \in Grants : p = req[r].grant
    BY <1>5 DEF StoreChild, GrantInv, RequestsAreGrounded, Grounded, Stored
  <2>2. PICK row : row = NewGrant(req[r].agent, p, grant[p].depth + 1, grant[p].max, grant[p].expires)
    OBVIOUS
  <2>3. grant' = [grant EXCEPT ![c] = row]
    BY <1>5, <2>1, <2>2 DEF StoreChild
  <2>4. Forest' = [Forest EXCEPT ![c] = Node(row)]
    BY <1>2, <2>3, StoreMapsForest
  <2>5. Node(row) = Tree!Fresh(p, grant[p].depth + 1, grant[p].max)
    BY <2>2, NewNodes
  <2>6. grant[p] \in GrantRow /\ grant[p].status = "active" /\ grant[p].depth < MaxDepth[grant[p].actor]
        /\ grant[p].actor \in Agents
    BY <1>5, <2>1 DEF StoreChild, GrantInv, TypeOK, RequestsAreGrounded, Grounded, GrantsAreGrounded, Stored
  <2>7. grant[p].depth < 5
    BY <2>6, RegistrationsAreSane DEF GrantRow
  <2>8. /\ Forest[p].status = grant[p].status /\ Forest[p].level = grant[p].depth
        /\ Forest[p].max = grant[p].max
    BY NodeFields DEF Forest
  <2>9. Tree!Delegate(p, c)
    BY <1>3, <2>4, <2>5, <2>6, <2>7, <2>8 DEF Tree!Delegate
  <2> QED BY <2>9 DEF Tree!Next
<1> QED
  BY <1>1, <1>4, <1>5 DEF Tree!Next

\* The ancestry that the query collects in five rounds is the least closed set.
LEMMA AncestryIsAbove ==
    ASSUME TypeOK, DelegationNarrows, NEW g \in Grants
    PROVE  Tree!Ancestry(g) = Above({g})
<1>1. PICK A \in SUBSET Grants : A = Above({g})
  BY AboveCloses DEF AboveIsClosure
<1>2. g \in A /\ ClosedUp(A) /\ \A T \in SUBSET Grants : g \in T /\ ClosedUp(T) => A \subseteq T
  BY <1>1, AboveCloses DEF AboveIsClosure
<1>3. \A T \in SUBSET Grants :
        ClosedUp(T) <=> \A c \in T : Forest[c].parent # None => Forest[c].parent \in T
  <2>1. \A c \in Grants : Forest[c].parent = grant[c].parent
    BY NodeFields DEF Forest
  <2> QED BY <2>1 DEF ClosedUp
<1>4. Tree!Ancestry(g) = {a \in Grants : \A T \in SUBSET Grants : g \in T /\ ClosedUp(T) => a \in T}
  BY <1>3 DEF Tree!Ancestry
<1> QED
  BY <1>1, <1>2, <1>4

\* A counted report is one use of its grant.
LEMMA CountMapsToUse ==
    ASSUME GrantInv, NEW r \in Requests, CountUsage(r)
    PROVE  Tree!Next
<1> USE DEF GrantInv
<1>1. PICK t \in Grants, L \in SUBSET Grants :
        t = req[r].grant /\ L = req[r].locked /\ L = Above({t}) /\ \A g \in L : Authorizes(g)
  BY DEF CountUsage, TypeOK, Request, RequestsAreGrounded, Grounded, Stored
<1>2. Tree!Ancestry(t) = L
  BY <1>1, AncestryIsAbove
<1>3. ASSUME NEW g \in Grants
      PROVE  /\ Forest[g] = Node(grant[g]) /\ grant[g] \in GrantRow
             /\ Forest'[g] = IF g \in L THEN Node(Used(grant[g])) ELSE Forest[g]
  BY <1>1 DEF Forest, TypeOK, CountUsage
<1>4. ASSUME NEW g \in L
      PROVE  Tree!MayBeUsed(g) /\ Node(Used(grant[g])) = Tree!Charged(Forest[g])
  <2>1. PICK row \in GrantRow : row = grant[g] /\ Forest[g] = Node(row)
    BY <1>3
  <2>2. /\ row.status = "active" /\ row.usage \in Nat
        /\ row.max # None => row.max \in Nat /\ row.usage < row.max
    <3>1. row.usage \in Nat /\ row.max \in Nat \cup {None}
      BY DEF GrantRow
    <3>2. row.status = "active" /\ (row.max # None => ~(row.usage >= row.max))
      BY <1>1, <2>1 DEF Authorizes, Exhausted
    <3> QED BY <3>1, <3>2
  <2>3. Tree!MayBeUsed(g)
    BY <2>1, <2>2, NodeFields DEF Tree!MayBeUsed
  <2>4. PICK s : s = IF row.max # None /\ row.usage + 1 >= row.max THEN "completed" ELSE row.status
    OBVIOUS
  <2>5. s = IF row.max # None /\ row.usage + 1 = row.max THEN "completed" ELSE row.status
    BY <2>2, <2>4
  <2>6. Used(row) = [row EXCEPT !.usage = row.usage + 1, !.status = s]
    BY <2>4 DEF Used
  <2>7. /\ Used(row).status = s /\ Used(row).usage = row.usage + 1
        /\ Used(row).parent = row.parent /\ Used(row).depth = row.depth /\ Used(row).max = row.max
    BY <2>6 DEF GrantRow
  <2>8. Node(Used(row)) = [status |-> s, parent |-> row.parent, level |-> row.depth,
                           max |-> row.max, used |-> row.usage + 1]
    BY <2>7 DEF Node
  <2>9. Tree!Charged(Node(row)) = [status |-> s, parent |-> row.parent, level |-> row.depth,
                                   max |-> row.max, used |-> row.usage + 1]
    <3>1. PICK node : node = [status |-> row.status, parent |-> row.parent, level |-> row.depth,
                              max |-> row.max, used |-> row.usage]
      OBVIOUS
    <3>2. /\ node = Node(row) /\ node.max = row.max /\ node.used = row.usage
          /\ node.status = row.status
      BY <3>1 DEF Node
    <3>3. Tree!Charged(node) = [node EXCEPT !.used = row.usage + 1, !.status = s]
      BY <2>5, <3>2 DEF Tree!Charged
    <3>4. [node EXCEPT !.used = row.usage + 1, !.status = s] =
            [status |-> s, parent |-> row.parent, level |-> row.depth,
             max |-> row.max, used |-> row.usage + 1]
      <4>1. PICK v : v = [node EXCEPT !.used = row.usage + 1]
        OBVIOUS
      <4>2. v = [status |-> row.status, parent |-> row.parent, level |-> row.depth,
                 max |-> row.max, used |-> row.usage + 1]
        BY <3>1, <4>1
      <4>3. [node EXCEPT !.used = row.usage + 1, !.status = s] = [v EXCEPT !.status = s]
        BY <4>1
      <4> QED BY <4>2, <4>3
    <3> QED BY <3>2, <3>3, <3>4
  <2> QED BY <2>1, <2>3, <2>8, <2>9
<1>5. Forest' = [g \in Grants |-> IF g \in L THEN Tree!Charged(Forest[g]) ELSE Forest[g]]
  <2>1. \A g \in Grants : Forest'[g] = IF g \in L THEN Tree!Charged(Forest[g]) ELSE Forest[g]
    BY <1>3, <1>4
  <2> QED BY <2>1 DEF Forest
<1>6. Tree!Use(t)
  BY <1>2, <1>4, <1>5 DEF Tree!Use
<1> QED
  BY <1>6 DEF Tree!Next

\* Revocation and expiry end what they end.
LEMMA EndsMap ==
    ASSUME GrantInv, Ends
    PROVE  Tree!Next
<1>1. PICK T \in SUBSET Grants, s \in {"revoked", "expired"} :
        (\A g \in T : grant[g].status = "active") /\ EndSome(T, s)
  BY DEF Ends
<1>2. ASSUME NEW g \in Grants
      PROVE  Node(grant'[g]) = IF g \in T THEN [Node(grant[g]) EXCEPT !.status = s] ELSE Node(grant[g])
  <2>1. PICK row \in GrantRow : row = grant[g]
    BY DEF GrantInv, TypeOK
  <2>2. grant'[g] = IF g \in T THEN [row EXCEPT !.status = s] ELSE row
    BY <1>1, <2>1 DEF EndSome
  <2> QED BY <2>1, <2>2 DEF Node, GrantRow
<1>3. Forest' = [g \in Grants |-> IF g \in T THEN [Forest[g] EXCEPT !.status = s] ELSE Forest[g]]
  BY <1>2 DEF Forest
<1>4. \A g \in T : Forest[g].status = "active"
  BY <1>1, NodeFields DEF Forest
<1>5. Tree!End(T, s)
  BY <1>3, <1>4 DEF Tree!End
<1> QED
  BY <1>5 DEF Tree!Next

\* Every step of the handlers is a step of the forest, or changes nothing in it.
LEMMA NextMapsToTree == GrantInv /\ [Next]_vars => [Tree!Next]_Forest
<1> SUFFICES ASSUME GrantInv, [Next]_vars PROVE [Tree!Next]_Forest
  OBVIOUS
<1>1. CASE Quiet
  BY <1>1 DEF Quiet, Forest
<1>2. CASE Ends
  BY <1>2, EndsMap
<1>3. CASE Counts
  BY <1>3, CountMapsToUse DEF Counts
<1>4. CASE Stores
  BY <1>4, StoresMap
<1>5. CASE UNCHANGED vars
  BY <1>5 DEF vars, Forest
<1> QED
  BY <1>1, <1>2, <1>3, <1>4, <1>5, NextTouchesRows

\* Whatever requests do at once, the grants behave as the forest that DelegationTree
\* promises: uses are charged to a whole ancestry or not at all, delegation starts at
\* active grants, endings are final (api/agents.ts, tokenExchangeGrant, workers.ts).
THEOREM ImplementsDelegationTree == Spec => KeepsDelegation
<1>1. Init => Tree!Init
  <2> SUFFICES ASSUME Init PROVE Tree!Init
    OBVIOUS
  <2>1. \A g \in Grants : Forest[g] = Tree!Unused
    BY NewNodes DEF Init, Forest
  <2> QED BY <2>1 DEF Tree!Init, Forest
<1>2. GrantInv /\ [Next]_vars => [Tree!Next]_Forest
  BY NextMapsToTree
<1> QED
  BY <1>1, <1>2, GrantInvariant, PTL DEF Spec, KeepsDelegation, Tree!Spec

-----------------------------------------------------------------------------
(* The lock order of the usage reports.                                    *)

\* A step of r keeps the order if r does, or is no report afterwards.
LEMMA StepKeepsOrder ==
    ASSUME LocksInOrder, NEW r \in Requests, \A q \in Requests \ {r} : req'[q] = req[q],
           req'[r].step = "using" => \A g \in req'[r].locked, h \in req'[r].wanted : g < h
    PROVE  LocksInOrder'
  BY DEF LocksInOrder

\* Taking the lowest wanted row keeps the order.
LEMMA LockLineageKeepsOrder ==
    ASSUME TypeOK, LocksInOrder, NEW r \in Requests, NEW g \in Grants, LockLineage(r, g)
    PROVE  LocksInOrder'
<1>1. PICK x \in Request : x = req[r]
  BY DEF TypeOK
<1>2. /\ req'[r].wanted = x.wanted \ {g} /\ req'[r].locked = x.locked \cup {g}
      /\ \A q \in Requests \ {r} : req'[q] = req[q]
  BY <1>1 DEF LockLineage, TypeOK, Request
<1>3. /\ x.step = "using" /\ g \in x.wanted /\ \A h \in x.wanted : g <= h
      /\ x.wanted \subseteq Nat
  BY <1>1, GrantsAreOrdered DEF LockLineage, Request
<1>4. \A a \in x.locked, h \in x.wanted : a < h
  BY <1>1, <1>3 DEF LocksInOrder
<1>5. ASSUME NEW a \in req'[r].locked, NEW h \in req'[r].wanted
      PROVE  a < h
  <2>1. h \in x.wanted /\ h # g /\ g \in Nat /\ h \in Nat
    BY <1>2, <1>3
  <2>2. CASE a = g
    BY <1>3, <2>1, <2>2
  <2>3. CASE a # g
    BY <1>2, <1>4, <2>1, <2>3
  <2> QED BY <2>2, <2>3
<1> QED
  BY <1>2, <1>5, StepKeepsOrder

\* Every step keeps the order.
LEMMA NextKeepsOrder == TypeOK /\ LocksInOrder /\ [Next]_vars => LocksInOrder'
<1> SUFFICES ASSUME TypeOK, LocksInOrder, [Next]_vars PROVE LocksInOrder'
  OBVIOUS
<1> USE DEF rows
<1>1. ASSUME NEW r \in Requests, Finish(r) PROVE LocksInOrder'
  <2>1. req'[r] = Idle /\ Idle.step # "using" /\ \A q \in Requests \ {r} : req'[q] = req[q]
    BY <1>1 DEF Finish, TypeOK, Idle
  <2> QED BY <2>1, StepKeepsOrder
<1>2. ASSUME NEW r \in Requests, NEW s, NEW a, NEW g, NEW W, Start(r, s, a, g, W)
      PROVE  LocksInOrder'
  <2>1. req'[r].locked = {} /\ \A q \in Requests \ {r} : req'[q] = req[q]
    BY <1>2 DEF Start, TypeOK
  <2> QED BY <2>1, StepKeepsOrder
<1>3. ASSUME NEW r \in Requests, Arrive(r) PROVE LocksInOrder'
  BY <1>2, <1>3 DEF Arrive, ReadAgent, BeginKill, ReportUsage, BeginRevoke, PresentToken
<1>4. ASSUME NEW r \in Requests, NEW s \in {"delegating", "counting"}, Goto(r, s)
      PROVE  LocksInOrder'
  <2>1. req'[r].step # "using" /\ \A q \in Requests \ {r} : req'[q] = req[q]
    BY <1>4 DEF Goto, TypeOK, Request
  <2> QED BY <2>1, StepKeepsOrder
<1>5. ASSUME NEW r \in Requests, LockParent(r) \/ BeginSweep(r) PROVE LocksInOrder'
  <2>1. req'[r].step # "using" /\ \A q \in Requests \ {r} : req'[q] = req[q]
    BY <1>5 DEF LockParent, BeginSweep, TypeOK, Request
  <2> QED BY <2>1, StepKeepsOrder
<1>6. ASSUME NEW r \in Requests, NEW g \in Grants, LockAffected(r, g) PROVE LocksInOrder'
  <2>1. req'[r].step # "using" /\ \A q \in Requests \ {r} : req'[q] = req[q]
    BY <1>6 DEF LockAffected, TypeOK, Request
  <2> QED BY <2>1, StepKeepsOrder
<1>7. ASSUME NEW r \in Requests, Proceed(r) PROVE LocksInOrder'
  <2>1. CASE \/ \E g \in Grants, max \in Budgets, life \in Lifetimes : StoreGrant(r, g, max, life)
             \/ RefuseExchange(r) \/ (\E c \in Grants : StoreChild(r, c))
             \/ CountUsage(r) \/ RefuseUsage(r) \/ CommitRevoke(r) \/ CommitKill(r)
    BY <1>1, <2>1
       DEF StoreGrant, RefuseExchange, StoreChild, CountUsage, RefuseUsage, CommitRevoke, CommitKill
  <2>2. CASE AcceptParent(r) \/ AcceptUsage(r)
    BY <1>4, <2>2 DEF AcceptParent, AcceptUsage
  <2> QED BY <1>5, <1>6, <1>7, <2>1, <2>2, LockLineageKeepsOrder DEF Proceed
<1>8. CASE (\E a \in Agents : Enable(a)) \/ (\E g \in Grants : RedeemRoot(g)) \/ ExpireGrants
           \/ Tick \/ UNCHANGED vars
  BY <1>8 DEF Enable, RedeemRoot, ExpireGrants, Tick, vars, LocksInOrder
<1>9. ASSUME NEW r \in Requests, DeadlockVictim(r) PROVE LocksInOrder'
  BY <1>1, <1>9 DEF DeadlockVictim
<1> QED
  BY <1>3, <1>7, <1>8, <1>9 DEF Next

\* Of finitely many reports, the one that wants the highest row waits for none of
\* the others: whoever had locked that row would want a higher one.
LEMMA OrderExcludesDeadlock == GrantInv /\ LocksInOrder => ReportsNeverDeadlock
<1> SUFFICES ASSUME GrantInv, LocksInOrder,
                    NEW S \in SUBSET {r \in Requests : req[r].step \in {"using", "counting"}},
                    S # {}, IsFiniteSet(S), \A r \in S : \E q \in S : WaitsFor(r, q)
             PROVE  FALSE
  BY DEF ReportsNeverDeadlock
<1>1. ASSUME NEW r \in S, NEW q \in S, WaitsFor(r, q)
      PROVE  WantsGrant(r) \cap req[q].locked # {}
  BY <1>1 DEF WaitsFor
<1>2. ASSUME NEW r \in S
      PROVE  /\ req[r].step = "using"
             /\ WantsGrant(r) \subseteq req[r].wanted /\ req[r].wanted \subseteq Nat
             /\ \A g, h \in WantsGrant(r) : g = h
  <2>1. PICK q \in S : WantsGrant(r) \cap req[q].locked # {}
    BY <1>1
  <2>2. r \in Requests /\ req[r].wanted \subseteq Nat
    BY GrantsAreOrdered DEF GrantInv, TypeOK, Request
  <2>3. req[r].step = "using"
    <3>1. SUFFICES ASSUME req[r].step = "counting" PROVE FALSE
      OBVIOUS
    <3>2. req[r].wanted = {}
      BY <2>2, <3>1 DEF GrantInv, RequestsAreGrounded, Grounded
    <3>3. WantsGrant(r) = req[r].wanted
      BY <3>1 DEF WantsGrant
    <3> QED BY <2>1, <3>2, <3>3
  <2>4. WantsGrant(r) = {g \in req[r].wanted : \A h \in req[r].wanted : g <= h}
    BY <2>3 DEF WantsGrant
  <2> QED BY <2>2, <2>3, <2>4
<1>3. PICK f : f = [r \in S |-> CHOOSE g : g \in WantsGrant(r)]
  OBVIOUS
<1>4. ASSUME NEW r \in S
      PROVE  f[r] \in WantsGrant(r) /\ f[r] \in Nat
  <2>1. \E g : g \in WantsGrant(r)
    BY <1>1
  <2> QED BY <1>2, <1>3, <2>1
<1>5. PICK m \in S : \A r \in S : f[r] <= f[m]
  BY <1>4, LargestValue
<1>6. PICK q \in S : f[m] \in req[q].locked
  <2>1. PICK q \in S : WantsGrant(m) \cap req[q].locked # {}
    BY <1>1
  <2> QED BY <1>2, <1>4, <2>1
<1>7. f[m] < f[q]
  BY <1>2, <1>4, <1>6 DEF LocksInOrder
<1>8. f[q] <= f[m] /\ f[q] \in Nat /\ f[m] \in Nat
  BY <1>4, <1>5
<1> QED
  BY <1>7, <1>8

\* However many reports arrive together and however their ancestries overlap, they
\* never wait for each other in a circle: that takes a request of another kind
\* (ORDER BY id FOR UPDATE, /agent-grants/:grantId/usage).
THEOREM ReportsNeverDeadlockAlways == Spec => []ReportsNeverDeadlock
<1>1. Init => LocksInOrder
  BY DEF Init, LocksInOrder, Idle
<1>2. GrantInv => TypeOK
  BY DEF GrantInv
<1>3. TypeOK /\ LocksInOrder /\ [Next]_vars => LocksInOrder'
  BY NextKeepsOrder
<1>4. GrantInv /\ LocksInOrder => ReportsNeverDeadlock
  BY OrderExcludesDeadlock
<1> QED
  BY <1>1, <1>2, <1>3, <1>4, GrantInvariant, PTL DEF Spec
=============================================================================
