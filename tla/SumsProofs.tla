----------------------------- MODULE SumsProofs -----------------------------
(* How Total changes when one key does.  Every counter of the pool is compared
   with a Total, so these are the facts the money proofs rest on. *)
EXTENDS Sums, FiniteSetTheorems, TLAPS

\* A block of n units has n units.
LEMMA BlockSize ==
  ASSUME NEW k, NEW n \in Nat
  PROVE  IsFiniteSet(Block(k, n)) /\ Cardinality(Block(k, n)) = n
  <1>1. IsFiniteSet(1 .. n) /\ Cardinality(1 .. n) = n
    BY FS_Interval
  <1>2. IsFiniteSet({k}) /\ Cardinality({k}) = 1
    BY FS_Singleton
  <1>3. IsFiniteSet({k} \X (1 .. n))
        /\ Cardinality({k} \X (1 .. n)) = Cardinality({k}) * Cardinality(1 .. n)
    <2> DEFINE A == {k}
               B == 1 .. n
    <2>1. IsFiniteSet(A) /\ IsFiniteSet(B)
      BY <1>1, <1>2
    <2> HIDE DEF A, B
    <2>2. IsFiniteSet(A \X B) /\ Cardinality(A \X B) = Cardinality(A) * Cardinality(B)
      BY <2>1, FS_Product
    <2> QED  BY <2>2 DEF A, B
  <1> QED  BY <1>1, <1>2, <1>3 DEF Block

\* A sum over finitely many keys is a natural number.
LEMMA UnitsFinite ==
  ASSUME NEW S, IsFiniteSet(S), NEW f \in [S -> Nat]
  PROVE  IsFiniteSet(Units(f)) /\ Total(f) \in Nat
  <1> DEFINE T == {Block(k, f[k]) : k \in S}
             g == [k \in S |-> Block(k, f[k])]
  <1>1. g \in Surjection(S, T)
    BY DEF Surjection
  <1>2. IsFiniteSet(T)
    BY <1>1, FS_Surjection
  <1>3. \A t \in T : IsFiniteSet(t)
    BY BlockSize
  <1>4. IsFiniteSet(UNION T)
    BY <1>2, <1>3, FS_UNION
  <1>5. Units(f) = UNION T
    BY DEF Units
  <1> QED  BY <1>4, <1>5, FS_CardinalityType DEF Total

\* Changing one key changes the sum by the difference at that key.
LEMMA TotalUpdate ==
  ASSUME NEW S, IsFiniteSet(S), NEW f \in [S -> Nat], NEW k \in S, NEW n \in Nat
  PROVE  Total([f EXCEPT ![k] = n]) = Total(f) - f[k] + n
  <1> DEFINE g == [f EXCEPT ![k] = n]
             rest == Units(f) \ Block(k, f[k])
  <1>1. IsFiniteSet(Units(f)) /\ Total(f) \in Nat
    BY UnitsFinite
  <1>2. Units(f) \cap Block(k, f[k]) = Block(k, f[k])
    <2>1. ASSUME NEW x \in Block(k, f[k]) PROVE x \in Units(f)
      BY <2>1 DEF Units
    <2> QED  BY <2>1
  <1>3. IsFiniteSet(rest) /\ Cardinality(rest) = Total(f) - f[k]
    <2>1. /\ IsFiniteSet(rest)
          /\ Cardinality(rest)
               = Cardinality(Units(f)) - Cardinality(Units(f) \cap Block(k, f[k]))
      BY <1>1, FS_Difference, Zenon
    <2>2. Cardinality(Block(k, f[k])) = f[k]
      <3>1. f[k] \in Nat
        OBVIOUS
      <3> QED  BY <3>1, BlockSize
    <2> QED  BY <1>2, <2>1, <2>2 DEF Total
  <1>4. rest \cap Block(k, n) = {}
    <2> SUFFICES ASSUME NEW x \in rest, x \in Block(k, n) PROVE FALSE
      OBVIOUS
    <2>1. PICK j \in S : x \in Block(j, f[j])
      BY DEF Units
    <2>2. x[1] = j /\ x[1] = k
      BY <2>1 DEF Block
    <2> QED  BY <2>1, <2>2
  <1>5. Units(g) = rest \cup Block(k, n)
    <2>1. ASSUME NEW x \in Units(g) PROVE x \in rest \cup Block(k, n)
      <3>1. PICK j \in S : x \in Block(j, g[j])
        BY <2>1 DEF Units
      <3>2. CASE j = k
        BY <3>1, <3>2
      <3>3. CASE j # k
        <4>1. x \in Block(j, f[j])
          BY <3>1, <3>3
        <4>2. x[1] = j
          BY <4>1 DEF Block
        <4>3. x \notin Block(k, f[k])
          BY <4>2, <3>3 DEF Block
        <4> QED  BY <4>1, <4>3 DEF Units
      <3> QED  BY <3>2, <3>3
    <2>2. ASSUME NEW x \in Block(k, n) PROVE x \in Units(g)
      <3>1. x \in Block(k, g[k]) /\ k \in DOMAIN g
        BY <2>2
      <3> QED  BY <3>1 DEF Units
    <2>3. ASSUME NEW x \in rest PROVE x \in Units(g)
      <3>1. PICK j \in S : x \in Block(j, f[j])
        BY <2>3 DEF Units
      <3>2. j # k
        BY <2>3, <3>1
      <3>3. x \in Block(j, g[j])
        BY <3>1, <3>2
      <3> QED  BY <3>3 DEF Units
    <2> QED  BY <2>1, <2>2, <2>3
  <1>6. Cardinality(Units(g)) = Cardinality(rest) + n - Cardinality({})
    <2>1. IsFiniteSet(Block(k, n)) /\ Cardinality(Block(k, n)) = n
      BY BlockSize
    <2>2. Cardinality(rest \cup Block(k, n))
            = Cardinality(rest) + Cardinality(Block(k, n)) - Cardinality(rest \cap Block(k, n))
      BY <1>3, <2>1, FS_Union, Zenon
    <2> QED  BY <1>4, <1>5, <2>1, <2>2
  <1> QED  BY <1>1, <1>3, <1>6, FS_EmptySet DEF Total

\* The sum of nothing is nothing.
LEMMA TotalZero ==
  ASSUME NEW S
  PROVE  Total([k \in S |-> 0]) = 0
  <1>1. Units([k \in S |-> 0]) = {}
    BY DEF Units, Block
  <1> QED  BY <1>1, FS_EmptySet DEF Total

=============================================================================
