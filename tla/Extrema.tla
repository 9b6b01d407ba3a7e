------------------------------- MODULE Extrema -------------------------------
(***************************************************************************)
(* Max and Min of FiniteSetsExt are what their names say, also where SQL   *)
(* takes them: the largest rowid, the next key, the last row of a batch.   *)
(***************************************************************************)
EXTENDS FiniteSetsExt, FiniteSetTheorems, TLAPS

Within(C, B) == C \subseteq B /\ C # B

\* Among some parts of a finite set one includes no other.
LEMMA Innermost ==
  ASSUME NEW S, IsFiniteSet(S), NEW Sets \in SUBSET SUBSET S, Sets # {}
  PROVE  \E B \in Sets : \A C \in Sets : ~Within(C, B)
<1>1. Sets \subseteq FiniteSubsetsOf(S)
  BY FS_FiniteSubsetsOfFinite
<1>2. IsWellFoundedOn(StrictSubsetOrdering(S), FiniteSubsetsOf(S))
  BY FS_StrictSubsetOrderingWellFounded
<1>3. PICK B \in Sets : \A C \in Sets : <<C, B>> \notin StrictSubsetOrdering(S)
  BY <1>1, <1>2, WFMin
<1>4. \A C \in Sets : ~Within(C, B)
  BY <1>3 DEF StrictSubsetOrdering, Within
<1> QED  BY <1>4

\* A finite set of integers has a largest and a smallest member.
LEMMA Extremes ==
  ASSUME NEW S \in SUBSET Int, IsFiniteSet(S), S # {}
  PROVE  /\ \E x \in S : \A y \in S : x >= y
         /\ \E x \in S : \A y \in S : x <= y
<1> DEFINE Above(x) == {k \in S : k > x}
           Below(x) == {k \in S : k < x}
<1>1. PICK x \in S : \A y \in S : ~Within(Above(y), Above(x))
  <2> DEFINE Sets == {Above(y) : y \in S}
  <2>1. Sets \in SUBSET SUBSET S /\ Sets # {}
    OBVIOUS
  <2>2. \A y \in S : Above(y) \in Sets
    OBVIOUS
  <2>3. \A B \in Sets : \E y \in S : B = Above(y)
    OBVIOUS
  <2> HIDE DEF Sets, Above
  <2>4. PICK B \in Sets : \A C \in Sets : ~Within(C, B)
    BY <2>1, Innermost
  <2> QED  BY <2>2, <2>3, <2>4
<1>2. PICK z \in S : \A y \in S : ~Within(Below(y), Below(z))
  <2> DEFINE Sets == {Below(y) : y \in S}
  <2>1. Sets \in SUBSET SUBSET S /\ Sets # {}
    OBVIOUS
  <2>2. \A y \in S : Below(y) \in Sets
    OBVIOUS
  <2>3. \A B \in Sets : \E y \in S : B = Below(y)
    OBVIOUS
  <2> HIDE DEF Sets, Below
  <2>4. PICK B \in Sets : \A C \in Sets : ~Within(C, B)
    BY <2>1, Innermost
  <2> QED  BY <2>2, <2>3, <2>4
<1>3. \A y \in S : y \in Int
  OBVIOUS
<1>4. \A y \in S : x >= y
  <2> SUFFICES ASSUME NEW y \in S, y > x PROVE FALSE
    BY <1>3
  <2>1. y \in Above(x) /\ y \notin Above(y)
    BY <1>3
  <2>2. \A k \in S : k > y => k > x
    BY <1>3
  <2>3. Above(y) \subseteq Above(x)
    BY <2>2
  <2> HIDE DEF Above
  <2> QED  BY <1>1, <2>1, <2>3 DEF Within
<1>5. \A y \in S : z <= y
  <2> SUFFICES ASSUME NEW y \in S, y < z PROVE FALSE
    BY <1>3
  <2>1. y \in Below(z) /\ y \notin Below(y)
    BY <1>3
  <2>2. \A k \in S : k < y => k < z
    BY <1>3
  <2>3. Below(y) \subseteq Below(z)
    BY <2>2
  <2> HIDE DEF Below
  <2> QED  BY <1>2, <2>1, <2>3 DEF Within
<1> QED  BY <1>4, <1>5

\* The largest member is a member, and none is larger.
LEMMA MaxIsMember ==
  ASSUME NEW S \in SUBSET Int, IsFiniteSet(S), S # {}
  PROVE  Max(S) \in S /\ \A y \in S : Max(S) >= y
BY Extremes DEF Max

\* The smallest member is a member, and none is smaller.
LEMMA MinIsMember ==
  ASSUME NEW S \in SUBSET Int, IsFiniteSet(S), S # {}
  PROVE  Min(S) \in S /\ \A y \in S : Min(S) <= y
BY Extremes DEF Min
=============================================================================
