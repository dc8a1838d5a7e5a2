--------------------------- MODULE SequenceInjective --------------------------
(***************************************************************************)
(* Lemmas on sequences without repetitions, as the pool's deque of         *)
(* connections (lines_db.cpp) and fetch_delta's list of sports            *)
(* (lines_provider.cpp) are used: pop_front and emplace_back keep a       *)
(* sequence injective and move exactly one element out of or into its     *)
(* range, and an injective sequence over a finite set is no longer than   *)
(* the set.                                                                *)
(***************************************************************************)
EXTENDS Naturals, Sequences, Functions, SequenceTheorems, FiniteSetTheorems, TLAPS

LEMMA TailInjective ==
    ASSUME NEW S, NEW s \in Seq(S), s # << >>, IsInjective(s)
    PROVE  /\ IsInjective(Tail(s))
           /\ Range(Tail(s)) = Range(s) \ {Head(s)}
<1>1. /\ Tail(s) \in Seq(S)
      /\ Len(Tail(s)) = Len(s) - 1
      /\ \A i \in 1..Len(s) - 1 : Tail(s)[i] = s[i + 1]
      /\ Head(s) = s[1]
      /\ Len(s) \in Nat \ {0}
      /\ DOMAIN s = 1..Len(s)
      /\ DOMAIN Tail(s) = 1..Len(s) - 1
    BY HeadTailProperties, EmptySeq, LenProperties
<1>2. IsInjective(Tail(s))
    BY <1>1 DEF IsInjective
<1>3. Range(Tail(s)) \subseteq Range(s) \ {Head(s)}
    BY <1>1 DEF Range, IsInjective
<1>4. Range(s) \ {Head(s)} \subseteq Range(Tail(s))
    <2> SUFFICES ASSUME NEW i \in 1..Len(s), s[i] # s[1]
                 PROVE  s[i] \in Range(Tail(s))
        BY <1>1 DEF Range
    <2>1. i - 1 \in 1..Len(s) - 1 /\ Tail(s)[i - 1] = s[i]
        BY <1>1
    <2>2. QED  BY <2>1, <1>1 DEF Range
<1>5. QED  BY <1>2, <1>3, <1>4
LEMMA AppendInjectiveFresh ==
    ASSUME NEW S, NEW s \in Seq(S), NEW x \in S, IsInjective(s), x \notin Range(s)
    PROVE  /\ IsInjective(Append(s, x))
           /\ Range(Append(s, x)) = Range(s) \cup {x}
<1>1. /\ Append(s, x) \in Seq(S)
      /\ Len(Append(s, x)) = Len(s) + 1
      /\ \A i \in 1..Len(s) : Append(s, x)[i] = s[i]
      /\ Append(s, x)[Len(s) + 1] = x
      /\ Len(s) \in Nat
    BY AppendProperties
<1>2. IsInjective(Append(s, x))
    BY <1>1 DEF IsInjective, Range
<1>3. Range(Append(s, x)) = Range(s) \cup {x}
    BY <1>1 DEF Range
<1>4. QED  BY <1>2, <1>3

LEMMA InjectiveLen ==
    ASSUME NEW T, IsFiniteSet(T), NEW s \in Seq(T), IsInjective(s)
    PROVE  Len(s) <= Cardinality(T)
<1>1. Len(s) \in Nat /\ s \in [1..Len(s) -> T]
    BY LenProperties
<1>2. s \in Injection(1..Len(s), T)
    BY <1>1 DEF Injection, IsInjective
<1>3. Cardinality(1..Len(s)) <= Cardinality(T)
    BY <1>2, FS_Injection
<1>4. Cardinality(1..Len(s)) = Len(s)
    BY <1>1, FS_Interval
<1>5. QED  BY <1>3, <1>4

=============================================================================
