------------------------ MODULE ConnectionPoolProofs ------------------------
(***************************************************************************)
(* Proofs about ConnectionPool for every Capacity, Attempts and set of     *)
(* Threads: the pool's type and its lease exclusivity (LeaseExclusive) are *)
(* invariants of Spec.                                                     *)
(*                                                                         *)
(* LeaseExclusive is inductive together with TypeOK, but TypeOK is not     *)
(* inductive alone: that "++m_curr" in Release stays within Capacity needs *)
(* the leased connection to be missing from the injective deque, so that   *)
(* the deque is shorter than Capacity. The two are proved together as IInv.*)
(***************************************************************************)
EXTENDS ConnectionPool, SequenceInjective, TLAPS

-----------------------------------------------------------------------------
(* The inductive invariant.                                                *)
IInv == TypeOK /\ LeaseExclusive

USE PoolAssumption

LEMMA InitIInv == Init => IInv
<1> SUFFICES ASSUME Init PROVE IInv  OBVIOUS
<1>1. pool \in Seq(Conns) /\ Len(pool) = Capacity
    BY DEF Init, Conns
<1>2. TypeOK
    <2>1. curr \in 0..Capacity
        BY PoolAssumption DEF Init
    <2>5. crashed \in BOOLEAN
        BY DEF Init
    <2>2. pc \in [Threads -> PCs] /\ result \in [Threads -> Results]
        BY DEF Init, PCs, Results
    <2>3. attempts \in [Threads -> 0..Attempts] /\ conn \in [Threads -> Conns \cup {NoConn}]
        BY DEF Init
    <2>4. QED  BY <1>1, <2>1, <2>2, <2>3, <2>5 DEF TypeOK
<1>3. Holders = {}
    BY DEF Init, Holders
<1>4. LeaseExclusive
    BY <1>1, <1>3 DEF Init, LeaseExclusive, IsInjective, Range, Conns
<1>5. QED  BY <1>2, <1>4 DEF IInv

(* A leased connection is one of Conns, and while one is leased the deque  *)
(* is shorter than Capacity.                                               *)
LEMMA LeasedBound ==
    ASSUME IInv, NEW t \in Holders
    PROVE  /\ conn[t] \in Conns
           /\ Len(pool) < Capacity
<1>1. conn[t] \in Conns
    BY DEF IInv, LeaseExclusive
<1>2. pool \in Seq(Conns \ {conn[t]}) /\ IsInjective(pool)
    <2>1. pool \in Seq(Conns) /\ conn[t] \notin Range(pool) /\ IsInjective(pool)
        BY DEF IInv, LeaseExclusive, TypeOK
    <2>2. \A i \in 1..Len(pool) : pool[i] \in Conns \ {conn[t]}
        BY <2>1 DEF Range
    <2>3. QED  BY <2>1, <2>2
<1>3. IsFiniteSet(Conns \ {conn[t]}) /\ Cardinality(Conns \ {conn[t]}) = Capacity - 1
    <2>1. IsFiniteSet(Conns) /\ Cardinality(Conns) = Capacity
        BY FS_Interval DEF Conns
    <2>2. QED  BY <1>1, <2>1, FS_RemoveElement
<1>4. Len(pool) <= Capacity - 1
    BY <1>2, <1>3, InjectiveLen
<1>5. QED  BY <1>1, <1>4

-----------------------------------------------------------------------------
(* The steps that change only a thread's place, its attempts or its result *)
(* and keep it out of, or in, Holders.                                     *)
LEMMA QuietStep ==
    ASSUME IInv, NEW t \in Threads,
           UNCHANGED <<pool, curr>>,
           conn' \in [Threads -> Conns \cup {NoConn}],
           \A u \in Threads : pc[u] = "holding" => conn'[u] = conn[u],
           pc' \in [Threads -> PCs], attempts' \in [Threads -> 0..Attempts],
           result' \in [Threads -> Results], crashed' \in BOOLEAN,
           \A u \in Threads : (pc'[u] = "holding") <=> (pc[u] = "holding")
    PROVE  IInv'
<1>1. Holders' = Holders
    BY DEF Holders
<1>2. TypeOK'
    BY DEF IInv, TypeOK
<1>3. {conn'[u] : u \in Holders'} = {conn[u] : u \in Holders}
    BY <1>1 DEF Holders
<1>4. LeaseExclusive'
    BY <1>1, <1>3 DEF IInv, LeaseExclusive, Holders
<1>5. QED  BY <1>2, <1>4 DEF IInv

LEMMA NextIInv == IInv /\ [Next]_vars => IInv'
<1> SUFFICES ASSUME IInv, [Next]_vars PROVE IInv'  OBVIOUS
<1>0. TypeOK  BY DEF IInv
<1>1. CASE \E t \in Threads : Begin(t)
    <2> PICK t \in Threads : Begin(t)  BY <1>1
    <2>1. /\ UNCHANGED <<pool, curr, result, crashed>>
          /\ pc' \in [Threads -> PCs]
          /\ attempts' \in [Threads -> 0..Attempts]
          /\ conn' \in [Threads -> Conns \cup {NoConn}]
        BY <1>0, PoolAssumption DEF Begin, TypeOK, PCs
    <2>2. \A u \in Threads : /\ (pc'[u] = "holding") <=> (pc[u] = "holding")
                             /\ pc[u] = "holding" => conn'[u] = conn[u]
        BY <1>0 DEF Begin, TypeOK
    <2> QED  BY <1>0, <2>1, <2>2, QuietStep DEF TypeOK
<1>2. CASE \E t \in Threads : LoopTest(t)
    <2> PICK t \in Threads : LoopTest(t)  BY <1>2
    <2>1. /\ UNCHANGED <<pool, curr, result, crashed, conn>>
          /\ pc' \in [Threads -> PCs]
          /\ attempts' \in [Threads -> 0..Attempts]
        BY <1>0 DEF LoopTest, TypeOK, PCs
    <2>2. \A u \in Threads : (pc'[u] = "holding") <=> (pc[u] = "holding")
        BY <1>0 DEF LoopTest, TypeOK
    <2> QED  BY <1>0, <2>1, <2>2, QuietStep DEF TypeOK
<1>3. CASE \E t \in Threads : GiveUp(t)
    <2> PICK t \in Threads : GiveUp(t)  BY <1>3
    <2> QED  BY <1>0, QuietStep DEF GiveUp, TypeOK, Results, PCs
<1>4. CASE \E t \in Threads : PopEmpty(t)
    <2> PICK t \in Threads : PopEmpty(t)  BY <1>4
    <2> QED  BY <1>0, QuietStep DEF PopEmpty, TypeOK, PCs
<1>6. CASE \E t \in Threads : PopTake(t)
    <2> PICK t \in Threads : PopTake(t)  BY <1>6
    <2>1. /\ pool \in Seq(Conns) /\ pool # << >> /\ IsInjective(pool)
          /\ curr = Len(pool)
        BY DEF PopTake, IInv, TypeOK, LeaseExclusive
    <2>2. /\ IsInjective(pool')
          /\ Range(pool') = Range(pool) \ {Head(pool)}
          /\ pool' \in Seq(Conns)
          /\ Head(pool) \in Range(pool)
          /\ Len(pool') = Len(pool) - 1
        <3>1. pool' = Tail(pool)  BY DEF PopTake
        <3>2. IsInjective(Tail(pool)) /\ Range(Tail(pool)) = Range(pool) \ {Head(pool)}
            BY <2>1, TailInjective
        <3>3. Tail(pool) \in Seq(Conns) /\ Len(Tail(pool)) = Len(pool) - 1
              /\ Head(pool) = pool[1] /\ DOMAIN pool = 1..Len(pool) /\ Len(pool) # 0
            BY <2>1, HeadTailProperties, EmptySeq, LenProperties
        <3>4. Head(pool) \in Range(pool)
            BY <3>3 DEF Range
        <3>5. QED  BY <3>1, <3>2, <3>3, <3>4
    <2>3. pc[t] # "holding"
        BY DEF PopTake
    <2>4. Holders' = Holders \cup {t}
        BY <1>0 DEF PopTake, Holders, TypeOK
    <2>5. \A u \in Holders : conn'[u] = conn[u]
        BY <2>3, <1>0 DEF PopTake, Holders, TypeOK
    <2>6. conn'[t] = Head(pool)
        BY <1>0 DEF PopTake, TypeOK
    <2>7. TypeOK'
        BY <1>0, <2>1, <2>2, <2>6, LenProperties DEF PopTake, TypeOK, PCs, Range
    <2>8. LeaseExclusive'
        <3>1. \A u \in Holders' : conn'[u] \notin Range(pool')
            BY <2>2, <2>4, <2>5, <2>6 DEF IInv, LeaseExclusive
        <3>2. \A u1, u2 \in Holders' : u1 # u2 => conn'[u1] # conn'[u2]
            BY <2>2, <2>3, <2>4, <2>5, <2>6 DEF IInv, LeaseExclusive, Holders
        <3>3. Range(pool') \cup {conn'[u] : u \in Holders'} = Conns
            BY <2>2, <2>4, <2>5, <2>6 DEF IInv, LeaseExclusive
        <3>4. curr' = Len(pool')
            BY <2>1, <2>2 DEF PopTake
        <3>5. QED  BY <2>2, <3>1, <3>2, <3>3, <3>4 DEF LeaseExclusive
    <2>9. QED  BY <2>7, <2>8 DEF IInv
<1>7. CASE \E t \in Threads : Release(t)
    <2> PICK t \in Threads : Release(t)  BY <1>7
    <2>0. t \in Holders
        BY DEF Release, Holders
    <2>1. /\ conn[t] \in Conns /\ Len(pool) < Capacity
          /\ pool \in Seq(Conns) /\ IsInjective(pool)
          /\ conn[t] \notin Range(pool) /\ curr = Len(pool)
        BY <2>0, LeasedBound DEF IInv, TypeOK, LeaseExclusive
    <2>2. /\ IsInjective(pool')
          /\ Range(pool') = Range(pool) \cup {conn[t]}
          /\ pool' \in Seq(Conns)
          /\ Len(pool') = Len(pool) + 1
        BY <2>1, AppendInjectiveFresh, AppendProperties DEF Release
    <2>3. Holders' = Holders \ {t}
        BY <1>0 DEF Release, Holders, TypeOK
    <2>4. \A u \in Holders' : conn'[u] = conn[u]
        BY <2>3, <1>0 DEF Release, TypeOK
    <2>5. TypeOK'
        BY <1>0, <2>1, <2>2, LenProperties DEF Release, TypeOK, PCs, Results
    <2>6. LeaseExclusive'
        <3>1. \A u \in Holders' : conn'[u] \notin Range(pool')
            BY <2>0, <2>2, <2>3, <2>4 DEF IInv, LeaseExclusive
        <3>2. \A u1, u2 \in Holders' : u1 # u2 => conn'[u1] # conn'[u2]
            BY <2>3, <2>4 DEF IInv, LeaseExclusive
        <3>3. Range(pool') \cup {conn'[u] : u \in Holders'} = Conns
            BY <2>0, <2>2, <2>3, <2>4 DEF IInv, LeaseExclusive
        <3>4. curr' = Len(pool')
            BY <2>1, <2>2 DEF Release
        <3>5. QED  BY <2>2, <3>1, <3>2, <3>3, <3>4 DEF LeaseExclusive
    <2>7. QED  BY <2>5, <2>6 DEF IInv
<1>8. CASE Destroy \/ Stopped \/ UNCHANGED vars
    <2>1. UNCHANGED <<pool, curr, conn, pc, attempts, result>> /\ crashed' \in BOOLEAN
        BY <1>0, <1>8 DEF Destroy, Stopped, vars, TypeOK
    <2>2. Holders' = Holders  BY <2>1 DEF Holders
    <2>3. TypeOK'  BY <2>1 DEF IInv, TypeOK
    <2>4. LeaseExclusive'  BY <2>1, <2>2 DEF IInv, LeaseExclusive
    <2>5. QED  BY <2>3, <2>4 DEF IInv
<1>9. QED
    BY <1>1, <1>2, <1>3, <1>4, <1>6, <1>7, <1>8 DEF Next, Step

-----------------------------------------------------------------------------
(* The pool's state always has its type, for every Capacity, Attempts and  *)
(* set of Threads (TypeOK of the ConnectionPool run).                      *)
THEOREM TypeCorrect == Spec => []TypeOK
<1>1. IInv => TypeOK  BY DEF IInv
<1>2. QED  BY InitIInv, NextIInv, <1>1, PTL DEF Spec

(* pop() and the accessor's push() never lease one connection to two      *)
(* accessors, never lose one, and keep m_curr equal to the idle count,     *)
(* whatever the interleaving of the threads and the destructor            *)
(* (LeaseExclusive of the ConnectionPool run).                             *)
THEOREM LeaseExclusiveHolds == Spec => []LeaseExclusive
<1>1. IInv => LeaseExclusive  BY DEF IInv
<1>2. QED  BY InitIInv, NextIInv, <1>1, PTL DEF Spec

=============================================================================
