--------------------------- MODULE ConnectionPool ---------------------------
(***************************************************************************)
(* The storage connection pool of lines_db (src/src/lines/db/lines_db.cpp): *)
(* connection_pool (pop, push, destructor), the scoped accessor that       *)
(* retries pop a bounded number of times, and the lines_db operations      *)
(* (add_line, rem_line, update_line, last_score, fetch_score) that each    *)
(* open an accessor, run one statement and release the connection.        *)
(*                                                                         *)
(* The five lines_db operations have the same shape with respect to the    *)
(* pool; they are one operation here whose statement succeeds or fails.   *)
(* A connection is a number in 1..Capacity, the order the constructor     *)
(* pushed them in.                                                         *)
(*                                                                         *)
(* connection_pool's m_logger (lines_db.hpp:120) is set by no constructor, *)
(* so ~connection_pool dies on its first line, before m_drainig.store(true)*)
(* (line 237), the only write of m_drainig. m_drainig is therefore always  *)
(* false: pop()'s draining branch and the destructor's spin never run, and *)
(* are not part of the model.                                              *)
(***************************************************************************)
EXTENDS Naturals, Sequences, Functions

CONSTANTS
    Threads,    \* the threads calling lines_db operations
    Capacity,   \* connection_pool size (2 * hardware_concurrency)
    Attempts,   \* accessor attempts (100 in lines_db)
    NoConn      \* an accessor holding no connection (nullptr)

ASSUME PoolAssumption ==
    /\ Capacity \in Nat \ {0}
    /\ Attempts \in Nat \ {0}
    /\ NoConn \notin Nat

Conns == 1..Capacity

(* Where a thread is in lines_db::<op> and the accessor it constructs.     *)
(*  idle     : not inside an operation                                     *)
(*  loop     : at the head of the accessor's "while (attemps--)" loop      *)
(*  pop      : in pop(), its m_drainig test passed, before taking m_lock   *)
(*  holding  : the accessor holds a connection, the statement runs         *)
PCs == {"idle", "loop", "pop", "holding"}

Results == {"none", "success", "fail", "insufficient_resources"}

VARIABLES
    pool,       \* m_pool, the FIFO deque of idle connections
    curr,       \* m_curr
    pc,         \* pc[t]: where thread t is
    attempts,   \* attempts[t]: the accessor's remaining attemps
    conn,       \* conn[t]: the accessor's m_connection
    result,     \* result[t]: the errc the last operation of t returned
    crashed     \* the process died in ~connection_pool

vars == <<pool, curr, pc, attempts, conn, result, crashed>>

TypeOK ==
    /\ pool \in Seq(Conns)
    /\ curr \in 0..Capacity
    /\ pc \in [Threads -> PCs]
    /\ attempts \in [Threads -> 0..Attempts]
    /\ conn \in [Threads -> Conns \cup {NoConn}]
    /\ result \in [Threads -> Results]
    /\ crashed \in BOOLEAN

(* connection_pool::connection_pool pushes Capacity fresh connections.     *)
Init ==
    /\ pool = [i \in 1..Capacity |-> i]
    /\ curr = Capacity
    /\ pc = [t \in Threads |-> "idle"]
    /\ attempts = [t \in Threads |-> 0]
    /\ conn = [t \in Threads |-> NoConn]
    /\ result = [t \in Threads |-> "none"]
    /\ crashed = FALSE

-----------------------------------------------------------------------------
(* lines_db::<op> constructs accessor(m_logger, *m_pool, 100, 1s).         *)
Begin(t) ==
    /\ pc[t] = "idle"
    /\ pc' = [pc EXCEPT ![t] = "loop"]
    /\ attempts' = [attempts EXCEPT ![t] = Attempts]
    /\ conn' = [conn EXCEPT ![t] = NoConn]
    /\ UNCHANGED <<pool, curr, result, crashed>>

(* Mutant: the loop tests attemps without decrementing it.                  *)
MutLoopTestNoDecrement(t) ==
    /\ pc[t] = "loop"
    /\ attempts[t] > 0
    /\ pc' = [pc EXCEPT ![t] = "pop"]
    /\ UNCHANGED <<pool, curr, attempts, conn, result, crashed>>

(* Mutant: the loop head is tested one attempt too late (>= 0).           *)
MutLoopTestOffByOne(t) ==
    /\ pc[t] = "loop"
    /\ attempts[t] >= 0
    /\ attempts' = [attempts EXCEPT ![t] = @ - 1]
    /\ pc' = [pc EXCEPT ![t] = "pop"]
    /\ UNCHANGED <<pool, curr, conn, result, crashed>>

(* while (attemps--): an attempt is left, call pop(), whose unlocked test  *)
(* of m_drainig finds it false.                                            *)
LoopTest(t) ==
    /\ pc[t] = "loop"
    /\ attempts[t] > 0
    /\ attempts' = [attempts EXCEPT ![t] = @ - 1]
    /\ pc' = [pc EXCEPT ![t] = "pop"]
    /\ UNCHANGED <<pool, curr, conn, result, crashed>>

(* The loop ends without a connection: the accessor throws no_resource and *)
(* lines_db returns insufficient_resources.                                *)
GiveUp(t) ==
    /\ pc[t] = "loop"
    /\ attempts[t] = 0
    /\ pc' = [pc EXCEPT ![t] = "idle"]
    /\ result' = [result EXCEPT ![t] = "insufficient_resources"]
    /\ UNCHANGED <<pool, curr, attempts, conn, crashed>>

(* Mutant: pop() takes the front without pop_front().                      *)
MutPopTakeKeepsFront(t) ==
    /\ pc[t] = "pop"
    /\ pool # << >>
    /\ conn' = [conn EXCEPT ![t] = Head(pool)]
    /\ curr' = curr - 1
    /\ pc' = [pc EXCEPT ![t] = "holding"]
    /\ UNCHANGED <<pool, attempts, result, crashed>>

(* pop() under m_lock, the deque non-empty: take the front, --m_curr; the  *)
(* accessor breaks out of its loop.                                        *)
PopTake(t) ==
    /\ pc[t] = "pop"
    /\ pool # << >>
    /\ conn' = [conn EXCEPT ![t] = Head(pool)]
    /\ pool' = Tail(pool)
    /\ curr' = curr - 1
    /\ pc' = [pc EXCEPT ![t] = "holding"]
    /\ UNCHANGED <<attempts, result, crashed>>

(* pop() under m_lock, the deque empty: return nullptr; the accessor      *)
(* sleeps for its wait interval and goes back to the loop head.            *)
PopEmpty(t) ==
    /\ pc[t] = "pop"
    /\ pool = << >>
    /\ pc' = [pc EXCEPT ![t] = "loop"]
    /\ UNCHANGED <<pool, curr, attempts, conn, result, crashed>>

(* accessor->op(...) runs the statement, its errc is returned, and the     *)
(* accessor's destructor pushes the connection back: m_lock, emplace_back, *)
(* ++m_curr.                                                               *)
Release(t) ==
    /\ pc[t] = "holding"
    /\ \E r \in {"success", "fail"} : result' = [result EXCEPT ![t] = r]
    /\ pool' = Append(pool, conn[t])
    /\ curr' = curr + 1
    /\ conn' = [conn EXCEPT ![t] = NoConn]
    /\ pc' = [pc EXCEPT ![t] = "idle"]
    /\ UNCHANGED <<attempts, crashed>>

(* ~connection_pool, run by ~lines_db when the provider is destroyed:      *)
(* m_logger->info(...) through the pool's null m_logger; the process dies  *)
(* there, whatever the accessors are doing.                                *)
Destroy ==
    /\ crashed' = TRUE
    /\ UNCHANGED <<pool, curr, pc, attempts, conn, result>>

(* The steps of thread t once it is inside an operation.                   *)
Step(t) ==
    \/ LoopTest(t) \/ GiveUp(t)
    \/ PopTake(t) \/ PopEmpty(t)
    \/ Release(t)

(* Nothing more happens once the process has died.                         *)
Stopped ==
    /\ crashed
    /\ UNCHANGED vars

Next ==
    \/ /\ ~crashed
       /\ \/ \E t \in Threads : Begin(t) \/ Step(t)
          \/ Destroy
    \/ Stopped

(* Every thread inside an operation keeps running (an OS thread that is    *)
(* not blocked is scheduled). Starting an operation and destroying the     *)
(* pool are the callers' choice and are not fair.                          *)
Fairness ==
    \A t \in Threads : WF_vars(~crashed /\ Step(t))

Spec == Init /\ [][Next]_vars /\ Fairness

-----------------------------------------------------------------------------
(* The threads holding a connection through their accessor.                *)
Holders == {t \in Threads : pc[t] = "holding"}

(* Lease exclusivity of pop/push: no connection is both idle in m_pool and *)
(* leased, or leased to two accessors, or in m_pool twice; none is lost    *)
(* (every connection the constructor made is idle or leased); and m_curr,  *)
(* which the destructor compares with m_max, counts exactly the idle ones.*)
(* So the pool never hands out more than Capacity connections.           *)
LeaseExclusive ==
    /\ IsInjective(pool)
    /\ \A t \in Holders : conn[t] \notin Range(pool)
    /\ \A t1, t2 \in Holders : t1 # t2 => conn[t1] # conn[t2]
    /\ Range(pool) \cup {conn[t] : t \in Holders} = Conns
    /\ curr = Len(pool)

OperationCompletes ==
    \A t \in Threads : (pc[t] # "idle") ~> (pc[t] = "idle" \/ crashed)

=============================================================================
