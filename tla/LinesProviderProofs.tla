------------------------ MODULE LinesProviderProofs -------------------------
(***************************************************************************)
(* Proofs about LinesProvider for every set of sports, scores and          *)
(* requests: the provider's type is an invariant, and fetch_delta's deltas *)
(* telescope (DeltasTelescope) for every request that lists each sport at  *)
(* most once.                                                              *)
(*                                                                         *)
(* DeltasTelescope speaks only of the states between fetch_delta calls. In *)
(* the middle of a call a sport already handled has had its last_send      *)
(* moved while its delta is not yet added to told, so the invariant       *)
(* carries that delta (Unsent), and needs a handled sport to be gone from  *)
(* the rest of the request: that is where a sport listed twice breaks it   *)
(* (lines_provider.cpp:158).                                               *)
(***************************************************************************)
EXTENDS LinesProvider, SequenceInjective, TLAPS

(* Every request lists each sport at most once.                            *)
DistinctRequests == \A r \in Requests : IsInjective(r)

(* The delta fetch_delta has taken from s in the call in progress and not  *)
(* yet returned to its caller.                                             *)
Unsent(s) == IF fd.active /\ ~fd.changed /\ fd.out[s] # None THEN fd.out[s] ELSE 0

TelescopeInv ==
    /\ \A s \in Sports : cache[s] = NoEntry => told[s] = 0 /\ fd.out[s] = None
    /\ \A s \in Sports : cache[s] # NoEntry => told[s] + Unsent(s) = cache[s].send
    /\ fd.active => /\ IsInjective(fd.pending)
                    /\ \A s \in Sports : fd.out[s] # None => s \notin Range(fd.pending)

IInv == TypeOK /\ TelescopeInv

USE ProviderAssumption

-----------------------------------------------------------------------------
(* update_cache keeps the cache well typed.                                *)
LEMMA UpdateCacheType ==
    ASSUME NEW c \in [Sports -> Entry \cup {NoEntry}], NEW s \in Sports,
           NEW score \in Scores
    PROVE  UpdateCache(c, s, score) \in [Sports -> Entry \cup {NoEntry}]
BY DEF UpdateCache, Entry, NoEntry

(* A delta and an absolute score are both in Deltas (0 is a score).       *)
LEMMA DeltaType ==
    ASSUME NEW e \in Entry
    PROVE  /\ e.recv - e.send \in Deltas
           /\ e.recv \in Deltas
<1>1. e.recv \in Scores /\ e.send \in Scores  BY DEF Entry
<1>2. e.recv - e.send \in Deltas
    <2>1. \E a, b \in Scores : e.recv - e.send = a - b  BY <1>1
    <2>2. QED  BY <2>1 DEF Deltas
<1>3. e.recv \in Int  BY <1>1
<1>4. e.recv \in Deltas
    <2>1. \E a, b \in Scores : e.recv = a - b  BY <1>1, <1>3
    <2>2. QED  BY <2>1 DEF Deltas
<1>5. QED  BY <1>2, <1>4

LEMMA TypeInit == Init => TypeOK
<1> SUFFICES ASSUME Init PROVE TypeOK  OBVIOUS
<1>1. fd \in [active : BOOLEAN, pending : Seq(Sports), changed : BOOLEAN,
               out : [Sports -> Deltas \cup {None}]]
    <2>1. << >> \in Seq(Sports)  BY EmptySeq
    <2>2. [s \in Sports |-> None] \in [Sports -> Deltas \cup {None}]  OBVIOUS
    <2>3. QED  BY <2>1, <2>2 DEF Init
<1>2. QED  BY <1>1 DEF Init, TypeOK, NoEntry, PollerStates

LEMMA TypeNext == TypeOK /\ [Next]_vars => TypeOK'
<1> SUFFICES ASSUME TypeOK, [Next]_vars PROVE TypeOK'  OBVIOUS
<1>1. ASSUME NEW s \in Sports, Add(s) PROVE TypeOK'
    BY <1>1, UpdateCacheType DEF Add, TypeOK, NoEntry, PollerStates
<1>2. ASSUME NEW s \in Sports, Rem(s) PROVE TypeOK'
    BY <1>2 DEF Rem, TypeOK, NoEntry, PollerStates
<1>3. ASSUME NEW s \in Sports, WaitElapsed(s) \/ PollFail(s) PROVE TypeOK'
    BY <1>3 DEF WaitElapsed, PollFail, TypeOK, NoEntry, PollerStates
<1>4. ASSUME NEW s \in Sports, PollDeliver(s) PROVE TypeOK'
    <2>1. PICK score \in Scores :
              IF phase = "running"
              THEN /\ cache' = UpdateCache(cache, s, score)
                   /\ polled' = [polled EXCEPT ![s] = TRUE]
                   /\ poller' = [poller EXCEPT ![s] = IF stopReq[s] THEN "exited" ELSE "waiting"]
                   /\ UNCHANGED crashed
              ELSE /\ crashed' = TRUE
                   /\ UNCHANGED <<cache, polled, poller>>
        BY <1>4 DEF PollDeliver
    <2>2. CASE phase = "running"
        <3>0. UpdateCache(cache, s, score) \in [Sports -> Entry \cup {NoEntry}]
            BY UpdateCacheType DEF TypeOK
        <3>1. cache' \in [Sports -> Entry \cup {NoEntry}]
            BY <2>1, <2>2, <3>0
        <3>2. poller' \in [Sports -> PollerStates]
            BY <2>1, <2>2 DEF TypeOK, PollerStates
        <3>3. polled' \in [Sports -> BOOLEAN]  BY <2>1, <2>2 DEF TypeOK
        <3>4. QED  BY <1>4, <2>1, <2>2, <3>1, <3>2, <3>3 DEF PollDeliver, TypeOK
    <2>3. CASE phase # "running"
        BY <1>4, <2>1, <2>3 DEF PollDeliver, TypeOK
    <2>4. QED  BY <2>2, <2>3
<1>5. ASSUME NEW req \in Requests, NEW ch \in BOOLEAN, FetchDeltaBegin(req, ch)
      PROVE TypeOK'
    BY <1>5 DEF FetchDeltaBegin, TypeOK, NoEntry, PollerStates
<1>6. CASE FetchDeltaStep
    <2> DEFINE l == Head(fd.pending)
               e == cache[l]
    <2>1. l \in Sports /\ Tail(fd.pending) \in Seq(Sports)
        BY <1>6, HeadTailProperties DEF FetchDeltaStep, TypeOK, NoEntry, PollerStates
    <2>2. CASE e = NoEntry
        BY <1>6, <2>1, <2>2 DEF FetchDeltaStep, TypeOK, NoEntry, PollerStates
    <2>3. CASE e # NoEntry
        <3>1. e \in Entry  BY <2>1, <2>3 DEF TypeOK
        <3>2. e.recv \in Scores  BY <3>1 DEF Entry
        <3>3. e.recv - e.send \in Deltas /\ e.recv \in Deltas  BY <3>1, DeltaType
        <3>4. CASE ~fd.changed
            <4>1. cache' = [cache EXCEPT ![l].send = e.recv]
                  /\ fd' = [fd EXCEPT !.pending = Tail(@), !.out[l] = e.recv - e.send]
                BY <1>6, <2>3, <3>4 DEF FetchDeltaStep
            <4>2. [e EXCEPT !.send = e.recv] \in Entry  BY <3>1, <3>2 DEF Entry
            <4>3. cache' \in [Sports -> Entry \cup {NoEntry}]  BY <2>1, <4>1, <4>2 DEF TypeOK
            <4>4. fd' \in [active : BOOLEAN, pending : Seq(Sports), changed : BOOLEAN,
                            out : [Sports -> Deltas \cup {None}]]
                BY <2>1, <3>3, <4>1 DEF TypeOK
            <4>5. QED  BY <1>6, <4>3, <4>4 DEF FetchDeltaStep, TypeOK
        <3>5. CASE fd.changed
            <4>1. cache' = cache
                  /\ fd' = [fd EXCEPT !.pending = Tail(@), !.out[l] = e.recv]
                BY <1>6, <2>3, <3>5 DEF FetchDeltaStep
            <4>2. fd' \in [active : BOOLEAN, pending : Seq(Sports), changed : BOOLEAN,
                            out : [Sports -> Deltas \cup {None}]]
                BY <2>1, <3>3, <4>1 DEF TypeOK
            <4>3. QED  BY <1>6, <4>1, <4>2 DEF FetchDeltaStep, TypeOK
        <3>6. QED  BY <3>4, <3>5
    <2>4. QED  BY <2>2, <2>3
<1>7. CASE FetchDeltaReturn
    <2>1. \A s \in Sports : fd.out[s] # None => fd.out[s] \in Int
        BY DEF TypeOK, Deltas
    <2>2. told' \in [Sports -> Int]  BY <1>7, <2>1 DEF FetchDeltaReturn, TypeOK
    <2>3. fd' \in [active : BOOLEAN, pending : Seq(Sports), changed : BOOLEAN,
                    out : [Sports -> Deltas \cup {None}]]
        BY <1>7 DEF FetchDeltaReturn, TypeOK
    <2>4. QED  BY <1>7, <2>2, <2>3 DEF FetchDeltaReturn, TypeOK
<1>8. ASSUME NEW s \in Sports, StopPoller(s) PROVE TypeOK'
    BY <1>8 DEF StopPoller, TypeOK, NoEntry, PollerStates
<1>9. CASE DestroyCache \/ JoinPoller \/ Destroyed \/ Stopped \/ UNCHANGED vars
    BY <1>9 DEF DestroyCache, JoinPoller, Destroyed, Stopped, vars, TypeOK, NoEntry, PollerStates
<1>10. QED
    BY <1>1, <1>2, <1>3, <1>4, <1>5, <1>6, <1>7, <1>8, <1>9
    DEF Next, Internal, External

(* Every reachable provider state is well typed: the cache holds entries   *)
(* of scores, fetch_delta's map holds deltas, and the sums told to the     *)
(* writer are integers.                                                    *)
THEOREM ProviderTypeCorrect == Spec => []TypeOK
BY TypeInit, TypeNext, PTL DEF Spec

-----------------------------------------------------------------------------
(* The steps that touch last_send only by creating an entry with           *)
(* last_send = 0 keep the telescope: add, and a poll's update_cache.       *)
SendKept ==
    \A x \in Sports :
        IF cache[x] = NoEntry
        THEN cache'[x] = NoEntry \/ cache'[x].send = 0
        ELSE cache'[x] # NoEntry /\ cache'[x].send = cache[x].send

LEMMA UpdateCacheSendKept ==
    ASSUME TypeOK, NEW s \in Sports, NEW score \in Scores,
           cache' = UpdateCache(cache, s, score)
    PROVE  SendKept
<1>1. CASE cache[s] = NoEntry
    <2>1. cache' = [cache EXCEPT ![s] = [inited |-> FALSE, recv |-> score, send |-> 0]]
        BY <1>1 DEF UpdateCache
    <2>2. SUFFICES ASSUME NEW x \in Sports
                   PROVE  IF cache[x] = NoEntry
                          THEN cache'[x] = NoEntry \/ cache'[x].send = 0
                          ELSE cache'[x] # NoEntry /\ cache'[x].send = cache[x].send
        BY DEF SendKept
    <2>3. CASE x = s
        <3>1. cache'[x] = [inited |-> FALSE, recv |-> score, send |-> 0]  BY <2>1, <2>3 DEF TypeOK
        <3>2. QED  BY <1>1, <2>3, <3>1
    <2>4. CASE x # s  BY <2>1, <2>4 DEF TypeOK
    <2>5. QED  BY <2>3, <2>4
<1>2. CASE cache[s] # NoEntry
    <2>1. cache[s] \in Entry  BY <1>2 DEF TypeOK
    <2>2. cache' = [cache EXCEPT ![s] = [cache[s] EXCEPT !.inited = TRUE, !.recv = score]]
        BY <1>2 DEF UpdateCache
    <2>3. [cache[s] EXCEPT !.inited = TRUE, !.recv = score] \in Entry  BY <2>1 DEF Entry
    <2>4. [cache[s] EXCEPT !.inited = TRUE, !.recv = score] # NoEntry
        BY <2>3, ProviderAssumption DEF NoEntry
    <2>5. SUFFICES ASSUME NEW x \in Sports
                   PROVE  IF cache[x] = NoEntry
                          THEN cache'[x] = NoEntry \/ cache'[x].send = 0
                          ELSE cache'[x] # NoEntry /\ cache'[x].send = cache[x].send
        BY DEF SendKept
    <2>6. CASE x = s
        <3>1. cache'[x] = [cache[s] EXCEPT !.inited = TRUE, !.recv = score]  BY <2>2, <2>6 DEF TypeOK
        <3>2. cache'[x].send = cache[x].send  BY <2>1, <2>6, <3>1 DEF Entry
        <3>3. QED  BY <1>2, <2>4, <2>6, <3>1, <3>2
    <2>7. CASE x # s  BY <2>2, <2>7 DEF TypeOK
    <2>8. QED  BY <2>6, <2>7
<1>3. QED  BY <1>1, <1>2

LEMMA CacheStep ==
    ASSUME IInv, SendKept, UNCHANGED <<fd, told>>
    PROVE  TelescopeInv'
<1>1. \A x \in Sports : Unsent(x)' = Unsent(x)  BY DEF Unsent
<1>2. \A x \in Sports : cache[x] = NoEntry /\ cache'[x] # NoEntry
                          => told[x] + Unsent(x) = 0 /\ cache'[x].send = 0
    BY DEF SendKept, IInv, TelescopeInv, Unsent
<1>3. QED  BY <1>1, <1>2 DEF SendKept, IInv, TelescopeInv

LEMMA QuietTelescope ==
    ASSUME IInv, UNCHANGED <<cache, fd, told>>
    PROVE  TelescopeInv'
BY DEF IInv, TelescopeInv, Unsent

LEMMA InitTelescope == Init => TelescopeInv
BY DEF Init, TelescopeInv, Unsent, NoEntry

LEMMA NextTelescope ==
    ASSUME DistinctRequests, IInv, [Next]_vars
    PROVE  TelescopeInv'
<1>0. TypeOK /\ TelescopeInv  BY DEF IInv
<1>1. ASSUME NEW s \in Sports, Add(s) PROVE TelescopeInv'
    BY <1>0, <1>1, UpdateCacheSendKept, CacheStep, ProviderAssumption DEF Add
<1>2. ASSUME NEW s \in Sports, PollDeliver(s) PROVE TelescopeInv'
    <2>1. PICK score \in Scores :
              IF phase = "running"
              THEN cache' = UpdateCache(cache, s, score)
              ELSE UNCHANGED cache
        BY <1>2 DEF PollDeliver
    <2>2. UNCHANGED <<fd, told>>  BY <1>2 DEF PollDeliver
    <2>3. CASE phase = "running"
        BY <1>0, <2>1, <2>2, <2>3, UpdateCacheSendKept, CacheStep
    <2>4. CASE phase # "running"
        BY <2>1, <2>2, <2>4, QuietTelescope
    <2>5. QED  BY <2>3, <2>4
<1>3. ASSUME NEW req \in Requests, NEW ch \in BOOLEAN, FetchDeltaBegin(req, ch)
      PROVE TelescopeInv'
    <2>1. \A x \in Sports : fd'.out[x] = None /\ Unsent(x)' = 0
        BY <1>3 DEF FetchDeltaBegin, Unsent
    <2>2. \A x \in Sports : cache[x] # NoEntry => told[x] = cache[x].send
        BY <1>0, <1>3 DEF FetchDeltaBegin, TelescopeInv, Unsent, TypeOK
    <2>3. IsInjective(fd'.pending)  BY <1>3 DEF FetchDeltaBegin, DistinctRequests
    <2>4. UNCHANGED <<cache, told>>  BY <1>3 DEF FetchDeltaBegin
    <2>5. \A x \in Sports : told[x] \in Int  BY <1>0 DEF TypeOK
    <2>6. \A x \in Sports : cache'[x] = NoEntry => told'[x] = 0 /\ fd'.out[x] = None
        BY <1>0, <2>1, <2>4 DEF TelescopeInv
    <2>7. \A x \in Sports : cache'[x] # NoEntry => told'[x] + Unsent(x)' = cache'[x].send
        BY <2>1, <2>2, <2>4, <2>5
    <2>8. fd'.active => \A x \in Sports : fd'.out[x] # None => x \notin Range(fd'.pending)
        BY <2>1
    <2>9. QED  BY <2>3, <2>6, <2>7, <2>8 DEF TelescopeInv
<1>4. CASE FetchDeltaStep
    <2> PICK l : l = Head(fd.pending)  OBVIOUS
    <2> DEFINE e == cache[l]
               v == IF fd.changed THEN e.recv ELSE e.recv - e.send
    <2>1. /\ fd.active /\ fd.pending # << >> /\ fd.pending \in Seq(Sports)
          /\ IsInjective(fd.pending)
          /\ \A x \in Sports : fd.out[x] # None => x \notin Range(fd.pending)
        BY <1>0, <1>4 DEF FetchDeltaStep, TypeOK, TelescopeInv
    <2>2. /\ l \in Sports /\ l \in Range(fd.pending)
          /\ IsInjective(Tail(fd.pending))
          /\ Range(Tail(fd.pending)) = Range(fd.pending) \ {l}
        <3>1. l = fd.pending[1] /\ 1 \in DOMAIN fd.pending
            BY <2>1, EmptySeq, LenProperties
        <3>2. l \in Sports  BY <2>1, <3>1
        <3>3. l \in Range(fd.pending)  BY <3>1 DEF Range
        <3>4. /\ IsInjective(Tail(fd.pending))
              /\ Range(Tail(fd.pending)) = Range(fd.pending) \ {Head(fd.pending)}
            BY <2>1, TailInjective
        <3>5. QED  BY <3>2, <3>3, <3>4
    <2>3. fd.out[l] = None  BY <2>1, <2>2
    <2>4. fd \in [active : BOOLEAN, pending : Seq(Sports), changed : BOOLEAN,
                  out : [Sports -> Deltas \cup {None}]]
        BY <1>0 DEF TypeOK
    <2>5. CASE e = NoEntry
        <3>1. cache' = cache /\ fd' = [fd EXCEPT !.pending = Tail(@)] /\ told' = told
            BY <1>4, <2>5 DEF FetchDeltaStep, e
        <3>2. \A x \in Sports : Unsent(x)' = Unsent(x)  BY <2>4, <3>1 DEF Unsent
        <3>3. QED  BY <1>0, <2>2, <2>4, <3>1, <3>2 DEF TelescopeInv
    <2>6. CASE e # NoEntry
        <3>1. /\ fd'.pending = Tail(fd.pending)
              /\ fd'.out = [fd.out EXCEPT ![l] = v]
              /\ fd'.active = fd.active /\ fd'.changed = fd.changed
              /\ told' = told
            BY <1>4, <2>4, <2>6 DEF FetchDeltaStep
        <3>2. cache' = IF fd.changed THEN cache ELSE [cache EXCEPT ![l].send = e.recv]
            BY <1>4, <2>6 DEF FetchDeltaStep
        <3>3. e \in Entry /\ e.recv \in Int /\ e.send \in Int /\ told[l] \in Int
            BY <1>0, <2>2, <2>6, ProviderAssumption DEF TypeOK, Entry, NoEntry
        <3>4. told[l] = e.send
            <4>1. Unsent(l) = 0  BY <2>3 DEF Unsent
            <4>2. told[l] + Unsent(l) = e.send  BY <1>0, <2>2, <2>6 DEF TelescopeInv
            <4>3. QED  BY <3>3, <4>1, <4>2
        <3>5. v \in Int /\ v # None  BY <3>3, ProviderAssumption
        <3>6. told'[l] + Unsent(l)' = cache'[l].send
            <4>1. fd'.out[l] = v  BY <2>2, <2>4, <3>1
            <4>2. CASE fd.changed
                <5>1. Unsent(l)' = 0  BY <3>1, <4>2 DEF Unsent
                <5>2. cache'[l] = e  BY <3>2, <4>2
                <5>3. QED  BY <3>1, <3>3, <3>4, <5>1, <5>2
            <4>3. CASE ~fd.changed
                <5>1. Unsent(l)' = e.recv - e.send  BY <2>1, <3>1, <3>5, <4>1, <4>3 DEF Unsent
                <5>2. cache'[l].send = e.recv
                    BY <1>0, <2>2, <3>2, <3>3, <4>3 DEF TypeOK
                <5>3. QED  BY <3>1, <3>3, <3>4, <5>1, <5>2
            <4>4. QED  BY <4>2, <4>3
        <3>7. \A x \in Sports \ {l} :
                 /\ cache'[x] = cache[x] /\ told'[x] = told[x]
                 /\ fd'.out[x] = fd.out[x] /\ Unsent(x)' = Unsent(x)
            BY <1>0, <3>1, <3>2 DEF Unsent, TypeOK
        <3>8. \A x \in Sports : fd'.out[x] # None => x \notin Range(fd'.pending)
            BY <2>1, <2>2, <3>1, <3>7
        <3>9. cache'[l] # NoEntry
            <4>1. CASE fd.changed  BY <2>6, <3>2, <4>1
            <4>2. CASE ~fd.changed
                <5>1. cache'[l] = [e EXCEPT !.send = e.recv]  BY <1>0, <2>2, <3>2, <4>2 DEF TypeOK
                <5>2. [e EXCEPT !.send = e.recv] \in Entry  BY <3>3 DEF Entry
                <5>3. QED  BY <5>1, <5>2, ProviderAssumption DEF NoEntry
            <4>3. QED  BY <4>1, <4>2
        <3>10. QED  BY <1>0, <2>2, <3>1, <3>6, <3>7, <3>8, <3>9 DEF TelescopeInv
    <2>7. QED  BY <2>5, <2>6
<1>5. CASE FetchDeltaReturn
    <2>1. /\ fd'.active = FALSE /\ UNCHANGED cache
          /\ \A x \in Sports : told'[x] = told[x] + Unsent(x)
        BY <1>0, <1>5 DEF FetchDeltaReturn, Unsent, TypeOK
    <2>2. \A x \in Sports : Unsent(x)' = 0 /\ fd'.out[x] = fd.out[x]
        BY <1>0, <1>5, <2>1 DEF FetchDeltaReturn, Unsent, TypeOK
    <2>3. \A x \in Sports : cache[x] = NoEntry => Unsent(x) = 0
        BY <1>0 DEF TelescopeInv, Unsent
    <2>4. \A x \in Sports : told[x] \in Int /\ Unsent(x) \in Int
        BY <1>0 DEF TypeOK, Unsent, Deltas
    <2>5. QED  BY <1>0, <2>1, <2>2, <2>3, <2>4 DEF TelescopeInv
<1>6. CASE \/ \E s \in Sports : Rem(s) \/ WaitElapsed(s) \/ PollFail(s) \/ StopPoller(s)
           \/ DestroyCache \/ JoinPoller \/ Destroyed \/ Stopped \/ UNCHANGED vars
    BY <1>6, QuietTelescope
    DEF Rem, WaitElapsed, PollFail, StopPoller, DestroyCache, JoinPoller,
        Destroyed, Stopped, vars
<1>7. QED
    BY <1>1, <1>2, <1>3, <1>4, <1>5, <1>6 DEF Next, Internal, External

(* For every set of sports and scores, and requests that name each sport   *)
(* once: between fetch_delta calls, the deltas handed to the RPC writer    *)
(* for a sport add up to the entry's last_send, whatever polls, adds and   *)
(* absolute (changed) reads interleave with the per-sport locking of      *)
(* fetch_delta.                                                            *)
THEOREM DeltasTelescopeHolds ==
    ASSUME DistinctRequests
    PROVE  Spec => []DeltasTelescope
<1>1. Init => IInv  BY TypeInit, InitTelescope DEF IInv
<1>2. IInv /\ [Next]_vars => IInv'  BY TypeNext, NextTelescope DEF IInv
<1>3. IInv => DeltasTelescope  BY DEF IInv, TypeOK, TelescopeInv, DeltasTelescope, Unsent
<1>4. QED  BY <1>1, <1>2, <1>3, PTL DEF Spec

=============================================================================
