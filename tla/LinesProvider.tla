---------------------------- MODULE LinesProvider ----------------------------
(***************************************************************************)
(* lines_provider (src/src/lines/provider/lines_provider.cpp) with its     *)
(* pollers (src/src/lines/poller/lines_poller.cpp): add and rem of a       *)
(* sport, the poller thread of each sport and its callback, the delta      *)
(* cache (update_cache, fetch_delta), the readiness predicate state(),     *)
(* fetch_last, and the destructor, which destroys the members in reverse   *)
(* order of declaration.                                                   *)
(*                                                                         *)
(* Storage is abstracted away: the provider ignores the errc of every      *)
(* lines_db call, the poller's update_line runs add_line (so nothing is    *)
(* ever stored), and last_score fails on its SQL; so no property reads a  *)
(* table. Scores are small integers; the doubles' subtraction is exact on  *)
(* them.                                                                   *)
(***************************************************************************)
EXTENDS Integers, Sequences

CONSTANTS
    Sports,     \* sport names
    Scores,     \* the scores a poll can deliver (0 is getDouble's default)
    Requests,   \* the sport lists fetch_delta may be asked for
    None        \* no value

(* limes_delta_cache_item *)
Entry == [inited : BOOLEAN, recv : Scores, send : Scores]

ASSUME ProviderAssumption ==
    /\ Scores \subseteq Int
    /\ 0 \in Scores
    /\ Requests \subseteq Seq(Sports)
    /\ None \notin Int \cup Entry
NoEntry == None

(* The poller of a sport, as seen from its thread:                         *)
(*  absent  : no lines_poller in m_pollers for the sport's address         *)
(*  waiting : in m_wait.wait_for(locker, m_period)                         *)
(*  polling : in poll(), the HTTP request in flight                        *)
(*  exited  : the thread has left its loop; the jthread is not yet joined  *)
PollerStates == {"absent", "waiting", "polling", "exited"}

(* The m_pollers key built by add and the one looked up by rem:            *)
(* m_address + "/" + sport and m_address + "//" + sport.                   *)
AddKey(s) == <<"/", s>>
RemKey(s) == <<"//", s>>

VARIABLES
    cache,        \* m_lines_cache: sport -> Entry, or NoEntry
    poller,       \* poller[s]: the poller thread of sport s
    stopReq,      \* stopReq[s]: request_stop() was called on it
    fd,           \* the fetch_delta call of the RPC writer in progress
    told,         \* told[s]: the sum of the deltas fetch_delta returned for s
    polled,       \* polled[s]: a poll of s has reached update_cache
    removed,      \* removed[s]: rem(s) returned and s was not added since
    phase,        \* "running", or how far ~lines_provider has got
    joining,      \* the sport whose poller the destructor is joining
    crashed       \* a poller callback ran on the destroyed cache

vars == <<cache, poller, stopReq, fd, told, polled, removed,
          phase, joining, crashed>>

Deltas == {a - b : a, b \in Scores}

TypeOK ==
    /\ cache \in [Sports -> Entry \cup {NoEntry}]
    /\ poller \in [Sports -> PollerStates]
    /\ stopReq \in [Sports -> BOOLEAN]
    /\ fd \in [active : BOOLEAN, pending : Seq(Sports), changed : BOOLEAN,
               out : [Sports -> Deltas \cup {None}]]
    /\ told \in [Sports -> Int]
    /\ polled \in [Sports -> BOOLEAN]
    /\ removed \in [Sports -> BOOLEAN]
    /\ phase \in {"running", "stopping", "done"}
    /\ joining \in Sports \cup {None}
    /\ crashed \in BOOLEAN

(* The provider is constructed with no sport; lines_provider's constructor *)
(* adds its configured sports with add, which Add models.                  *)
Init ==
    /\ cache = [s \in Sports |-> NoEntry]
    /\ poller = [s \in Sports |-> "absent"]
    /\ stopReq = [s \in Sports |-> FALSE]
    /\ fd = [active |-> FALSE, pending |-> << >>, changed |-> FALSE,
             out |-> [s \in Sports |-> None]]
    /\ told = [s \in Sports |-> 0]
    /\ polled = [s \in Sports |-> FALSE]
    /\ removed = [s \in Sports |-> FALSE]
    /\ phase = "running"
    /\ joining = None
    /\ crashed = FALSE

-----------------------------------------------------------------------------
(* update_cache(sport, score) under the exclusive cache lock: a new entry  *)
(* is not inited; an existing one becomes inited with the score.           *)
UpdateCache(c, s, score) ==
    IF c[s] = NoEntry
    THEN [c EXCEPT ![s] = [inited |-> FALSE, recv |-> score, send |-> 0]]
    ELSE [c EXCEPT ![s].inited = TRUE, ![s].recv = score]

(* The keys m_pollers holds.                                               *)
MapKeys == {AddKey(x) : x \in {y \in Sports : poller[y] # "absent"}}

(* add(sport, period): m_db.add_line, update_cache(sport, 0.0), and, under *)
(* m_pollers_lock, a new lines_poller unless its address is already a key. *)
Add(s) ==
    /\ phase = "running"
    /\ cache' = UpdateCache(cache, s, 0)
    /\ IF AddKey(s) \in MapKeys
       THEN UNCHANGED <<poller, stopReq>>
       ELSE /\ poller' = [poller EXCEPT ![s] = "waiting"]
            /\ stopReq' = [stopReq EXCEPT ![s] = FALSE]
    /\ removed' = [removed EXCEPT ![s] = FALSE]
    /\ UNCHANGED <<fd, told, polled, phase, joining, crashed>>

(* rem(sport): under m_pollers_lock, find the address and erase it; the    *)
(* erased lines_poller's destructor requests stop and joins, which returns *)
(* once the thread is between polls. Then m_db.rem_line.                   *)
Rem(s) ==
    /\ phase = "running"
    /\ IF RemKey(s) \in MapKeys
       THEN /\ poller[s] \in {"waiting", "exited"}
            /\ poller' = [poller EXCEPT ![s] = "absent"]
       ELSE UNCHANGED poller
    /\ removed' = [removed EXCEPT ![s] = TRUE]
    /\ UNCHANGED <<cache, stopReq, fd, told, polled,
                   phase, joining, crashed>>

(* The poller's wait_for(m_period) returns (nothing notifies m_wait); the  *)
(* thread breaks out if stop was requested, else calls poll().             *)
WaitElapsed(s) ==
    /\ poller[s] = "waiting"
    /\ poller' = [poller EXCEPT ![s] = IF stopReq[s] THEN "exited" ELSE "polling"]
    /\ UNCHANGED <<cache, stopReq, fd, told, polled, removed,
                   phase, joining, crashed>>

(* poll() fails (transport error, non-200, bad JSON): it logs and returns. *)
PollFail(s) ==
    /\ poller[s] = "polling"
    /\ poller' = [poller EXCEPT ![s] = IF stopReq[s] THEN "exited" ELSE "waiting"]
    /\ UNCHANGED <<cache, stopReq, fd, told, polled, removed,
                   phase, joining, crashed>>

(* poll() gets a score (lines.<SPORT>, 0.0 when missing) and calls the     *)
(* callback: m_db.update_line, then update_cache(sport, score). Once the   *)
(* destructor has destroyed m_lines_cache the callback works on freed      *)
(* memory.                                                                 *)
PollDeliver(s) ==
    /\ poller[s] = "polling"
    /\ \E score \in Scores :
         IF phase = "running"
         THEN /\ cache' = UpdateCache(cache, s, score)
              /\ polled' = [polled EXCEPT ![s] = TRUE]
              /\ poller' = [poller EXCEPT ![s] = IF stopReq[s] THEN "exited" ELSE "waiting"]
              /\ UNCHANGED crashed
         ELSE /\ crashed' = TRUE
              /\ UNCHANGED <<cache, polled, poller>>
    /\ UNCHANGED <<stopReq, fd, told, removed, phase, joining>>

(* fetch_delta(lines, changed) is called by the RPC writer thread.         *)
FetchDeltaBegin(req, changed) ==
    /\ phase = "running"
    /\ ~fd.active
    /\ fd' = [active |-> TRUE, pending |-> req, changed |-> changed,
              out |-> [s \in Sports |-> None]]
    /\ UNCHANGED <<cache, poller, stopReq, told, polled, removed,
                   phase, joining, crashed>>

(* Mutant: the delta is returned but last_send is not advanced.            *)
MutFetchDeltaStepNoConsume ==
    /\ fd.active
    /\ fd.pending # << >>
    /\ LET l == Head(fd.pending)
           e == cache[l]
       IN /\ IF e = NoEntry
             THEN fd' = [fd EXCEPT !.pending = Tail(@)]
             ELSE IF ~fd.changed
             THEN fd' = [fd EXCEPT !.pending = Tail(@), !.out[l] = e.recv - e.send]
             ELSE fd' = [fd EXCEPT !.pending = Tail(@), !.out[l] = e.recv]
    /\ UNCHANGED <<cache, poller, stopReq, told, polled, removed,
                   phase, joining, crashed>>

(* Mutant: last_send is set to the delta instead of to last_recv.         *)
MutFetchDeltaStepSendDelta ==
    /\ fd.active
    /\ fd.pending # << >>
    /\ LET l == Head(fd.pending)
           e == cache[l]
       IN /\ IF e = NoEntry
             THEN UNCHANGED cache /\ fd' = [fd EXCEPT !.pending = Tail(@)]
             ELSE IF ~fd.changed
             THEN /\ cache' = [cache EXCEPT ![l].send = e.recv - e.send]
                  /\ fd' = [fd EXCEPT !.pending = Tail(@), !.out[l] = e.recv - e.send]
             ELSE /\ UNCHANGED cache
                  /\ fd' = [fd EXCEPT !.pending = Tail(@), !.out[l] = e.recv]
    /\ UNCHANGED <<poller, stopReq, told, polled, removed,
                   phase, joining, crashed>>

(* One iteration of its loop, under the exclusive cache lock: a sport with *)
(* an entry yields last_recv - last_send and consumes it, or last_recv     *)
(* when changed; deltas[l] is overwritten; a sport without one is skipped. *)
FetchDeltaStep ==
    /\ fd.active
    /\ fd.pending # << >>
    /\ LET l == Head(fd.pending)
           e == cache[l]
       IN /\ IF e = NoEntry
             THEN UNCHANGED cache /\ fd' = [fd EXCEPT !.pending = Tail(@)]
             ELSE IF ~fd.changed
             THEN /\ cache' = [cache EXCEPT ![l].send = e.recv]
                  /\ fd' = [fd EXCEPT !.pending = Tail(@), !.out[l] = e.recv - e.send]
             ELSE /\ UNCHANGED cache
                  /\ fd' = [fd EXCEPT !.pending = Tail(@), !.out[l] = e.recv]
    /\ UNCHANGED <<poller, stopReq, told, polled, removed,
                   phase, joining, crashed>>

(* fetch_delta returns the map; the caller adds up the deltas it gets.     *)
FetchDeltaReturn ==
    /\ fd.active
    /\ fd.pending = << >>
    /\ fd' = [fd EXCEPT !.active = FALSE]
    /\ told' = [s \in Sports |->
                  IF fd.out[s] # None /\ ~fd.changed THEN told[s] + fd.out[s] ELSE told[s]]
    /\ UNCHANGED <<cache, poller, stopReq, polled, removed,
                   phase, joining, crashed>>

(* ~lines_provider: m_lines_cache and its lock, declared last, are         *)
(* destroyed first; then m_pollers.                                        *)
DestroyCache ==
    /\ phase = "running"
    /\ ~fd.active
    /\ phase' = "stopping"
    /\ UNCHANGED <<cache, poller, stopReq, fd, told, polled,
                   removed, joining, crashed>>

(* Mutant: ~lines_poller joins without request_stop.                      *)
MutStopPollerNoRequest(s) ==
    /\ phase = "stopping"
    /\ joining = None
    /\ poller[s] # "absent"
    /\ joining' = s
    /\ UNCHANGED <<cache, poller, stopReq, fd, told, polled, removed,
                   phase, crashed>>

(* m_pollers' destructor destroys one lines_poller: request_stop, then     *)
(* join.                                                                   *)
StopPoller(s) ==
    /\ phase = "stopping"
    /\ joining = None
    /\ poller[s] # "absent"
    /\ stopReq' = [stopReq EXCEPT ![s] = TRUE]
    /\ joining' = s
    /\ UNCHANGED <<cache, poller, fd, told, polled, removed,
                   phase, crashed>>

(* The join returns once the poller thread has left its loop.              *)
JoinPoller ==
    /\ joining # None
    /\ poller[joining] = "exited"
    /\ poller' = [poller EXCEPT ![joining] = "absent"]
    /\ joining' = None
    /\ UNCHANGED <<cache, stopReq, fd, told, polled, removed,
                   phase, crashed>>

(* No poller is left: the remaining members are destroyed, down to m_db,  *)
(* whose connection_pool destructor then dies on its null m_logger (see    *)
(* ConnectionPool's Destroy). "done" is the destructor reaching m_db.      *)
Destroyed ==
    /\ phase = "stopping"
    /\ joining = None
    /\ \A s \in Sports : poller[s] = "absent"
    /\ phase' = "done"
    /\ UNCHANGED <<cache, poller, stopReq, fd, told, polled,
                   removed, joining, crashed>>

(* The steps of the threads the provider runs itself: the pollers, the     *)
(* destructor, and the RPC writer inside fetch_delta.                      *)
Internal ==
    \/ \E s \in Sports : WaitElapsed(s) \/ PollFail(s) \/ PollDeliver(s)
    \/ FetchDeltaStep \/ FetchDeltaReturn
    \/ \E s \in Sports : StopPoller(s)
    \/ JoinPoller \/ Destroyed

(* The calls its users make.                                               *)
External ==
    \/ \E s \in Sports : Add(s) \/ Rem(s)
    \/ \E req \in Requests, ch \in BOOLEAN : FetchDeltaBegin(req, ch)
    \/ DestroyCache

Stopped ==
    /\ crashed \/ phase = "done"
    /\ UNCHANGED vars

Next ==
    \/ ~crashed /\ (Internal \/ External)
    \/ Stopped

(* A poller's wait_for returns after its period and its HTTP request ends  *)
(* within the session timeout, so a poller thread always makes progress;   *)
(* the destructor and the writer inside fetch_delta are running threads.   *)
(* Whether a poll succeeds is not fair: the upstream may fail forever.     *)
Fairness ==
    /\ \A s \in Sports :
         /\ WF_vars(~crashed /\ WaitElapsed(s))
         /\ WF_vars(~crashed /\ (PollFail(s) \/ PollDeliver(s)))
    /\ WF_vars(~crashed /\ (FetchDeltaStep \/ FetchDeltaReturn))
    /\ WF_vars(~crashed /\ ((\E s \in Sports : StopPoller(s)) \/ JoinPoller \/ Destroyed))

Spec == Init /\ [][Next]_vars /\ Fairness

-----------------------------------------------------------------------------
(* state(): ready iff some sport has a cache entry and every entry is      *)
(* inited (lines_provider::state).                                         *)
Ready ==
    /\ \E s \in Sports : cache[s] # NoEntry
    /\ \A s \in Sports : cache[s] # NoEntry => cache[s].inited

(* state() reports ready only when every tracked sport (added and not      *)
(* removed) has completed a poll: the readiness gate of the RPC server.    *)
ReadyOnlyWhenAllPolled ==
    Ready => \A s \in Sports : (cache[s] # NoEntry /\ ~removed[s]) => polled[s]

(* No poller callback runs on a destroyed cache: the provider's destructor *)
(* leaves no update_cache to a freed m_lines_cache.                        *)
NoCallbackOnFreedCache == ~crashed

(* Delta reads telescope: between fetch_delta calls, the sum of the deltas *)
(* the caller was handed for a sport equals the entry's last_send, so a    *)
(* subscriber adding up deltas knows the last value the cache sent, and    *)
(* absolute reads (changed) and concurrent polls do not disturb it.        *)
DeltasTelescope ==
    ~fd.active =>
        \A s \in Sports : cache[s] # NoEntry => told[s] = cache[s].send

(* The destructor gets through its joins: once it has started, every      *)
(* poller thread leaves its loop and is joined (the jthread's stop is seen *)
(* after the wait), and m_db's destruction is reached.                     *)
ShutdownCompletes ==
    phase = "stopping" ~> (phase = "done" \/ crashed)

=============================================================================
