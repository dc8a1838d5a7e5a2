------------------------------ MODULE RpcClient ------------------------------
(***************************************************************************)
(* The streaming client of src/src/rpc/client/client.cpp.                  *)
(*                                                                         *)
(* Three parties share the client object:                                  *)
(*  - the caller: call() queues a request in m_calls and, the first time,  *)
(*    starts the call; cancel() cancels the context;                       *)
(*  - the processor thread (process): "while (!m_shutdown)" around         *)
(*    m_cq.Next, dispatching on_start / on_read / on_write / on_complete;  *)
(*  - the destructor: m_shutdown = true, join the processor, cancel, shut  *)
(*    the queue down and drain it.                                         *)
(* The stream operations are counted per tag in ops: an operation issued   *)
(* by a handler completes on m_cq, and the processor (or the destructor's  *)
(* drain) dequeues it. The server is abstract: it receives the requests    *)
(* the client writes, pushes a response every polling period once it has   *)
(* one, and may end the call at any time. A response's content is left    *)
(* out: m_cb is called with it and nothing of it is kept.                  *)
(***************************************************************************)
EXTENDS Naturals, Sequences, SequencesExt

CONSTANTS
    Requests,  \* the (period, sports) pairs a caller may pass to call()
    MaxCalls   \* how many times the caller calls call() at most

ASSUME ClientAssumption ==
    /\ Requests # {}
    /\ MaxCalls \in Nat

(* The tags of the stream operations (call_status); done and finish are    *)
(* never issued by the client.                                             *)
Tags == {"start", "read", "write", "complete"}

VARIABLES
    calls,      \* m_calls
    request,    \* m_request, the request last written
    started,    \* m_started
    outstand,   \* m_outstand
    shutdown,   \* m_shutdown
    ops,        \* per tag, the operations issued and not yet dequeued
    ppc,        \* the processor thread: "loop", "next" or "exited"
    dpc,        \* the destructor: "none", "joining", "cancel", "shutdown", "draining", "done"
    cancelled,  \* m_ctx.TryCancel() was called
    ended,      \* the server ended the call (or the channel failed)
    made,       \* history: the arguments of every call(), in order
    written,    \* history: the requests passed to m_rpc->Write, in order
    served      \* history: the requests the server received, in order

vars == <<calls, request, started, outstand, shutdown, ops, ppc, dpc,
          cancelled, ended, made, written, served>>

TypeOK ==
    /\ calls \in Seq(Requests)
    /\ request \in Requests \cup {<< >>}
    /\ started \in BOOLEAN /\ outstand \in BOOLEAN /\ shutdown \in BOOLEAN
    /\ ops \in [Tags -> 0..1]
    /\ ppc \in {"loop", "next", "exited"}
    /\ dpc \in {"none", "joining", "cancel", "shutdown", "draining", "done"}
    /\ cancelled \in BOOLEAN /\ ended \in BOOLEAN
    /\ made \in Seq(Requests) /\ written \in Seq(Requests) /\ served \in Seq(Requests)

(* After the constructor: the call is prepared (not started) and the       *)
(* processor thread is running.                                            *)
Init ==
    /\ calls = << >> /\ request = << >>
    /\ started = FALSE /\ outstand = FALSE /\ shutdown = FALSE
    /\ ops = [t \in Tags |-> 0]
    /\ ppc = "loop" /\ dpc = "none"
    /\ cancelled = FALSE /\ ended = FALSE
    /\ made = << >> /\ written = << >> /\ served = << >>

(* An operation completes with ok = true while the call is neither         *)
(* cancelled nor ended.                                                    *)
Live == ~cancelled /\ ~ended

(* Issue an operation with tag t, replacing the one with tag d that was    *)
(* just dequeued.                                                          *)
Reissue(d, t) == ops' = [ops EXCEPT ![d] = @ - 1, ![t] = @ + 1]

(* make_request(m_request): with no request outstanding and one queued,   *)
(* move the front of m_calls into m_request and mark it outstanding; the   *)
(* caller then Writes it.                                                  *)
CanRequest == ~outstand /\ calls # << >>

(* Mutant: the front of m_calls is copied but not popped.                  *)
MutMakeRequestNoPop ==
    /\ request' = Head(calls)
    /\ UNCHANGED calls
    /\ outstand' = TRUE
    /\ written' = Append(written, Head(calls))

MakeRequest ==
    /\ request' = Head(calls)
    /\ calls' = Tail(calls)
    /\ outstand' = TRUE
    /\ written' = Append(written, Head(calls))

-----------------------------------------------------------------------------
(* Mutant: every call() starts the call (no compare-exchange on m_started). *)
MutCallAlwaysStarts(r) ==
    /\ dpc = "none"
    /\ Len(made) < MaxCalls
    /\ calls' = Append(calls, r)
    /\ made' = Append(made, r)
    /\ started' = TRUE
    /\ ops' = [ops EXCEPT !["start"] = @ + 1]
    /\ UNCHANGED <<request, outstand, shutdown, ppc, dpc, cancelled, ended,
                   written, served>>

(* call(period, sports): queue the request under m_calls_lock; the first   *)
(* call to win the compare-exchange on m_started starts the call.          *)
Call(r) ==
    /\ dpc = "none"
    /\ Len(made) < MaxCalls
    /\ calls' = Append(calls, r)
    /\ made' = Append(made, r)
    /\ started' = TRUE
    /\ ops' = IF started THEN ops ELSE [ops EXCEPT !["start"] = 1]
    /\ UNCHANGED <<request, outstand, shutdown, ppc, dpc, cancelled, ended,
                   written, served>>

(* cancel(): m_ctx.TryCancel().                                            *)
Cancel ==
    /\ dpc = "none"
    /\ ~cancelled
    /\ cancelled' = TRUE
    /\ UNCHANGED <<calls, request, started, outstand, shutdown, ops, ppc, dpc,
                   ended, made, written, served>>

(* The server side ends the call: its stop() or Finish, or a broken       *)
(* channel.                                                                *)
ServerEnd ==
    /\ ~ended
    /\ ended' = TRUE
    /\ UNCHANGED <<calls, request, started, outstand, shutdown, ops, ppc, dpc,
                   cancelled, made, written, served>>

-----------------------------------------------------------------------------
(* process(): the "while (!m_shutdown)" test.                              *)
ProcTest ==
    /\ ppc = "loop"
    /\ ppc' = IF shutdown THEN "exited" ELSE "next"
    /\ UNCHANGED <<calls, request, started, outstand, shutdown, ops, dpc,
                   cancelled, ended, made, written, served>>

(* m_cq.Next returns false only after m_cq.Shutdown(), which the           *)
(* destructor calls after joining this thread: the processor never sees   *)
(* it, and that branch is not an action.                                   *)

(* The start tag: on_start(ok). ok: make_request and Write it; !ok:        *)
(* Finish, whose tag is complete.                                          *)
OnStart ==
    /\ ppc = "next"
    /\ ops["start"] = 1
    /\ IF Live
       THEN IF CanRequest
            THEN MakeRequest /\ Reissue("start", "write")
            ELSE /\ ops' = [ops EXCEPT !["start"] = 0]
                 /\ UNCHANGED <<request, calls, outstand, written>>
       ELSE /\ Reissue("start", "complete")
            /\ UNCHANGED <<request, calls, outstand, written>>
    /\ ppc' = "loop"
    /\ UNCHANGED <<started, shutdown, dpc, cancelled, ended, made, served>>

(* The read tag: on_read(ok). ok (the server pushed a response, which it  *)
(* does once it has a request): m_cb, then make_request and Write it, or   *)
(* else the next Read. !ok: Finish.                                        *)
OnRead ==
    /\ ppc = "next"
    /\ ops["read"] = 1
    /\ Live => served # << >>
    /\ IF Live
       THEN IF CanRequest
            THEN MakeRequest /\ Reissue("read", "write")
            ELSE /\ UNCHANGED ops
                 /\ UNCHANGED <<request, calls, outstand, written>>
       ELSE /\ Reissue("read", "complete")
            /\ UNCHANGED <<request, calls, outstand, written>>
    /\ ppc' = "loop"
    /\ UNCHANGED <<started, shutdown, dpc, cancelled, ended, made, served>>

(* Mutant: on_write(true) leaves m_outstand set.                           *)
MutOnWriteKeepsOutstand ==
    /\ ppc = "next"
    /\ ops["write"] = 1
    /\ IF Live
       THEN /\ served' = Append(served, request)
            /\ Reissue("write", "read")
       ELSE /\ Reissue("write", "complete")
            /\ UNCHANGED served
    /\ ppc' = "loop"
    /\ UNCHANGED <<calls, request, started, outstand, shutdown, dpc, cancelled,
                   ended, made, written>>

(* The write tag: on_write(ok). ok (the server has m_request): clear       *)
(* m_outstand and Read. !ok: Finish.                                       *)
OnWrite ==
    /\ ppc = "next"
    /\ ops["write"] = 1
    /\ IF Live
       THEN /\ outstand' = FALSE
            /\ served' = Append(served, request)
            /\ Reissue("write", "read")
       ELSE /\ Reissue("write", "complete")
            /\ UNCHANGED <<outstand, served>>
    /\ ppc' = "loop"
    /\ UNCHANGED <<calls, request, started, shutdown, dpc, cancelled, ended,
                   made, written>>

(* The complete tag: on_complete logs m_status; nothing is issued.         *)
OnComplete ==
    /\ ppc = "next"
    /\ ops["complete"] = 1
    /\ ops' = [ops EXCEPT !["complete"] = 0]
    /\ ppc' = "loop"
    /\ UNCHANGED <<calls, request, started, outstand, shutdown, dpc, cancelled,
                   ended, made, written, served>>

-----------------------------------------------------------------------------
(* ~client(): m_shutdown.store(true); m_cv.notify_all() wakes nobody (no   *)
(* thread waits on m_cv).                                                  *)
DestroyBegin ==
    /\ dpc = "none"
    /\ shutdown' = TRUE
    /\ dpc' = "joining"
    /\ UNCHANGED <<calls, request, started, outstand, ops, ppc, cancelled,
                   ended, made, written, served>>

(* m_processor.join() returns once the processor has left process().       *)
DestroyJoin ==
    /\ dpc = "joining"
    /\ ppc = "exited"
    /\ dpc' = "cancel"
    /\ UNCHANGED <<calls, request, started, outstand, shutdown, ops, ppc,
                   cancelled, ended, made, written, served>>

(* cancel().                                                               *)
DestroyCancel ==
    /\ dpc = "cancel"
    /\ cancelled' = TRUE
    /\ dpc' = "shutdown"
    /\ UNCHANGED <<calls, request, started, outstand, shutdown, ops, ppc,
                   ended, made, written, served>>

(* m_cq.Shutdown().                                                        *)
DestroyShutdown ==
    /\ dpc = "shutdown"
    /\ dpc' = "draining"
    /\ UNCHANGED <<calls, request, started, outstand, shutdown, ops, ppc,
                   cancelled, ended, made, written, served>>

(* "while (m_cq.Next(&tag, &ok))": dequeue a completed operation and drop  *)
(* it; Next returns false once the queue is empty.                         *)
DestroyDrain ==
    /\ dpc = "draining"
    /\ \/ \E t \in Tags :
            /\ ops[t] = 1
            /\ ops' = [ops EXCEPT ![t] = 0]
            /\ UNCHANGED dpc
       \/ /\ ops = [t \in Tags |-> 0]
          /\ dpc' = "done"
          /\ UNCHANGED ops
    /\ UNCHANGED <<calls, request, started, outstand, shutdown, ppc, cancelled,
                   ended, made, written, served>>

-----------------------------------------------------------------------------
Caller == (\E r \in Requests : Call(r)) \/ Cancel \/ DestroyBegin

Processor == ProcTest \/ OnStart \/ OnRead \/ OnWrite \/ OnComplete

Destructor == DestroyJoin \/ DestroyCancel \/ DestroyShutdown \/ DestroyDrain

(* The destructor has returned: nothing is left to happen.                 *)
Destroyed == dpc = "done" /\ UNCHANGED vars

Next == Caller \/ ServerEnd \/ Processor \/ Destructor \/ Destroyed

(* The processor thread and a running destructor are scheduled; the       *)
(* caller and the server choose freely. The server's pushes are the read  *)
(* completions of OnRead, which weak fairness on the processor takes once *)
(* the server has a request.                                               *)
Fairness == WF_vars(Processor) /\ WF_vars(Destructor)

Spec == Init /\ [][Next]_vars /\ Fairness

-----------------------------------------------------------------------------
(* The server receives the calls in the order call() was made, none lost   *)
(* or duplicated: m_calls is first-in first-out between call() and         *)
(* make_request's Write, what the server received is a prefix of what     *)
(* was written, and at most one written request has not reached it (the   *)
(* m_outstand pipelining: the next request waits for a response).          *)
CallsReachServerInOrder ==
    /\ made = written \o calls
    /\ IsPrefix(served, written)
    /\ Len(written) <= Len(served) + 1

(* Every call reaches the server unless the call is cancelled or ended     *)
(* first: a request queued while another is outstanding is written after   *)
(* the next response (on_read), never left in m_calls.                     *)
CallsReachServer ==
    \A k \in 1..MaxCalls : (Len(made) >= k) ~> (Len(served) >= k \/ ~Live)

(* The destructor returns once it has begun (the spec: destruction always *)
(* cancels, drains the completion queue and joins the processor).         *)
DestroyCompletes == (dpc # "none") ~> (dpc = "done")

=============================================================================
