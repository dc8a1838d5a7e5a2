------------------------------ MODULE RpcServer ------------------------------
(***************************************************************************)
(* The gRPC streaming server of src/src/rpc/server/server.cpp, serving one *)
(* SubscribeOnSportsLines call with the app's single worker thread         *)
(* (create_grpc_server passes threads = 1).                                *)
(*                                                                         *)
(* Three threads share the server object:                                  *)
(*  - the worker (process): RequestSubscribeOnSportsLines, then a loop on  *)
(*    m_cq->Next dispatching on_connect / on_read / on_write;              *)
(*  - the writer (write): waits on m_cv for m_changed, then loops: take    *)
(*    the last request if m_changed, sleep, call the score callback and    *)
(*    m_stm.Write the response, without waiting for on_write;              *)
(*  - the caller of stop() (the destructor).                               *)
(* The client is any client: it starts the call, sends requests and may    *)
(* cancel. A request is a record [period, sports]; the scores the callback *)
(* returns are left out (LinesProvider models fetch_delta).                *)
(* The stream operations are counted: a Read, Write or Finish is issued by *)
(* a handler or the writer and completes on m_cq with ok = FALSE once the  *)
(* call is dead. The handlers of the finish/done tags only log and are     *)
(* left out.                                                               *)
(***************************************************************************)
EXTENDS Naturals, Sequences

CONSTANTS
    Requests,     \* the requests a client may send
    MaxRequests,  \* how many requests the client sends at most
    WriteCap      \* writes outstanding at once, beyond which the model stops the writer

ASSUME ServerAssumption ==
    /\ Requests \subseteq [period : Nat, sports : Seq(STRING)]
    /\ MaxRequests \in Nat
    /\ WriteCap \in Nat \ {0}

(* A default-constructed SportsLinesRequest: m_request and m_last_req.     *)
EmptyRequest == [period |-> 0, sports |-> << >>]

WorkerPCs == {"request", "test", "next", "signal", "exited"}
WriterPCs == {"outer", "check", "blocking", "blocked", "inner", "call", "exited"}
StopPCs == {"running", "shutdown", "server", "cq", "notified", "joinedW", "joinedP", "done"}

VARIABLES
    inbox,         \* requests the client sent that the server has not read
    sent,          \* how many requests the client sent
    clientCalled,  \* the client started the call
    clientGone,    \* the client cancelled the call
    connectOut,    \* RequestSubscribeOnSportsLines is pending
    connected,     \* on_connect(true) ran
    readOut,       \* m_stm.Read operations pending
    writeOut,      \* m_stm.Write operations pending
    finishes,      \* m_stm.Finish calls made (2 stands for two or more)
    request,       \* m_request
    lastReq,       \* m_last_req
    changed,       \* m_changed
    wpc,           \* where the writer thread is
    wPeriod,       \* the writer's _period
    wSports,       \* the writer's _sports
    wChanged,      \* the writer's _changed
    ppc,           \* where the worker thread is
    spc,           \* where stop() is
    shutdown,      \* m_shutdown
    srvShut,       \* m_server->Shutdown() was called: the call is cancelled
    cqShut,        \* m_cq->Shutdown() was called
    writeAfterFinish, \* a Write was issued after a Finish
    opAfterCqShut  \* a Read, Write or Finish was issued after m_cq->Shutdown

vars == <<inbox, sent, clientCalled, clientGone, connectOut, connected, readOut,
          writeOut, finishes, request, lastReq, changed, wpc, wPeriod, wSports,
          wChanged, ppc, spc, shutdown, srvShut, cqShut, writeAfterFinish,
          opAfterCqShut>>

AllRequests == Requests \cup {EmptyRequest}

TypeOK ==
    /\ inbox \in Seq(Requests)
    /\ sent \in 0..MaxRequests
    /\ clientCalled \in BOOLEAN /\ clientGone \in BOOLEAN
    /\ connectOut \in BOOLEAN /\ connected \in BOOLEAN
    /\ readOut \in 0..1
    /\ writeOut \in 0..WriteCap
    /\ finishes \in 0..2
    /\ request \in AllRequests /\ lastReq \in AllRequests
    /\ changed \in BOOLEAN
    /\ wpc \in WriterPCs
    /\ [period |-> wPeriod, sports |-> wSports] \in AllRequests
    /\ wChanged \in BOOLEAN
    /\ ppc \in WorkerPCs
    /\ spc \in StopPCs
    /\ shutdown \in BOOLEAN /\ srvShut \in BOOLEAN /\ cqShut \in BOOLEAN
    /\ writeAfterFinish \in BOOLEAN /\ opAfterCqShut \in BOOLEAN

(* The server after start(): the writer and the worker threads are         *)
(* running; AsyncNotifyWhenDone is registered.                             *)
Init ==
    /\ inbox = << >> /\ sent = 0
    /\ clientCalled = FALSE /\ clientGone = FALSE
    /\ connectOut = FALSE /\ connected = FALSE
    /\ readOut = 0 /\ writeOut = 0 /\ finishes = 0
    /\ request = EmptyRequest /\ lastReq = EmptyRequest
    /\ changed = FALSE
    /\ wpc = "outer" /\ wPeriod = 0 /\ wSports = << >> /\ wChanged = FALSE
    /\ ppc = "request"
    /\ spc = "running"
    /\ shutdown = FALSE /\ srvShut = FALSE /\ cqShut = FALSE
    /\ writeAfterFinish = FALSE /\ opAfterCqShut = FALSE

(* The call is live: started, accepted, neither cancelled nor finished.    *)
Alive == clientCalled /\ connected /\ ~clientGone /\ ~srvShut /\ finishes = 0

(* ServerContext::IsCancelled: the client cancelled or the server shut down. *)
Cancelled == clientGone \/ srvShut

(* m_stm.Finish(...): counted, saturating at 2.                            *)
IssueFinish ==
    /\ finishes' = IF finishes < 2 THEN finishes + 1 ELSE 2
    /\ opAfterCqShut' = (opAfterCqShut \/ cqShut)

(* A notify on m_cv wakes the writer only if it is already blocked in      *)
(* wait(); otherwise the notification is lost.                             *)
Woken(p) == IF p = "blocked" THEN "check" ELSE p

-----------------------------------------------------------------------------
(* The client starts the call (once).                                      *)
ClientCall ==
    /\ ~clientCalled
    /\ clientCalled' = TRUE
    /\ UNCHANGED <<inbox, sent, clientGone, connectOut, connected, readOut,
                   writeOut, finishes, request, lastReq, changed, wpc, wPeriod,
                   wSports, wChanged, ppc, spc, shutdown, srvShut, cqShut,
                   writeAfterFinish, opAfterCqShut>>

(* The client writes a request on the stream.                              *)
ClientSend(r) ==
    /\ clientCalled /\ ~clientGone
    /\ sent < MaxRequests
    /\ inbox' = Append(inbox, r)
    /\ sent' = sent + 1
    /\ UNCHANGED <<clientCalled, clientGone, connectOut, connected, readOut,
                   writeOut, finishes, request, lastReq, changed, wpc, wPeriod,
                   wSports, wChanged, ppc, spc, shutdown, srvShut, cqShut,
                   writeAfterFinish, opAfterCqShut>>

(* The client cancels the call.                                            *)
ClientCancel ==
    /\ clientCalled /\ ~clientGone
    /\ clientGone' = TRUE
    /\ UNCHANGED <<inbox, sent, clientCalled, connectOut, connected, readOut,
                   writeOut, finishes, request, lastReq, changed, wpc, wPeriod,
                   wSports, wChanged, ppc, spc, shutdown, srvShut, cqShut,
                   writeAfterFinish, opAfterCqShut>>

-----------------------------------------------------------------------------
(* process(): RequestSubscribeOnSportsLines(&m_ctx, &m_stm, ...).          *)
RequestCall ==
    /\ ppc = "request"
    /\ connectOut' = TRUE
    /\ opAfterCqShut' = (opAfterCqShut \/ cqShut)
    /\ ppc' = "test"
    /\ UNCHANGED <<inbox, sent, clientCalled, clientGone, connected, readOut,
                   writeOut, finishes, request, lastReq, changed, wpc, wPeriod,
                   wSports, wChanged, spc, shutdown, srvShut, cqShut,
                   writeAfterFinish>>

(* process(): "while (!m_shutdown)".                                       *)
WorkerTest ==
    /\ ppc = "test"
    /\ ppc' = IF shutdown THEN "exited" ELSE "next"
    /\ UNCHANGED <<inbox, sent, clientCalled, clientGone, connectOut, connected,
                   readOut, writeOut, finishes, request, lastReq, changed, wpc,
                   wPeriod, wSports, wChanged, spc, shutdown, srvShut, cqShut,
                   writeAfterFinish, opAfterCqShut>>

(* m_cq->Next returns false: the queue is shut down and drained; break.    *)
WorkerNextFalse ==
    /\ ppc = "next"
    /\ cqShut /\ ~connectOut /\ readOut = 0 /\ writeOut = 0
    /\ ppc' = "exited"
    /\ UNCHANGED <<inbox, sent, clientCalled, clientGone, connectOut, connected,
                   readOut, writeOut, finishes, request, lastReq, changed, wpc,
                   wPeriod, wSports, wChanged, spc, shutdown, srvShut, cqShut,
                   writeAfterFinish, opAfterCqShut>>

(* The connect tag: on_connect(ok). ok when a client called before the     *)
(* server shut down: issue a Read; otherwise Finish(OUT_OF_RANGE).         *)
OnConnect ==
    /\ ppc = "next"
    /\ connectOut
    /\ clientCalled \/ srvShut
    /\ connectOut' = FALSE
    /\ IF clientCalled /\ ~srvShut
       THEN /\ connected' = TRUE
            /\ readOut' = readOut + 1
            /\ opAfterCqShut' = (opAfterCqShut \/ cqShut)
            /\ UNCHANGED finishes
       ELSE /\ IssueFinish
            /\ UNCHANGED <<connected, readOut>>
    /\ ppc' = "test"
    /\ UNCHANGED <<inbox, sent, clientCalled, clientGone, writeOut, request,
                   lastReq, changed, wpc, wPeriod, wSports, wChanged, spc,
                   shutdown, srvShut, cqShut, writeAfterFinish>>

(* check_request() under m_written_lock: the new request replaces          *)
(* m_last_req when its polling period or its number of sports differs.     *)
Differs(r) ==
    \/ lastReq.period # r.period
    \/ Len(lastReq.sports) # Len(r.sports)

(* Mutant: the next Read is issued before check_request, on both paths.   *)
MutOnReadOkReadFirst ==
    /\ ppc = "next"
    /\ readOut = 1
    /\ Alive
    /\ inbox # << >>
    /\ request' = Head(inbox)
    /\ inbox' = Tail(inbox)
    /\ opAfterCqShut' = (opAfterCqShut \/ cqShut)
    /\ IF Differs(Head(inbox))
       THEN /\ lastReq' = Head(inbox)
            /\ ppc' = "signal"
       ELSE /\ UNCHANGED lastReq
            /\ ppc' = "test"
    /\ UNCHANGED <<readOut, sent, clientCalled, clientGone, connectOut, connected,
                   writeOut, finishes, changed, wpc, wPeriod, wSports, wChanged,
                   spc, shutdown, srvShut, cqShut, writeAfterFinish>>

(* The read tag with ok: the next request is in m_request; check_request;  *)
(* if it changed, go on to signal the writer, else issue the next Read.    *)
OnReadOk ==
    /\ ppc = "next"
    /\ readOut = 1
    /\ Alive
    /\ inbox # << >>
    /\ request' = Head(inbox)
    /\ inbox' = Tail(inbox)
    /\ IF Differs(Head(inbox))
       THEN /\ lastReq' = Head(inbox)
            /\ readOut' = 0
            /\ ppc' = "signal"
            /\ UNCHANGED opAfterCqShut
       ELSE /\ UNCHANGED <<lastReq, readOut>>
            /\ opAfterCqShut' = (opAfterCqShut \/ cqShut)
            /\ ppc' = "test"
    /\ UNCHANGED <<sent, clientCalled, clientGone, connectOut, connected,
                   writeOut, finishes, changed, wpc, wPeriod, wSports, wChanged,
                   spc, shutdown, srvShut, cqShut, writeAfterFinish>>

(* on_read, after check_request returned true: m_changed = true,           *)
(* m_cv.notify_one() (without m_cv_lock), then the next Read.              *)
OnReadSignal ==
    /\ ppc = "signal"
    /\ changed' = TRUE
    /\ wpc' = Woken(wpc)
    /\ readOut' = readOut + 1
    /\ opAfterCqShut' = (opAfterCqShut \/ cqShut)
    /\ ppc' = "test"
    /\ UNCHANGED <<inbox, sent, clientCalled, clientGone, connectOut, connected,
                   writeOut, finishes, request, lastReq, wPeriod, wSports,
                   wChanged, spc, shutdown, srvShut, cqShut, writeAfterFinish>>

(* The read tag with !ok (the call is over): if the context is cancelled,  *)
(* Finish(CANCELLED); no Read is issued again.                             *)
OnReadFail ==
    /\ ppc = "next"
    /\ readOut = 1
    /\ ~Alive
    /\ readOut' = 0
    /\ IF Cancelled THEN IssueFinish ELSE UNCHANGED <<finishes, opAfterCqShut>>
    /\ ppc' = "test"
    /\ UNCHANGED <<inbox, sent, clientCalled, clientGone, connectOut, connected,
                   writeOut, request, lastReq, changed, wpc, wPeriod, wSports,
                   wChanged, spc, shutdown, srvShut, cqShut, writeAfterFinish>>

(* The write tag: on_write(ok); when the call is over, Finish(OUT_OF_RANGE). *)
OnWrite ==
    /\ ppc = "next"
    /\ writeOut > 0
    /\ writeOut' = writeOut - 1
    /\ IF Alive THEN UNCHANGED <<finishes, opAfterCqShut>> ELSE IssueFinish
    /\ ppc' = "test"
    /\ UNCHANGED <<inbox, sent, clientCalled, clientGone, connectOut, connected,
                   readOut, request, lastReq, changed, wpc, wPeriod, wSports,
                   wChanged, spc, shutdown, srvShut, cqShut, writeAfterFinish>>

-----------------------------------------------------------------------------
(* write(): the outer "while (!m_shutdown)".                               *)
WriterOuter ==
    /\ wpc = "outer"
    /\ wpc' = IF shutdown THEN "exited" ELSE "check"
    /\ UNCHANGED <<inbox, sent, clientCalled, clientGone, connectOut, connected,
                   readOut, writeOut, finishes, request, lastReq, changed,
                   wPeriod, wSports, wChanged, ppc, spc, shutdown, srvShut,
                   cqShut, writeAfterFinish, opAfterCqShut>>

(* m_cv.wait(locker, pred) under m_cv_lock evaluates m_shutdown ||         *)
(* m_changed: true, leave the wait with fresh _sports and _period; false,  *)
(* go to sleep (the lock is held until the thread is asleep, but the       *)
(* notifiers never take it).                                               *)
WriterCheck ==
    /\ wpc = "check"
    /\ IF shutdown \/ changed
       THEN /\ wpc' = "inner"
            /\ wSports' = << >>
            /\ wPeriod' = 0
       ELSE /\ wpc' = "blocking"
            /\ UNCHANGED <<wSports, wPeriod>>
    /\ UNCHANGED <<inbox, sent, clientCalled, clientGone, connectOut, connected,
                   readOut, writeOut, finishes, request, lastReq, changed,
                   wChanged, ppc, spc, shutdown, srvShut, cqShut,
                   writeAfterFinish, opAfterCqShut>>

(* The wait releases m_cv_lock and the thread sleeps.                      *)
WriterBlock ==
    /\ wpc = "blocking"
    /\ wpc' = "blocked"
    /\ UNCHANGED <<inbox, sent, clientCalled, clientGone, connectOut, connected,
                   readOut, writeOut, finishes, request, lastReq, changed,
                   wPeriod, wSports, wChanged, ppc, spc, shutdown, srvShut,
                   cqShut, writeAfterFinish, opAfterCqShut>>

(* Mutant: the compare-exchange copies m_request instead of m_last_req.    *)
MutWriterInnerCopiesRequest ==
    /\ wpc = "inner"
    /\ IF shutdown
       THEN /\ wpc' = "outer"
            /\ UNCHANGED <<changed, wPeriod, wSports, wChanged>>
       ELSE /\ wpc' = "call"
            /\ changed' = FALSE
            /\ IF changed
               THEN /\ wPeriod' = request.period
                    /\ wSports' = request.sports
                    /\ wChanged' = TRUE
               ELSE /\ wChanged' = FALSE
                    /\ UNCHANGED <<wPeriod, wSports>>
    /\ UNCHANGED <<inbox, sent, clientCalled, clientGone, connectOut, connected,
                   readOut, writeOut, finishes, request, lastReq, ppc, spc,
                   shutdown, srvShut, cqShut, writeAfterFinish, opAfterCqShut>>

(* The inner "while (!m_shutdown)"; then m_changed.compare_exchange_strong *)
(* (true -> false): on success, copy m_last_req under m_written_lock and   *)
(* set _changed.                                                           *)
WriterInner ==
    /\ wpc = "inner"
    /\ IF shutdown
       THEN /\ wpc' = "outer"
            /\ UNCHANGED <<changed, wPeriod, wSports, wChanged>>
       ELSE /\ wpc' = "call"
            /\ changed' = FALSE
            /\ IF changed
               THEN /\ wPeriod' = lastReq.period
                    /\ wSports' = lastReq.sports
                    /\ wChanged' = TRUE
               ELSE /\ wChanged' = FALSE
                    /\ UNCHANGED <<wPeriod, wSports>>
    /\ UNCHANGED <<inbox, sent, clientCalled, clientGone, connectOut, connected,
                   readOut, writeOut, finishes, request, lastReq, ppc, spc,
                   shutdown, srvShut, cqShut, writeAfterFinish, opAfterCqShut>>

(* sleep_for(_period), m_score_callback(_sports, _changed), then           *)
(* m_stm.Write(response), whatever Writes are still pending.               *)
WriterWrite ==
    /\ wpc = "call"
    /\ writeOut < WriteCap
    /\ writeOut' = writeOut + 1
    /\ writeAfterFinish' = (writeAfterFinish \/ finishes > 0)
    /\ opAfterCqShut' = (opAfterCqShut \/ cqShut)
    /\ wpc' = "inner"
    /\ UNCHANGED <<inbox, sent, clientCalled, clientGone, connectOut, connected,
                   readOut, finishes, request, lastReq, changed, wPeriod,
                   wSports, wChanged, ppc, spc, shutdown, srvShut, cqShut>>

-----------------------------------------------------------------------------
(* stop(): m_shutdown.store(true).                                         *)
StopBegin ==
    /\ spc = "running"
    /\ shutdown' = TRUE
    /\ spc' = "shutdown"
    /\ UNCHANGED <<inbox, sent, clientCalled, clientGone, connectOut, connected,
                   readOut, writeOut, finishes, request, lastReq, changed, wpc,
                   wPeriod, wSports, wChanged, ppc, srvShut, cqShut,
                   writeAfterFinish, opAfterCqShut>>

(* m_server->Shutdown(): the call is cancelled; pending operations will    *)
(* complete with ok = false.                                               *)
StopServer ==
    /\ spc = "shutdown"
    /\ srvShut' = TRUE
    /\ spc' = "server"
    /\ UNCHANGED <<inbox, sent, clientCalled, clientGone, connectOut, connected,
                   readOut, writeOut, finishes, request, lastReq, changed, wpc,
                   wPeriod, wSports, wChanged, ppc, shutdown, cqShut,
                   writeAfterFinish, opAfterCqShut>>

(* m_cq->Shutdown().                                                       *)
StopCq ==
    /\ spc = "server"
    /\ cqShut' = TRUE
    /\ spc' = "cq"
    /\ UNCHANGED <<inbox, sent, clientCalled, clientGone, connectOut, connected,
                   readOut, writeOut, finishes, request, lastReq, changed, wpc,
                   wPeriod, wSports, wChanged, ppc, shutdown, srvShut,
                   writeAfterFinish, opAfterCqShut>>

(* m_cv.notify_all(), without m_cv_lock.                                   *)
StopNotify ==
    /\ spc = "cq"
    /\ wpc' = Woken(wpc)
    /\ spc' = "notified"
    /\ UNCHANGED <<inbox, sent, clientCalled, clientGone, connectOut, connected,
                   readOut, writeOut, finishes, request, lastReq, changed,
                   wPeriod, wSports, wChanged, ppc, shutdown, srvShut, cqShut,
                   writeAfterFinish, opAfterCqShut>>

(* m_writter.join() returns once the writer has left write().              *)
StopJoinWriter ==
    /\ spc = "notified"
    /\ wpc = "exited"
    /\ spc' = "joinedW"
    /\ UNCHANGED <<inbox, sent, clientCalled, clientGone, connectOut, connected,
                   readOut, writeOut, finishes, request, lastReq, changed, wpc,
                   wPeriod, wSports, wChanged, ppc, shutdown, srvShut, cqShut,
                   writeAfterFinish, opAfterCqShut>>

(* The join of each worker thread.                                         *)
StopJoinWorkers ==
    /\ spc = "joinedW"
    /\ ppc = "exited"
    /\ spc' = "joinedP"
    /\ UNCHANGED <<inbox, sent, clientCalled, clientGone, connectOut, connected,
                   readOut, writeOut, finishes, request, lastReq, changed, wpc,
                   wPeriod, wSports, wChanged, ppc, shutdown, srvShut, cqShut,
                   writeAfterFinish, opAfterCqShut>>

(* "while (m_cq->Next(...))": the remaining completions are drained.       *)
StopDrain ==
    /\ spc = "joinedP"
    /\ connectOut' = FALSE /\ readOut' = 0 /\ writeOut' = 0
    /\ spc' = "done"
    /\ UNCHANGED <<inbox, sent, clientCalled, clientGone, connected, finishes,
                   request, lastReq, changed, wpc, wPeriod, wSports, wChanged,
                   ppc, shutdown, srvShut, cqShut, writeAfterFinish,
                   opAfterCqShut>>

-----------------------------------------------------------------------------
Client ==
    \/ ClientCall \/ ClientCancel
    \/ \E r \in Requests : ClientSend(r)

Worker ==
    \/ RequestCall \/ WorkerTest \/ WorkerNextFalse
    \/ OnConnect \/ OnReadOk \/ OnReadSignal \/ OnReadFail \/ OnWrite

Writer ==
    WriterOuter \/ WriterCheck \/ WriterBlock \/ WriterInner \/ WriterWrite

Stop ==
    StopServer \/ StopCq \/ StopNotify \/ StopJoinWriter \/ StopJoinWorkers \/ StopDrain

(* stop() has returned: nothing is left running.                           *)
Stopped ==
    /\ spc = "done"
    /\ UNCHANGED vars

Next == Client \/ Worker \/ Writer \/ StopBegin \/ Stop \/ Stopped

(* The worker, the writer and stop() are OS threads that run whenever they *)
(* are not blocked. The client and the decision to stop are not fair.      *)
Fairness ==
    /\ WF_vars(Worker)
    /\ WF_vars(Writer)
    /\ WF_vars(Stop)

Spec == Init /\ [][Next]_vars /\ Fairness

-----------------------------------------------------------------------------
(* The handoff of a new request from on_read to the writer through         *)
(* m_last_req and m_changed: once on_read has finished with a request, the *)
(* writer either serves exactly m_last_req (period and sports of the same  *)
(* request) or has m_changed pending, so it never keeps serving an older   *)
(* request without knowing.                                                *)
ServesLatestRequest ==
    (wpc \in {"inner", "call"} /\ ~changed /\ ~shutdown /\ ppc # "signal")
        => [period |-> wPeriod, sports |-> wSports] = lastReq

(* The gRPC contract for the stream and the queue: at most one Write is   *)
(* outstanding on m_stm at a time (the writer does not wait for on_write), *)
(* and no operation is started on m_cq after m_cq->Shutdown() (stop()      *)
(* shuts it down before joining the threads that use it).                  *)
StreamOpsLegal == writeOut <= 1 /\ ~opAfterCqShut

(* A failed write or read ends the emission: no Write is issued on the    *)
(* stream after the handlers have called Finish.                           *)
NoWriteAfterFinish == ~writeAfterFinish

(* stop() returns: once m_shutdown is set, the writer and the worker are   *)
(* joined and the queue drained.                                           *)
StopCompletes == shutdown ~> (spc = "done")

=============================================================================
