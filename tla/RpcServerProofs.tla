--------------------------- MODULE RpcServerProofs ---------------------------
(***************************************************************************)
(* Proofs about RpcServer for every request set, request bound and write   *)
(* cap: the server's type is an invariant, and so is the handoff of a new  *)
(* request from on_read to the writer (ServesLatestRequest).               *)
(*                                                                         *)
(* TypeOK is not inductive alone: on_connect and on_read's signal step     *)
(* each issue a Read, and readOut stays within 0..1 only because a Read    *)
(* is issued once the previous one has completed. StreamInv says so.       *)
(***************************************************************************)
EXTENDS RpcServer, SequenceTheorems, TLAPS

(* At most one Read is pending: none before on_connect accepted the call   *)
(* (whose request is pending at most once), and none while on_read is     *)
(* between check_request and its next Read (on_read ran on a connected    *)
(* call).                                                                  *)
StreamInv ==
    /\ ppc = "request" => ~connectOut /\ ~connected
    /\ connectOut => ~connected
    /\ ~connected => readOut = 0
    /\ ppc = "signal" => readOut = 0 /\ connected

IInv == TypeOK /\ StreamInv /\ ServesLatestRequest

USE ServerAssumption

(* TypeOK in three parts: the counters, the requests, and the flags and    *)
(* program counters.                                                       *)
CountTypes ==
    /\ inbox \in Seq(Requests) /\ sent \in 0..MaxRequests
    /\ readOut \in 0..1 /\ writeOut \in 0..WriteCap /\ finishes \in 0..2
ReqTypes ==
    /\ request \in AllRequests /\ lastReq \in AllRequests
    /\ [period |-> wPeriod, sports |-> wSports] \in AllRequests
FlagTypes ==
    /\ clientCalled \in BOOLEAN /\ clientGone \in BOOLEAN
    /\ connectOut \in BOOLEAN /\ connected \in BOOLEAN
    /\ changed \in BOOLEAN /\ wChanged \in BOOLEAN
    /\ wpc \in WriterPCs /\ ppc \in WorkerPCs /\ spc \in StopPCs
    /\ shutdown \in BOOLEAN /\ srvShut \in BOOLEAN /\ cqShut \in BOOLEAN
    /\ writeAfterFinish \in BOOLEAN /\ opAfterCqShut \in BOOLEAN

LEMMA TypeParts == TypeOK' <=> CountTypes' /\ ReqTypes' /\ FlagTypes'
BY Zenon DEF TypeOK, CountTypes, ReqTypes, FlagTypes

(* A request is the record of its period and sports: the writer's copy    *)
(* (_period, _sports) of m_last_req is m_last_req.                          *)
LEMMA RequestFields ==
    ASSUME NEW r \in AllRequests
    PROVE  [period |-> r.period, sports |-> r.sports] = r
BY DEF AllRequests, EmptyRequest

LEMMA InitIInv == Init => IInv
<1> SUFFICES ASSUME Init PROVE IInv  OBVIOUS
<1>1. << >> \in Seq(Requests)  BY EmptySeq
<1>2. EmptyRequest \in AllRequests  BY DEF AllRequests
<1>3. [period |-> 0, sports |-> << >>] = EmptyRequest  BY DEF EmptyRequest
<1>4. /\ inbox \in Seq(Requests) /\ sent \in 0..MaxRequests
      /\ readOut \in 0..1 /\ writeOut \in 0..WriteCap /\ finishes \in 0..2
    BY <1>1 DEF Init
<1>5. /\ request \in AllRequests /\ lastReq \in AllRequests
      /\ [period |-> wPeriod, sports |-> wSports] \in AllRequests
    BY <1>2, <1>3 DEF Init
<1>6. TypeOK
    BY <1>4, <1>5, Zenon DEF Init, TypeOK, WriterPCs, WorkerPCs, StopPCs
<1>7. QED  BY <1>6 DEF Init, IInv, StreamInv, ServesLatestRequest


LEMMA NextIInv == IInv /\ [Next]_vars => IInv'
<1> SUFFICES ASSUME IInv, [Next]_vars PROVE IInv'  OBVIOUS
<1>0. TypeOK /\ StreamInv /\ ServesLatestRequest  BY DEF IInv
<1> USE DEF IInv, TypeOK, StreamInv, ServesLatestRequest, WorkerPCs, WriterPCs, StopPCs
<1>1. CASE ClientCall  BY <1>0, <1>1 DEF ClientCall
<1>2. ASSUME NEW r \in Requests, ClientSend(r) PROVE IInv'
    BY <1>0, <1>2, AppendProperties DEF ClientSend
<1>3. CASE ClientCancel  BY <1>0, <1>3 DEF ClientCancel
<1>4. CASE RequestCall  BY <1>0, <1>4 DEF RequestCall
<1>5. CASE WorkerTest  BY <1>0, <1>5 DEF WorkerTest
<1>6. CASE WorkerNextFalse  BY <1>0, <1>6 DEF WorkerNextFalse
<1>7. CASE OnConnect
    <2>1. /\ inbox' \in Seq(Requests) /\ sent' \in 0..MaxRequests
          /\ readOut' \in 0..1 /\ writeOut' \in 0..WriteCap /\ finishes' \in 0..2
        BY <1>0, <1>7 DEF OnConnect, IssueFinish
    <2>2. /\ request' \in AllRequests /\ lastReq' \in AllRequests
          /\ [period |-> wPeriod', sports |-> wSports'] \in AllRequests
        BY <1>0, <1>7 DEF OnConnect, IssueFinish
    <2>3. FlagTypes'  BY <1>0, <1>7, ZenonT(60) DEF FlagTypes, OnConnect, IssueFinish
    <2>7. TypeOK'  BY <2>1, <2>2, <2>3, TypeParts DEF CountTypes, ReqTypes
    <2>4. StreamInv'  BY <1>0, <1>7 DEF OnConnect, IssueFinish
    <2>5. ServesLatestRequest'  BY <1>0, <1>7, Zenon DEF OnConnect, IssueFinish
    <2>6. QED  BY <2>7, <2>4, <2>5
<1>8. CASE OnReadOk
    <2>1. Head(inbox) \in Requests /\ Tail(inbox) \in Seq(Requests)
        BY <1>0, <1>8, HeadTailProperties DEF OnReadOk
    <2>2. Head(inbox) \in AllRequests  BY <2>1 DEF AllRequests
    <2>3. QED  BY <1>0, <1>8, <2>1, <2>2 DEF OnReadOk
<1>9. CASE OnReadSignal
    <2>1. /\ inbox' \in Seq(Requests) /\ sent' \in 0..MaxRequests
          /\ readOut' \in 0..1 /\ writeOut' \in 0..WriteCap /\ finishes' \in 0..2
        BY <1>0, <1>9 DEF OnReadSignal, Woken
    <2>2. /\ request' \in AllRequests /\ lastReq' \in AllRequests
          /\ [period |-> wPeriod', sports |-> wSports'] \in AllRequests
        BY <1>0, <1>9 DEF OnReadSignal, Woken
    <2>3. FlagTypes'  BY <1>0, <1>9, ZenonT(60) DEF FlagTypes, OnReadSignal, Woken
    <2>7. TypeOK'  BY <2>1, <2>2, <2>3, TypeParts DEF CountTypes, ReqTypes
    <2>4. StreamInv'  BY <1>0, <1>9 DEF OnReadSignal, Woken
    <2>5. ServesLatestRequest'  BY <1>0, <1>9, Zenon DEF OnReadSignal, Woken
    <2>6. QED  BY <2>7, <2>4, <2>5
<1>10. CASE OnReadFail  BY <1>0, <1>10 DEF OnReadFail, IssueFinish
<1>11. CASE OnWrite  BY <1>0, <1>11 DEF OnWrite, IssueFinish
<1>12. CASE WriterOuter  BY <1>0, <1>12 DEF WriterOuter
<1>13. CASE WriterCheck
    <2>1. [period |-> 0, sports |-> << >>] \in AllRequests  BY DEF AllRequests, EmptyRequest
    <2>2. QED  BY <1>0, <1>13, <2>1 DEF WriterCheck
<1>14. CASE WriterBlock  BY <1>0, <1>14 DEF WriterBlock
<1>15. CASE WriterInner
    <2>0. [period |-> lastReq.period, sports |-> lastReq.sports] = lastReq
        BY <1>0, RequestFields
    <2>1. /\ inbox' \in Seq(Requests) /\ sent' \in 0..MaxRequests
          /\ readOut' \in 0..1 /\ writeOut' \in 0..WriteCap /\ finishes' \in 0..2
        BY <1>0, <1>15 DEF WriterInner
    <2>2. /\ request' \in AllRequests /\ lastReq' \in AllRequests
          /\ [period |-> wPeriod', sports |-> wSports'] \in AllRequests
        BY <1>0, <1>15, <2>0 DEF WriterInner
    <2>3. FlagTypes'
        <3>1. CASE shutdown  BY <1>0, <1>15, <3>1 DEF FlagTypes, WriterInner
        <3>2. CASE ~shutdown
            <4>1. wpc' = "call" /\ changed' = FALSE /\ wChanged' \in BOOLEAN
                BY <1>15, <3>2 DEF WriterInner
            <4>2. /\ clientCalled' = clientCalled /\ clientGone' = clientGone
                  /\ connectOut' = connectOut /\ connected' = connected
                  /\ ppc' = ppc /\ spc' = spc /\ shutdown' = shutdown
                  /\ srvShut' = srvShut /\ cqShut' = cqShut
                  /\ writeAfterFinish' = writeAfterFinish
                  /\ opAfterCqShut' = opAfterCqShut
                BY <1>15 DEF WriterInner
            <4>3. wpc' \in WriterPCs  BY <4>1
            <4>4. /\ clientCalled' \in BOOLEAN /\ clientGone' \in BOOLEAN
                  /\ connectOut' \in BOOLEAN /\ connected' \in BOOLEAN
                  /\ ppc' \in WorkerPCs /\ spc' \in StopPCs
                BY <1>0, <4>2
            <4>5. /\ shutdown' \in BOOLEAN /\ srvShut' \in BOOLEAN /\ cqShut' \in BOOLEAN
                  /\ writeAfterFinish' \in BOOLEAN /\ opAfterCqShut' \in BOOLEAN
                BY <1>0, <4>2
            <4>6. QED  BY <4>1, <4>3, <4>4, <4>5 DEF FlagTypes
        <3>3. QED  BY <3>1, <3>2
    <2>7. TypeOK'  BY <2>1, <2>2, <2>3, TypeParts DEF CountTypes, ReqTypes
    <2>4. StreamInv'  BY <1>0, <1>15 DEF WriterInner
    <2>5. ServesLatestRequest'  BY <1>0, <1>15, <2>0, Zenon DEF WriterInner
    <2>6. QED  BY <2>7, <2>4, <2>5
<1>16. CASE WriterWrite  BY <1>0, <1>16 DEF WriterWrite
<1>17. CASE StopBegin  BY <1>0, <1>17 DEF StopBegin
<1>18. CASE StopServer \/ StopCq \/ StopJoinWriter \/ StopJoinWorkers
    <2>1. /\ inbox' \in Seq(Requests) /\ sent' \in 0..MaxRequests
          /\ readOut' \in 0..1 /\ writeOut' \in 0..WriteCap /\ finishes' \in 0..2
        BY <1>0, <1>18 DEF StopServer, StopCq, StopJoinWriter, StopJoinWorkers
    <2>2. /\ request' \in AllRequests /\ lastReq' \in AllRequests
          /\ [period |-> wPeriod', sports |-> wSports'] \in AllRequests
        BY <1>0, <1>18 DEF StopServer, StopCq, StopJoinWriter, StopJoinWorkers
    <2>3. FlagTypes'
        <3>1. CASE StopServer  BY <1>0, <3>1 DEF FlagTypes, StopServer
        <3>2. CASE StopCq  BY <1>0, <3>2 DEF FlagTypes, StopCq
        <3>3. CASE StopJoinWriter  BY <1>0, <3>3 DEF FlagTypes, StopJoinWriter
        <3>4. CASE StopJoinWorkers  BY <1>0, <3>4 DEF FlagTypes, StopJoinWorkers
        <3>5. QED  BY <1>18, <3>1, <3>2, <3>3, <3>4
    <2>7. TypeOK'  BY <2>1, <2>2, <2>3, TypeParts DEF CountTypes, ReqTypes
    <2>4. StreamInv'  BY <1>0, <1>18 DEF StopServer, StopCq, StopJoinWriter, StopJoinWorkers
    <2>5. ServesLatestRequest'  BY <1>0, <1>18, Zenon DEF StopServer, StopCq, StopJoinWriter, StopJoinWorkers
    <2>6. QED  BY <2>7, <2>4, <2>5
<1>19. CASE StopNotify  BY <1>0, <1>19 DEF StopNotify, Woken
<1>20. CASE StopDrain
    <2>1. /\ inbox' \in Seq(Requests) /\ sent' \in 0..MaxRequests
          /\ readOut' \in 0..1 /\ writeOut' \in 0..WriteCap /\ finishes' \in 0..2
        BY <1>0, <1>20 DEF StopDrain
    <2>2. /\ request' \in AllRequests /\ lastReq' \in AllRequests
          /\ [period |-> wPeriod', sports |-> wSports'] \in AllRequests
        BY <1>0, <1>20 DEF StopDrain
    <2>3. FlagTypes'  BY <1>0, <1>20, ZenonT(60) DEF FlagTypes, StopDrain
    <2>7. TypeOK'  BY <2>1, <2>2, <2>3, TypeParts DEF CountTypes, ReqTypes
    <2>4. StreamInv'  BY <1>0, <1>20 DEF StopDrain
    <2>5. ServesLatestRequest'  BY <1>0, <1>20, Zenon DEF StopDrain
    <2>6. QED  BY <2>7, <2>4, <2>5
<1>21. CASE Stopped \/ UNCHANGED vars  BY <1>0, <1>21 DEF Stopped, vars
<1> HIDE DEF IInv, TypeOK, StreamInv, ServesLatestRequest
<1>22. QED
    BY <1>1, <1>2, <1>3, <1>4, <1>5, <1>6, <1>7, <1>8, <1>9, <1>10, <1>11,
       <1>12, <1>13, <1>14, <1>15, <1>16, <1>17, <1>18, <1>19, <1>20, <1>21
    DEF Next, Client, Worker, Writer, Stop

(* Every reachable server state is well typed; in particular at most one   *)
(* Read is pending on the stream at a time.                                *)
THEOREM ServerTypeCorrect == Spec => []TypeOK
BY InitIInv, NextIInv, PTL DEF Spec, IInv

(* For every request set, request bound and write cap: once on_read has    *)
(* finished with a request, the writer is serving exactly m_last_req or    *)
(* has m_changed pending, whatever the order of on_read's steps, the       *)
(* writer's compare-exchange and its unlocked wait.                        *)
THEOREM ServesLatest == Spec => []ServesLatestRequest
BY InitIInv, NextIInv, PTL DEF Spec, IInv

=============================================================================
