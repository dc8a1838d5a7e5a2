--------------------------- MODULE RpcClientProofs ---------------------------
(***************************************************************************)
(* Proofs about RpcClient for every set of Requests and every MaxCalls:    *)
(* the client's type, and that the server receives the calls in the order *)
(* they were made with at most one on the wire (CallsReachServerInOrder). *)
(*                                                                         *)
(* Neither is inductive alone. TypeOK bounds every tag's count by 1, which *)
(* holds because a handler issues one operation in place of the one it   *)
(* dequeued: only one operation is ever in flight. The order needs to     *)
(* know what m_outstand means: while it is set the request in m_request   *)
(* is the one written last and not yet received, and a Write is only in   *)
(* flight while it is set.                                                 *)
(***************************************************************************)
EXTENDS RpcClient, SequenceTheorems, TLAPS

-----------------------------------------------------------------------------
(* Lemmas on the sequences: make_request moves the front of m_calls to the *)
(* end of what was written, call() appends to both m_calls and the         *)
(* history, and a sequence is a prefix of itself and of its extension.    *)

LEMMA MoveHead ==
    ASSUME NEW S, NEW w \in Seq(S), NEW c \in Seq(S), c # << >>
    PROVE  Append(w, Head(c)) \o Tail(c) = w \o c
<1>1. /\ Head(c) \in S /\ Tail(c) \in Seq(S) /\ Len(Tail(c)) = Len(c) - 1
      /\ \A i \in 1..Len(Tail(c)) : Tail(c)[i] = c[i + 1]
      /\ Head(c) = c[1] /\ Len(c) \in Nat \ {0}
    BY HeadTailProperties, EmptySeq, LenProperties
<1>2. /\ Append(w, Head(c)) \in Seq(S)
      /\ Len(Append(w, Head(c))) = Len(w) + 1
      /\ \A i \in 1..Len(w) : Append(w, Head(c))[i] = w[i]
      /\ Append(w, Head(c))[Len(w) + 1] = Head(c)
    BY <1>1, AppendProperties
<1>3. /\ Append(w, Head(c)) \o Tail(c) \in Seq(S)
      /\ Len(Append(w, Head(c)) \o Tail(c)) = Len(w) + Len(c)
      /\ \A i \in 1..Len(w) + Len(c) :
            (Append(w, Head(c)) \o Tail(c))[i] =
                IF i <= Len(w) + 1 THEN Append(w, Head(c))[i]
                ELSE Tail(c)[i - (Len(w) + 1)]
    BY <1>1, <1>2, ConcatProperties
<1>4. /\ w \o c \in Seq(S)
      /\ Len(w \o c) = Len(w) + Len(c)
      /\ \A i \in 1..Len(w) + Len(c) :
            (w \o c)[i] = IF i <= Len(w) THEN w[i] ELSE c[i - Len(w)]
    BY ConcatProperties
<1>5. \A i \in 1..Len(w) + Len(c) :
         (Append(w, Head(c)) \o Tail(c))[i] = (w \o c)[i]
    BY <1>1, <1>2, <1>3, <1>4, LenProperties
<1>6. QED  BY <1>3, <1>4, <1>5, SeqEqual

LEMMA ConcatAppend ==
    ASSUME NEW S, NEW w \in Seq(S), NEW c \in Seq(S), NEW r \in S
    PROVE  w \o Append(c, r) = Append(w \o c, r)
<1>1. << r >> \in Seq(S)  OBVIOUS
<1>2. Append(c, r) = c \o << r >> /\ Append(w \o c, r) = (w \o c) \o << r >>
    BY ConcatProperties, AppendIsConcat
<1>3. (w \o c) \o << r >> = w \o (c \o << r >>)
    BY <1>1, ConcatAssociative
<1>4. QED  BY <1>2, <1>3

LEMMA PrefixSelfAppend ==
    ASSUME NEW S, NEW s \in Seq(S), NEW x \in S
    PROVE  /\ IsPrefix(s, s)
           /\ IsPrefix(s, Append(s, x))
           /\ Len(Append(s, x)) = Len(s) + 1
<1>1. /\ Append(s, x) \in Seq(S) /\ Len(Append(s, x)) = Len(s) + 1
      /\ \A i \in 1..Len(s) : Append(s, x)[i] = s[i]
      /\ Len(s) \in Nat
    BY AppendProperties, LenProperties
<1>2. /\ SubSeq(s, 1, Len(s)) \in Seq(S)
      /\ Len(SubSeq(s, 1, Len(s))) = Len(s)
      /\ \A i \in 1..Len(s) : SubSeq(s, 1, Len(s))[i] = s[i]
    BY <1>1, SubSeqProperties
<1>3. /\ SubSeq(Append(s, x), 1, Len(s)) \in Seq(S)
      /\ Len(SubSeq(Append(s, x), 1, Len(s))) = Len(s)
      /\ \A i \in 1..Len(s) : SubSeq(Append(s, x), 1, Len(s))[i] = s[i]
    <2>1. \A i \in 1..Len(s) : Append(s, x)[i] \in S
        BY <1>1
    <2>2. QED  BY <1>1, <2>1, SubSeqProperties
<1>4. SubSeq(s, 1, Len(s)) = SubSeq(Append(s, x), 1, Len(s))
    BY <1>2, <1>3, SeqEqual
<1>5. QED  BY <1>1, <1>4 DEF IsPrefix

-----------------------------------------------------------------------------
(* One operation at most is in flight.                                     *)
OneOpInFlight == \A t1, t2 \in Tags : ops[t1] = 1 /\ ops[t2] = 1 => t1 = t2

NoOps == [t \in Tags |-> 0]

(* What m_outstand means for the histories.                                *)
OutstandMeaning ==
    /\ ops["write"] = 1 => outstand
    /\ outstand => request \in Requests /\ written = Append(served, request)
    /\ ~outstand => written = served

(* The inductive invariant.                                                *)
IInv ==
    /\ TypeOK
    /\ OneOpInFlight
    /\ ~started => ops = NoOps
    /\ made = written \o calls
    /\ OutstandMeaning

USE ClientAssumption

LEMMA InitIInv == Init => IInv
<1> SUFFICES ASSUME Init PROVE IInv  OBVIOUS
<1>1. TypeOK
    <2>1. << >> \in Seq(Requests)  BY EmptySeq
    <2>2. [t \in Tags |-> 0] \in [Tags -> 0..1]  OBVIOUS
    <2>3. QED  BY <2>1, <2>2 DEF Init, TypeOK
<1>2. made = written \o calls  BY EmptySeq, ConcatEmptySeq DEF Init
<1>3. QED  BY <1>1, <1>2 DEF Init, IInv, OneOpInFlight, NoOps, OutstandMeaning, Tags

(* With one operation in flight, the operations are exactly that one.     *)
Only(t) == [u \in Tags |-> IF u = t THEN 1 ELSE 0]

LEMMA OnlyOne ==
    ASSUME TypeOK, OneOpInFlight, NEW d \in Tags, ops[d] = 1
    PROVE  ops = Only(d)
BY DEF TypeOK, OneOpInFlight, Only

(* A handler dequeues the operation with tag d and issues one with tag t.  *)
LEMMA ReissueOnly ==
    ASSUME TypeOK, OneOpInFlight, NEW d \in Tags, ops[d] = 1, NEW t \in Tags,
           Reissue(d, t)
    PROVE  ops' = Only(t)
<1>1. ops = Only(d)  BY OnlyOne
<1>2. QED  BY <1>1 DEF Reissue, Only

LEMMA DropOnly ==
    ASSUME TypeOK, OneOpInFlight, NEW d \in Tags, ops[d] = 1,
           ops' = [ops EXCEPT ![d] = 0]
    PROVE  ops' = NoOps
<1>1. ops = Only(d)  BY OnlyOne
<1>2. QED  BY <1>1 DEF Only, NoOps

(* A step that leaves the queue, the histories, the request and the       *)
(* operations alone keeps IInv whatever it does to the flags and the pcs. *)
LEMMA QuietStep ==
    ASSUME IInv,
           UNCHANGED <<calls, request, started, outstand, ops, made, written, served>>,
           shutdown' \in BOOLEAN, cancelled' \in BOOLEAN, ended' \in BOOLEAN,
           ppc' \in {"loop", "next", "exited"},
           dpc' \in {"none", "joining", "cancel", "shutdown", "draining", "done"}
    PROVE  IInv'
BY DEF IInv, TypeOK, OneOpInFlight, NoOps, OutstandMeaning

(* make_request followed by Write: the front of m_calls is written and     *)
(* becomes outstanding, and the Write is the only operation in flight.     *)
LEMMA RequestStep ==
    ASSUME IInv, started, CanRequest, MakeRequest, ops' = Only("write"),
           UNCHANGED <<started, shutdown, dpc, cancelled, ended, made, served>>,
           ppc' \in {"loop", "next", "exited"}
    PROVE  IInv'
<1>1. /\ calls \in Seq(Requests) /\ calls # << >> /\ written \in Seq(Requests)
      /\ written = served /\ served \in Seq(Requests)
    BY DEF IInv, TypeOK, CanRequest, OutstandMeaning
<1>2. /\ Head(calls) \in Requests /\ Tail(calls) \in Seq(Requests)
    BY <1>1, HeadTailProperties
<1>3. made' = written' \o calls'
    BY <1>1, MoveHead DEF IInv, MakeRequest
<1>4. Only("write") \in [Tags -> 0..1] /\ Only("write")["write"] = 1
    BY DEF Only, Tags
<1>5. TypeOK'
    BY <1>1, <1>2, <1>4, AppendProperties DEF IInv, TypeOK, MakeRequest
<1>6. OneOpInFlight'
    BY DEF OneOpInFlight, Only
<1>7. OutstandMeaning'
    BY <1>1, <1>2 DEF MakeRequest, OutstandMeaning
<1>8. QED  BY <1>3, <1>5, <1>6, <1>7 DEF IInv

(* A handler that leaves the queue and the histories alone and ends with   *)
(* one operation in flight other than a Write, or none.                    *)
LEMMA SwapStep ==
    ASSUME IInv, started,
           \/ ops' = NoOps
           \/ \E t \in Tags \ {"write"} : ops' = Only(t),
           UNCHANGED <<calls, request, started, outstand, shutdown, dpc,
                       cancelled, ended, made, written, served>>,
           ppc' \in {"loop", "next", "exited"}
    PROVE  IInv'
<1>1. /\ ops' \in [Tags -> 0..1]
      /\ OneOpInFlight'
      /\ ops'["write"] = 0
    BY DEF NoOps, Only, OneOpInFlight, Tags
<1>2. TypeOK'  BY <1>1 DEF IInv, TypeOK
<1>3. QED  BY <1>1, <1>2 DEF IInv, OutstandMeaning

LEMMA NextIInv == IInv /\ [Next]_vars => IInv'
<1> SUFFICES ASSUME IInv, [Next]_vars PROVE IInv'  OBVIOUS
<1>0. TypeOK /\ OneOpInFlight  BY DEF IInv
<1>1. CASE \E r \in Requests : Call(r)
    <2> PICK r \in Requests : Call(r)  BY <1>1
    <2>1. made' = written' \o calls'
        <3>1. written \in Seq(Requests) /\ calls \in Seq(Requests)
            BY <1>0 DEF TypeOK
        <3>2. written \o Append(calls, r) = Append(written \o calls, r)
            BY <3>1, ConcatAppend
        <3>3. QED  BY <3>2 DEF Call, IInv
    <2>2. ops' = IF started THEN ops ELSE Only("start")
        <3>1. ~started => ops = NoOps  BY DEF IInv
        <3>2. QED  BY <3>1 DEF Call, NoOps, Only, Tags
    <2>3. TypeOK'
        BY <1>0, <2>2, AppendProperties DEF Call, TypeOK, Only, Tags
    <2>4. OneOpInFlight'
        BY <1>0, <2>2 DEF OneOpInFlight, Only
    <2>5. OutstandMeaning'
        BY <2>2 DEF Call, IInv, OutstandMeaning, Only
    <2>6. QED  BY <2>1, <2>3, <2>4, <2>5 DEF IInv, Call
<1>2. CASE OnStart
    <2>0. ops["start"] = 1 /\ started /\ "start" \in Tags
        BY <1>2 DEF OnStart, IInv, NoOps, Tags
    <2>1. CASE Live /\ CanRequest
        <3>1. ops' = Only("write")
            BY <1>0, <1>2, <2>0, <2>1, ReissueOnly DEF OnStart, Tags
        <3>2. QED  BY <1>2, <2>0, <2>1, <3>1, RequestStep DEF OnStart
    <2>2. CASE Live /\ ~CanRequest
        <3>1. ops' = NoOps
            BY <1>0, <1>2, <2>0, <2>2, DropOnly DEF OnStart
        <3>2. QED  BY <1>2, <2>0, <2>2, <3>1, SwapStep DEF OnStart
    <2>3. CASE ~Live
        <3>1. ops' = Only("complete")
            BY <1>0, <1>2, <2>0, <2>3, ReissueOnly DEF OnStart, Tags
        <3>2. QED  BY <1>2, <2>0, <2>3, <3>1, SwapStep DEF OnStart, Tags
    <2>4. QED  BY <2>1, <2>2, <2>3
<1>3. CASE OnRead
    <2>0. ops["read"] = 1 /\ started /\ "read" \in Tags
        BY <1>3 DEF OnRead, IInv, NoOps, Tags
    <2>1. CASE Live /\ CanRequest
        <3>1. ops' = Only("write")
            BY <1>0, <1>3, <2>0, <2>1, ReissueOnly DEF OnRead, Tags
        <3>2. QED  BY <1>3, <2>0, <2>1, <3>1, RequestStep DEF OnRead
    <2>2. CASE Live /\ ~CanRequest
        <3>1. ops' = Only("read")
            BY <1>0, <1>3, <2>0, <2>2, OnlyOne DEF OnRead
        <3>2. QED  BY <1>3, <2>0, <2>2, <3>1, SwapStep DEF OnRead, Tags
    <2>3. CASE ~Live
        <3>1. ops' = Only("complete")
            BY <1>0, <1>3, <2>0, <2>3, ReissueOnly DEF OnRead, Tags
        <3>2. QED  BY <1>3, <2>0, <2>3, <3>1, SwapStep DEF OnRead, Tags
    <2>4. QED  BY <2>1, <2>2, <2>3
<1>4. CASE OnWrite
    <2>0. ops["write"] = 1 /\ started /\ "write" \in Tags
        BY <1>4 DEF OnWrite, IInv, NoOps, Tags
    <2>1. outstand /\ request \in Requests /\ written = Append(served, request)
          /\ served \in Seq(Requests)
        BY <2>0 DEF IInv, OutstandMeaning, TypeOK
    <2>2. CASE Live
        <3>1. ops' = Only("read")
            BY <1>0, <1>4, <2>0, <2>2, ReissueOnly DEF OnWrite, Tags
        <3>2. /\ outstand' = FALSE /\ served' = Append(served, request)
              /\ UNCHANGED <<calls, request, started, made, written>>
            BY <1>4, <2>2 DEF OnWrite
        <3>3. Append(served, request) \in Seq(Requests)
            BY <2>1, AppendProperties
        <3>4. Only("read") \in [Tags -> 0..1]  BY DEF Only, Tags
        <3>5. TypeOK'
            BY <1>0, <1>4, <3>1, <3>2, <3>3, <3>4 DEF OnWrite, TypeOK
        <3>6. OneOpInFlight' /\ ops'["write"] = 0
            BY <3>1 DEF OneOpInFlight, Only, Tags
        <3>7. OutstandMeaning'
            BY <2>1, <3>2, <3>6 DEF OutstandMeaning
        <3>8. made' = written' \o calls'  BY <3>2 DEF IInv
        <3>9. QED  BY <2>0, <3>2, <3>5, <3>6, <3>7, <3>8 DEF IInv
    <2>3. CASE ~Live
        <3>1. ops' = Only("complete")
            BY <1>0, <1>4, <2>0, <2>3, ReissueOnly DEF OnWrite, Tags
        <3>2. QED  BY <1>4, <2>0, <2>3, <3>1, SwapStep DEF OnWrite, Tags
    <2>4. QED  BY <2>2, <2>3
<1>5. CASE OnComplete
    <2>0. ops["complete"] = 1 /\ started /\ "complete" \in Tags
        BY <1>5 DEF OnComplete, IInv, NoOps, Tags
    <2>1. ops' = NoOps
        BY <1>0, <1>5, <2>0, DropOnly DEF OnComplete
    <2>2. QED  BY <1>5, <2>0, <2>1, SwapStep DEF OnComplete
<1>6. CASE DestroyDrain
    <2>1. CASE \E t \in Tags : /\ ops[t] = 1 /\ ops' = [ops EXCEPT ![t] = 0]
                               /\ UNCHANGED dpc
        <3> PICK t \in Tags : /\ ops[t] = 1 /\ ops' = [ops EXCEPT ![t] = 0]
                              /\ UNCHANGED dpc
            BY <2>1
        <3>1. started  BY DEF IInv, NoOps
        <3>2. ops' = NoOps  BY <1>0, DropOnly
        <3>3. QED  BY <1>0, <1>6, <3>1, <3>2, SwapStep DEF DestroyDrain, TypeOK
    <2>2. CASE ops = NoOps /\ dpc' = "done" /\ UNCHANGED ops
        BY <1>0, <1>6, <2>2, QuietStep DEF DestroyDrain, TypeOK
    <2>3. QED  BY <1>6, <2>1, <2>2 DEF DestroyDrain, NoOps
<1>7. CASE Cancel \/ ServerEnd \/ ProcTest \/ DestroyBegin \/ DestroyJoin
           \/ DestroyCancel \/ DestroyShutdown \/ Destroyed \/ UNCHANGED vars
    BY <1>0, <1>7, QuietStep
       DEF Cancel, ServerEnd, ProcTest, DestroyBegin, DestroyJoin,
           DestroyCancel, DestroyShutdown, Destroyed, vars, TypeOK
<1>8. QED
    BY <1>1, <1>2, <1>3, <1>4, <1>5, <1>6, <1>7
    DEF Next, Caller, Processor, Destructor

-----------------------------------------------------------------------------
(* The client's state always has its type: in particular no stream        *)
(* operation is ever issued twice before it completes, for every set of   *)
(* requests and every number of calls (TypeOK of the RpcClient run).      *)
THEOREM ClientTypeCorrect == Spec => []TypeOK
<1>1. IInv => TypeOK  BY DEF IInv
<1>2. QED  BY InitIInv, NextIInv, <1>1, PTL DEF Spec

(* call() and make_request deliver the calls to the server first in,      *)
(* first out, none lost or duplicated, and at most one written request is *)
(* unanswered (CallsReachServerInOrder of the RpcClient run).             *)
THEOREM CallsInOrder == Spec => []CallsReachServerInOrder
<1>1. IInv => CallsReachServerInOrder
    <2> SUFFICES ASSUME IInv PROVE CallsReachServerInOrder  OBVIOUS
    <2>1. served \in Seq(Requests)  BY DEF IInv, TypeOK
    <2>2. CASE outstand
        <3>1. request \in Requests /\ written = Append(served, request)
            BY <2>2 DEF IInv, OutstandMeaning
        <3>2. QED  BY <2>1, <3>1, PrefixSelfAppend DEF IInv, CallsReachServerInOrder
    <2>3. CASE ~outstand
        <3>1. written = served  BY <2>3 DEF IInv, OutstandMeaning
        <3>2. QED  BY <2>1, <3>1, PrefixSelfAppend DEF IInv, CallsReachServerInOrder
    <2>4. QED  BY <2>2, <2>3
<1>2. QED  BY InitIInv, NextIInv, <1>1, PTL DEF Spec

=============================================================================
