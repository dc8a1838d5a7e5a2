---------------------------- MODULE MC_RpcClient ----------------------------
EXTENDS RpcClient

(* Two subscriptions that differ, so that order and loss show.             *)
MCRequests == { [period |-> 5, sports |-> <<"football">>],
                [period |-> 10, sports |-> <<"football", "baseball">>] }

(* Three calls: the second and third are queued while the first is        *)
(* outstanding.                                                            *)
MCMaxCalls == 3
=============================================================================
