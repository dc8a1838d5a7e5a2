---------------------------- MODULE MC_RpcServer ----------------------------
EXTENDS RpcServer

(* Two requests of one sport that differ only in the sport, and one with  *)
(* another period: enough to exercise both branches of check_request.     *)
MCRequests ==
    { [period |-> 1, sports |-> <<"football">>],
      [period |-> 1, sports |-> <<"baseball">>],
      [period |-> 2, sports |-> <<"football">>] }

MCMaxRequests == 2
MCWriteCap == 2
=============================================================================
