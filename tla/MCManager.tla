----------------------------- MODULE MCManager ------------------------------
(* A part of the program's own wiring: the audit producer and consumer with  *)
(* what they request.  In the second wiring the etcd diff cache requests the *)
(* decorator list, which closes a cycle; in the third somebody other than    *)
(* the list requests a list implementation.                                  *)
EXTENDS Manager

MCTypes == {"producer", "webhook", "consumer", "decorators", "differ", "cache", "local", "etcd", "metrics"}

MCKind ==
  [t \in MCTypes |->
     CASE t \in {"producer", "webhook", "consumer"} -> "explicit"
       [] t = "decorators" -> "list"
       [] t = "differ" -> "listImpl"
       [] t = "cache" -> "mux"
       [] t \in {"local", "etcd"} -> "impl"
       [] OTHER -> "plain"]

MCParams ==
  [t \in MCTypes |->
     CASE t = "producer" -> <<"webhook">>
       [] t = "webhook" -> <<"metrics">>
       [] t = "consumer" -> <<"decorators", "metrics">>
       [] t = "differ" -> <<"cache", "metrics", "metrics">>
       [] OTHER -> <<>>]

MCImpls ==
  [t \in MCTypes |->
     CASE t = "decorators" -> <<"differ">> [] t = "cache" -> <<"local", "etcd">> [] OTHER -> <<>>]

MCWiring == [kind |-> MCKind, params |-> MCParams, impls |-> MCImpls]
MCWirings ==
  {MCWiring,
   [MCWiring EXCEPT !.params["etcd"] = <<"decorators">>],
   [MCWiring EXCEPT !.params["consumer"] = <<"differ", "decorators">>]}
=============================================================================
