---------------------------- MODULE MCAuditTrace ----------------------------
(* A pod and its replica set, which is annotated to link back to it. *)
EXTENDS AuditTrace

Obj(t, n) == [cluster |-> "c", type |-> t, name |-> n]
Ref(t, n) == [type |-> t, name |-> n]
pod == Obj("pod", "p")
rs == Obj("replicaset", "rs")

MCObjects == {pod, rs}
MCOwnerReferences(o) ==
  IF o = pod THEN {[controller |-> TRUE, type |-> "replicaset", name |-> "rs"],
                   [controller |-> FALSE, type |-> "pod", name |-> "other"],
                   [controller |-> TRUE, type |-> "unknown", name |-> "x"]}
  ELSE {}
MCLinkAnnotation(o) == IF o = rs THEN pod ELSE NoLink

Event(id, verb, ref, response, window) ==
  [id |-> id, cluster |-> "c", verb |-> verb, stage |-> "ResponseComplete",
   agent |-> "kubelet", ref |-> ref, response |-> response, window |-> window]

\* A pod is created with generateName, then updated, and deleted in the next window.
MCItems(r) ==
  <<Event(1, "create", Ref("pod", ""), Ref("pod", "p"), 1),
    Event(2, "update", Ref("pod", "p"), None, 1),
    Event(3, "delete", Ref("pod", "p"), None, 2)>>

\* Its two keys share a partition or not; which one it is does not matter.
MCHashFunctions ==
  {[k \in {PartitionKey(MCItems("r")[i]) : i \in 1..3} |-> IF k = <<"c", Ref("pod", "p")>> THEN 0 ELSE p] :
     p \in Partitions}

MCDeployments ==
  {[groups |-> {"audit"}, linkWorkers |-> {"w1", "w2"}, maxConfigs |-> 0],
   [groups |-> {"audit", "kelemetrix"}, linkWorkers |-> {}, maxConfigs |-> 1]}

MCRegexes == {{Ref("pod", "p")}}

MCTagProviders == <<<<"code">>, <<"verb">>, <<"cluster", "resource">>>>
MCMetrics ==
  {[name |-> "all", quantifier |-> "count", tags |-> <<"resource", "verb">>, tagFilters |-> {}, quantityFilters |-> {}],
   [name |-> "slow", quantifier |-> "latency", tags |-> <<"cluster">>,
    tagFilters |-> {[tag |-> "verb", oneOf |-> {"create", "update"}, negate |-> FALSE],
                    [tag |-> "resource", oneOf |-> {"node"}, negate |-> TRUE]},
    quantityFilters |-> {[quantity |-> "latency", operator |-> ">=", threshold |-> 2]}]}
MCTagValue(e, tag) ==
  CASE tag = "verb" -> e.verb [] tag = "resource" -> e.ref.type
    [] tag = "cluster" -> e.cluster [] OTHER -> ""
MCQuantity(e, q) == [value |-> IF q = "count" THEN 1 ELSE e.id, ok |-> TRUE]
=============================================================================
