-------------------------- MODULE MCLocalDiffCache --------------------------
(***************************************************************************)
(* One object with two snapshots and five versions: values change, appear   *)
(* and vanish, slices grow and shrink, a value changes its type, explicit  *)
(* nils come and go, and the last version is redacted.                     *)
(***************************************************************************)
EXTENDS LocalDiffCache, DiffCmp

CONSTANT o1

Str(v) == [type |-> "string", value |-> v]
Num(v) == [type |-> "int64", value |-> v]
Map(items) == [type |-> "map", items |-> items]
Slice(items) == [type |-> "slice", items |-> items]

Metadata(rv) == Map(1 :> Str(rv))

MCDocument == <<
  [redacted |-> FALSE, object |-> Map(1 :> Metadata(1) @@ 2 :> Slice(<<Str(1), Str(2)>>))],
  [redacted |-> FALSE, object |-> Map(1 :> Metadata(2) @@ 2 :> Map(1 :> Str(1)) @@ 3 :> Map(1 :> Num(1) @@ 2 :> Num(2)))],
  [redacted |-> FALSE, object |-> Map(1 :> Metadata(3) @@ 2 :> Slice(<<Num(1), Map(1 :> Nil), Str(1)>>) @@ 3 :> Nil)],
  [redacted |-> FALSE, object |-> Map(1 :> Metadata(4) @@ 2 :> Slice(<<Str(1), Map(<<>>), Nil, Nil>>) @@ 3 :> Map(1 :> Num(2)))],
  [redacted |-> TRUE, object |-> Map(1 :> Metadata(5) @@ 2 :> Slice(<<>>))]
>>

MCObjects == {o1}
MCSnapshotNames == {"creation", "deletion"}
MCKeys == MCObjects \X MCSnapshotNames
MCVals == {1}
=============================================================================
