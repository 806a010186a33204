------------------------------- MODULE DiffCmp -------------------------------
(***************************************************************************)
(* diffcmp.Compare: the list of differences between two JSON documents.  A *)
(* document is nil, a primitive value [type, value], or a map or slice     *)
(* [type, items], whose items are a function of its keys or indices.  Keys *)
(* are numbers in the order of the strings they stand for.                 *)
(***************************************************************************)
EXTENDS Naturals, Sequences, SequencesExt, FiniteSetsExt

Nil == [type |-> "nil"]

Primitive == {"string", "bool", "int64", "float64"}

pushDiff(path, old, new) == <<[path |-> path, old |-> old, new |-> new]>>

\* compareMaybePrimitive, its first result; the second is then old = new.
conclusive(old, new) ==
  old.type = "nil" \/ new.type = "nil" \/ (old.type = new.type /\ old.type \in Primitive)

RECURSIVE compare(_, _, _)

compareKey(path, key, old, new) ==
  CASE key \in DOMAIN old.items \ DOMAIN new.items -> pushDiff(Append(path, key), old.items[key], Nil)
    [] key \in DOMAIN new.items \ DOMAIN old.items ->  \* pushed twice
         LET diff == pushDiff(Append(path, key), Nil, new.items[key]) IN diff \o diff
    [] OTHER -> compare(Append(path, key), old.items[key], new.items[key])

compareMaps(path, old, new) ==
  LET keys == SetToSortSeq(DOMAIN old.items \cup DOMAIN new.items, <) IN
  FlattenSeq([i \in 1..Len(keys) |-> compareKey(path, keys[i], old, new)])

Element(slice, i) == IF i <= Len(slice.items) THEN slice.items[i] ELSE Nil

compareSlices(path, old, new) ==
  FlattenSeq([i \in 1..Max({Len(old.items), Len(new.items)}) |->
                compare(Append(path, i), Element(old, i), Element(new, i))])

compare(path, old, new) ==
  CASE conclusive(old, new) /\ old = new -> <<>>
    [] ~conclusive(old, new) /\ old.type = "map" /\ new.type = "map" -> compareMaps(path, old, new)
    [] ~conclusive(old, new) /\ old.type = "slice" /\ new.type = "slice" -> compareSlices(path, old, new)
    [] OTHER -> pushDiff(path, old, new)

Compare(old, new) == compare(<<>>, old, new)

-----------------------------------------------------------------------------
(* What a list of differences should say *)

Item(doc, key) == IF "items" \in DOMAIN doc /\ key \in DOMAIN doc.items THEN doc.items[key] ELSE Nil

\* What a document has at a path; nothing is nil.
Get(doc, path) == FoldLeft(Item, doc, path)

RECURSIVE Paths(_)
Paths(doc) ==
  {<<>>} \cup (IF "items" \in DOMAIN doc
               THEN UNION {{<<key>> \o path : path \in Paths(doc.items[key])} : key \in DOMAIN doc.items}
               ELSE {})

SameHere(a, b) == a.type = b.type /\ (a.type \in Primitive => a = b)

\* Each difference gives what is at its path before and after, what is not at or
\* below the path of one did not change, and none repeats part of another.
Tells(diffs, old, new) ==
  /\ \A i \in DOMAIN diffs : /\ diffs[i].old = Get(old, diffs[i].path)
                             /\ diffs[i].new = Get(new, diffs[i].path)
  /\ \A path \in Paths(old) \cup Paths(new) :
       \/ \E i \in DOMAIN diffs : IsPrefix(diffs[i].path, path)
       \/ SameHere(Get(old, path), Get(new, path))
  /\ \A i, j \in DOMAIN diffs : ~IsStrictPrefix(diffs[i].path, diffs[j].path)
=============================================================================
