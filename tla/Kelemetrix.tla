----------------------------- MODULE Kelemetrix -----------------------------
(***************************************************************************)
(* Metrics of audit events.  PrepareTagsQuantifiers turns the names of a   *)
(* configuration into positions of two arrays, in whatever order a Go map  *)
(* gives the providers; HandleMessage fills the arrays for a message and   *)
(* each metric picks its values by position.                               *)
(***************************************************************************)
EXTENDS Integers, Sequences, FiniteSets, FiniteSetsExt, SequencesExt

CONSTANTS
  TagProviders,   \* the registry: a sequence of sequences of tag names
  Quantifiers,    \* the registered quantifier names
  Metrics,        \* Config.Metrics: [name, quantifier, tags, tagFilters, quantityFilters]
  TagValue(_, _), \* what the provider of a tag says of a message
  Quantity(_, _), \* [value, ok]: what a quantifier says of a message
  Unprepared

\* The tags of all providers.
TagNames == UNION {Range(TagProviders[i]) : i \in DOMAIN TagProviders}

\* A filter with another operator is an error, on which the process exits.
ASSUME KelemetrixAssumption ==
  /\ TagProviders \in Seq(Seq(TagNames))
  /\ IsFiniteSet(Quantifiers)
  /\ \A m \in Metrics : \A f \in m.quantityFilters :
       f.operator \in {">", "<", ">=", "<="} /\ f.threshold \in Int

VARIABLES
  prepared,       \* [tags, quantities]: the two indices, or Unprepared
  emitted         \* history: the calls of metricFn

kelemetrixVars == <<prepared, emitted>>

KelemetrixInit == prepared = Unprepared /\ emitted = {}

\* A name that two providers share belongs to the later one.
TagProviderNameIndex ==
  [tag \in TagNames |->
     Max({i \in DOMAIN TagProviders : tag \in Range(TagProviders[i])})]

RequiredTags ==
  UNION {Range(m.tags) \cup {f.tag : f \in m.tagFilters} : m \in Metrics}

RequiredQuantifiers ==
  UNION {{m.quantifier} \cup {f.quantity : f \in m.quantityFilters} : m \in Metrics}

\* tagNames after n of the chosen providers.
AppendedNames(order) ==
  LET tagNames[n \in 0..Len(order)] ==
        IF n = 0 THEN <<>> ELSE tagNames[n - 1] \o TagProviders[order[n]]
  IN tagNames

\* A name that occurs twice has the last index.
indexTagProviders(order) ==
  LET tagNames == AppendedNames(order)
      names == tagNames[Len(order)]
  IN [names |-> names,
      nameToIndex |-> [tag \in Range(names) |-> Max({i \in DOMAIN names : names[i] = tag})],
      providers |-> [i \in DOMAIN order |->
        [provider |-> order[i],
         startIndex |-> Len(tagNames[i - 1]),
         endIndex |-> Len(tagNames[i - 1]) + Len(TagProviders[order[i]])]]]

indexQuantifiers_registry(order) ==
  [quantifiers |-> order,
   nameToIndex |-> [q \in Range(order) |-> CHOOSE i \in DOMAIN order : SetToSeq(Quantifiers)[i] = q]]

indexQuantifiers(order) ==
  [quantifiers |-> order,
   nameToIndex |-> [q \in Range(order) |-> CHOOSE i \in DOMAIN order : order[i] = q]]

\* PrepareTagsQuantifiers, called by Start: maps are walked in any order.  An
\* unknown name is an error, on which the process exits.
PrepareTagsQuantifiers ==
  /\ prepared = Unprepared
  /\ RequiredTags \subseteq DOMAIN TagProviderNameIndex
  /\ RequiredQuantifiers \subseteq Quantifiers
  /\ \E tagOrder \in SetToSeqs({TagProviderNameIndex[t] : t \in RequiredTags}),
        quantOrder \in SetToSeqs(RequiredQuantifiers) :
       prepared' = [tags |-> indexTagProviders(tagOrder), quantities |-> indexQuantifiers(quantOrder)]
  /\ UNCHANGED emitted

\* A negated filter negates each choice, not their disjunction.
testTag(filter, tagValues) ==
  LET value == tagValues[prepared.tags.nameToIndex[filter.tag]]
  IN \E choice \in filter.oneOf : IF filter.negate THEN choice # value ELSE choice = value

testQuantity(filter, quantities) ==
  LET value == quantities[prepared.quantities.nameToIndex[filter.quantity]].value
  IN CASE filter.operator = ">"  -> value > filter.threshold
       [] filter.operator = "<"  -> value < filter.threshold
       [] filter.operator = ">=" -> value >= filter.threshold
       [] filter.operator = "<=" -> value <= filter.threshold

\* metricHandler.handle: what one metric reports of one message.
handle(m, message, tagValues, quantities) ==
  LET q == quantities[prepared.quantities.nameToIndex[m.quantifier]]
  IN {[metric |-> m.name, message |-> message, quantity |-> q.value,
       tags |-> [i \in DOMAIN m.tags |-> tagValues[prepared.tags.nameToIndex[m.tags[i]]]]] :
        x \in {y \in {q} : /\ y.ok
                           /\ \A f \in m.tagFilters : testTag(f, tagValues)
                           /\ \A f \in m.quantityFilters : testQuantity(f, quantities)}}

\* ProvideValues writes the values of a provider into its slice.
TagValues(message) ==
  [k \in DOMAIN prepared.tags.names |->
     LET x == CHOOSE x \in Range(prepared.tags.providers) : x.startIndex < k /\ k <= x.endIndex
     IN TagValue(message, TagProviders[x.provider][k - x.startIndex])]

HandleMessage(message) ==
  LET quantities == [i \in DOMAIN prepared.quantities.quantifiers |-> Quantity(message, prepared.quantities.quantifiers[i])]
  IN UNION {handle(m, message, TagValues(message), quantities) : m \in Metrics}

\* handleMessageRaw: a message that arrives before Start waits for startupReady.
handleMessageRaw(message) ==
  /\ prepared # Unprepared
  /\ emitted' = emitted \cup HandleMessage(message)
  /\ UNCHANGED prepared

(***************************************************************************)
(* Reference: what the configuration says, by name.                        *)
(***************************************************************************)
Admits(f, v) ==
  CASE f.operator = ">" -> v > f.threshold [] f.operator = "<" -> v < f.threshold
    [] f.operator = ">=" -> ~(v < f.threshold) [] f.operator = "<=" -> ~(v > f.threshold)

Reports(m, message) ==
  /\ Quantity(message, m.quantifier).ok
  /\ \A f \in m.tagFilters :
       IF f.negate THEN f.oneOf # {TagValue(message, f.tag)} /\ f.oneOf # {}
       ELSE TagValue(message, f.tag) \in f.oneOf
  /\ \A f \in m.quantityFilters : Admits(f, Quantity(message, f.quantity).value)

Expected(message) ==
  {[metric |-> m.name, message |-> message, quantity |-> Quantity(message, m.quantifier).value,
    tags |-> [i \in DOMAIN m.tags |-> TagValue(message, m.tags[i])]] :
      m \in {x \in Metrics : Reports(x, message)}}
=============================================================================
