\* Three events of a pod, two link workers or two consumer groups.
CONSTANTS
  Requests = {"r"}
  Items <- MCItems
  Workers = {pw}
  NumPartitions = 2
  PartitionKeyType = "object"
  PartitionByObject = TRUE
  HashFunctions <- MCHashFunctions
  ClusterFilter = ""
  ExcludedTypes = {"lease"}
  ExcludedAgents = {"leader-election"}
  Regexes <- MCRegexes
  KnownTypes = {"pod", "replicaset"}
  None = None
  TagProviders <- MCTagProviders
  Quantifiers = {"count", "latency"}
  Metrics <- MCMetrics
  TagValue <- MCTagValue
  Quantity <- MCQuantity
  Unprepared = Unprepared
  Objects <- MCObjects
  OwnerReferences <- MCOwnerReferences
  LinkAnnotation <- MCLinkAnnotation
  Deployments <- MCDeployments
  DiscoveredTypes = {"pod", "replicaset"}
  NoLink = NoLink
  Malformed = Malformed
  Absent = Absent
  Pending = Pending
  MaxFaults = 1
  MaxExpiries = 1
SPECIFICATION Spec
INVARIANTS
  OrderPerObject
  MetricsMatchConfig
  LinksComplete
  OneFetch
PROPERTIES
  EverythingSettles
CHECK_DEADLOCK FALSE
