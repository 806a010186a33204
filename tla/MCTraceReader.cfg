SPECIFICATION Spec
CONSTANTS
  Traces <- MCTraces
  Spans <- MCSpans
  Late <- MCLate
  Configs <- MCConfigs
  Searches <- MCSearches
  FollowLinksInList = {TRUE, FALSE}
  CacheExtensions = {TRUE, FALSE}
  Extended <- MCExtended
  FollowLimit = 2
  TraceLimit = 1
  QueryStart = 10
  QueryEnd = 40
INVARIANTS
  ReopenIsOneTree
  MembersShown
  FollowBounded
  VisitorsRespectTree
  EventsShownOnce
