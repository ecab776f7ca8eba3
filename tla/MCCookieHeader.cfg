SPECIFICATION FairSpec
CONSTANTS
  R = R
  S = S
  Other = Other
  Names <- AllNames
  Refresh = R
  Session = S
  NameLength <- Lengths
  Requests <- AllRequests
INVARIANTS
  TypeOK
  FirstWithName
  SessionNotSkipped
  OwnCookiesRead
PROPERTIES
  Answered
