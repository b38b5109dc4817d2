CONSTANTS
  o1 = o1
  o2 = o2
  e1 = e1
  Empty = Empty
  Absent = Absent
  Regex = Regex
  Missing = Missing
  Outputs <- MCOutputs
  ErrOutputs <- MCErrOutputs
  Codes <- MCCodes
  RegexMatch <- MCRegexMatch
  MaxInvocations = 3

SPECIFICATION Spec

INVARIANT LedgerConsistent
