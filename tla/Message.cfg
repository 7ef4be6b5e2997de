\* A stream whose calls throw at any point, with buffers of three and two characters and six
\* characters each way; two header fields, two cookies, and bodies of up to three pieces, some of
\* a length with two digits, or of one with three, which is a digit more than is read.
CONSTANTS
  OutputSize = 3
  InputSize = 2
  MaxChars = 6
  MaxFailures = 2
  Paths <- SomePaths
  Parameters <- FewParameters
  Raw <- RawTargets
  PathLimit = 22
  FieldNames <- FewNames
  FieldValues <- ShortValues
  MaxFields = 2
  NameLimit = 2
  ValueLimit = 3
  CookieNames <- SomeCookieNames
  CookieValues <- SomeCookieValues
  MaxCookies = 2
  LineLimit = 16
  Contents <- SomeContents
  Buffers = {1, 4}
  Width = 16
  SizeChars = 4

SPECIFICATION MessageSpec

\* Every part ends.
CHECK_DEADLOCK FALSE

INVARIANT StreamDelivers
INVARIANT TargetDecoded
INVARIANT HeadersMeant
INVARIANT CookiesKept
INVARIANT BodyWhole
