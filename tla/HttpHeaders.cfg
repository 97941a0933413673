\* Strings of at most two characters, and version numbers that wrap at 100.
CONSTANTS
  METHOD_MAX = 2
  RESOURCE_MAX = 2
  QUERY_STRING_MAX = 2
  HEADER_NAME_MAX = 2
  HEADER_VALUE_MAX = 2
  VersionModulus = 100
SPECIFICATION Spec
INVARIANTS StringsBounded EndsWithEmptyLine EmptyLineEnds
CHECK_DEADLOCK FALSE
