\* Up to two handlers, of each kind, for resources with and without common parts.
CONSTANTS
  Methods = {"GET", "HEAD", "OPTIONS", "PATCH"}
  Resources <- SomeResources
  MaxAdds = 2
SPECIFICATION RoutingSpec
INVARIANTS ServedByNearest AddedIsServed
CHECK_DEADLOCK FALSE
