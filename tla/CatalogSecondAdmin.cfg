SPECIFICATION CatalogSpec
CONSTANTS
  Admin = {first, second}
  First = first
  Service = {s1}
  Category = {c1}
  Name = {n}
  Request = {r1}
  None = None
  Keep = Keep
  Faults = FALSE
INVARIANT CreatedIsShared
