SPECIFICATION PartsSpec
CONSTANTS
  Admin = {first, second}
  First = first
  Service = {s1, s2}
  Category = {c1}
  Name = {n, m}
  Request = {r1}
  None = None
  Keep = Keep
  Faults = TRUE
  Iconed = {i1}
  Url = {u1, u2}
  IconCall = {s1, s2}
  NoUrl = NoUrl
  NoImage = NoImage
SYMMETRY Symmetry
INVARIANTS
  PartsTypeOK
  CategoryOfOwner
  KidSeesAllowed
  CategoryPatchIsHonest
  IconIsUploadOrOwnSite
  IconReadWasAllowed
PROPERTIES
  FavoritesWereAllowed
