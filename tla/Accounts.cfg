SPECIFICATION PartsSpec
CONSTANTS
  Email = {ann, bob}
  Request = {r1, r2}
  State = {s1}
  IdpAdmins = {ann}
  Modes = {TRUE, FALSE}
  Ttl = 1
  MaxTime = 2
  None = None
  Key = {key1, key2}
  Verification = {r1, r2}
  NoKey = NoKey
  Adult = {u1}
  Kid = {k1}
  Call = {r1, r2}
  Sent = {"theme", "density"}
  Leave = Leave
  Bad = Bad
  NoAccount = NoAccount
  Patching = {p1, p2, p3}
  Ms = {1, 2}
  EnvMs = 1
  Unset = Unset
  Omit = Omit
  Faults = TRUE
SYMMETRY Symmetry
INVARIANTS
  PartsTypeOK
  BootstrapWindow
  StateUsedOnce
  RotationFollowedUnlessOverlapped
  AnswerIsHonest
  ShownUnlessOverlapped
PROPERTIES
  AccountsAreKept
  PrefsAreOwn
  OmittedFieldsKept
