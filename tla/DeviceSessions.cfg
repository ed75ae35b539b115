SPECIFICATION DeviceSpec
CONSTANTS
  Token = {t1, t2}
  Adult = {admin}
  Admin = {admin}
  Kid = {kid}
  Device = {d1}
  Request = {r1, r2}
  NoRow = NoRow
  NoUser = NoUser
  NoToken = NoToken
  NoRequest = NoRequest
  Keep = Keep
  TouchInterval = 1
  AdultLifetime = 2
  KidLifetime = 3
  MaxTime = 2
  Ops = {"read", "login", "logout", "signInHere", "revoke", "deleteKid"}
  Faults = TRUE
SYMMETRY Symmetry
INVARIANTS
  DeviceTypeOK
  HandOverEndsAdminSession
  DeadCookieIsNobody
  CarriedSessionEnded
PROPERTIES
  ImplementsStore
