SPECIFICATION AccountsSpec
CONSTANTS
  Email = {ann, bob}
  Request = {r1, r2}
  State = {}
  IdpAdmins = {}
  Modes = {FALSE}
  Ttl = 1
  MaxTime = 3
  None = None
INVARIANT OneBootstrap
