SPECIFICATION Spec
CONSTANTS
  root = root  ada = ada  super = super  staff = staff  c1 = c1  c2 = c2
  Users = {root, ada}  Roles = {super, staff}  Names <- MCNames  Privs <- MCPrivs
  Admin = root  SuperRole = super  None = None
  Callers = {c1, c2}  Loads <- MCLoads  TTL = 1
INVARIANT StaleBounded
PROPERTIES RevokeKeepsHolder ChangedByHolder
CHECK_DEADLOCK FALSE
