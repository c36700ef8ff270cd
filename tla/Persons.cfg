SPECIFICATION PSpec
CONSTANTS
  ann = ann  dup = dup  eve = eve  annMail = annMail  dupMail = dupMail  gAnn = gAnn  gDup = gDup  c1 = c1  c2 = c2
  merge = merge  modify = modify  remove = remove  project = project  account = account  dn1 = dn1  dn2 = dn2
  Users = {ann, dup, eve}  Persons = {gAnn, gDup}  Emails = {annMail, dupMail}  Subs = {sub1}
  NewUsers = {eve}  FirstEmail <- MCFirstEmail  None = None  Callers = {worker, c1, c2}  Worker = worker
  DNs = {dn1, dn2}  Body <- MCBody  FirstDN <- MCFirstDN  MaxAttempts = 2  Loads <- MCLoads
INVARIANTS PTypeOK  ActiveIsLinked
PROPERTY IdentitiesKept
CHECK_DEADLOCK FALSE
