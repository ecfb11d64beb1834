SPECIFICATION Spec
CONSTANTS
  Vms = {v, w, u}
  VirtualBox = {v, u}
  theirs = u
  Clients = {win, cli}
  window = win
  Actions = {"detach", "restore", "unregister", "delete"}
  MaxReviews = 2
  MaxTroubles = 1
INVARIANTS
  CatalogIsHonest
PROPERTIES
  DeletesOnlyItsOwn
  ReviewedStateIsRun
CONSTRAINT Working
VIEW view
CHECK_DEADLOCK FALSE
