SPECIFICATION Spec
CHECK_DEADLOCK FALSE
CONSTANTS
  Contacts = {c1, c2}
  Added = {"mailing"}
  MaxRuns = 4
  MaxId = 6
  MaxLinks = 2
INVARIANTS TypeOK Reconciled OnePrimary NewIdsAreFree
PROPERTY LinksKeepTheirClass
