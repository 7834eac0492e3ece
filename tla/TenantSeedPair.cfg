SPECIFICATION FairSpec
CHECK_DEADLOCK FALSE
CONSTANTS
  Procs = {p1, p2}
  Customers <- OneCustomer
  Vendors <- OneVendor
  Invoices <- OneInvoice
  Bills <- OneBill
  Accounts <- AllAccounts
  BillingClass = TRUE
  Shaky = {p1}
  Stoppable = {p2}
  MaxStarts = 2
  MaxLocations = 4
  None = None
INVARIANTS TypeOK DocumentsAreWhole InvoicesOnce SuccessMeansSeeded
PROPERTY EveryRunEnds
