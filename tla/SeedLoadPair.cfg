SPECIFICATION Spec
CHECK_DEADLOCK FALSE
CONSTANTS
  Procs = {p1, p2}
  Datasets <- Shared
  NoSlug = ""
  Seeded = {"matt"}
  Stoppable = {p2}
  Shaky = {p1}
  Misreads = {p2}
  MaxTenants = 3
  MaxStarts = 3
INVARIANTS TypeOK MembershipsAreGranted
PROPERTIES LoadIsComplete PlatformReloadAddsNothing UnloadIsComplete UnloadRemovesOnlyItsOwn
