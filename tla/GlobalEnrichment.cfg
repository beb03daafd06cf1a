\* Registry, token and trigger together, with few requests of each.
CONSTANTS
  t1 = t1
  t2 = t2
  a1 = a1
  a2 = a2
  NoTenant = NoTenant
  Tenants <- MCTenants
  Admins <- MCAdmins
  Scripts <- MCScripts
  Names = {"shop", "store"}
  Categories = {"perfumeria", "easy_muebles"}
  BusinessTypes = {"perfumeria", "bazar"}
  Clients = {"trigger", "lookup"}
  Triggers = {"trigger"}
  MaxRequests = 3
  MaxFaults = 1
  TTL = 3
  RefreshLead = 1
  MaxLoop = 3
  MaxTime = 3
SYMMETRY Symmetric
SPECIFICATION Spec
INVARIANTS TypeOK JobsOfTheirTenant RefusedOnlyLate MintedOncePerPeriod
PROPERTY OnlyStaleUpdatesUndo
CHECK_DEADLOCK FALSE
