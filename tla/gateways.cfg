SPECIFICATION Spec
CONSTANTS
  localhost = localhost
  example = example
  site = site
  sub = sub
  Hosts <- MCHosts
  Under <- MCUnder
INVARIANTS
  TrustlessWins
  OnlySafelistedUseDNSLink
  SubdomainsStay
\* The table is complete.
CHECK_DEADLOCK FALSE
