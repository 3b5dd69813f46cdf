------------------------- MODULE MCHomeBlksShutdown -------------------------
EXTENDS HomeBlksShutdown

MCFixesAll == {"CbChecksShutdown", "DestroyReturns", "OfflineDestroyed", "RedestroyGuard",
               "InitYieldsToShutdown"}
MCFixesNoCbCheck == MCFixesAll \ {"CbChecksShutdown"}
MCFixesNoInitYield == MCFixesAll \ {"InitYieldsToShutdown"}
=============================================================================
