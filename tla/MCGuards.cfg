\* Two threads that nest at most two guards; core 9 does not exist.
SPECIFICATION Spec
CONSTANTS
  Threads = {t1, t2}
  CPUs = {0, 1}
  Cores = {0, 1, 9}
  MaxGuards = 2
INVARIANT GuardHolds
