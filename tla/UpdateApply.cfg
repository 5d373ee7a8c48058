SPECIFICATION FairSpec
CONSTANTS
  p = p
  q = q
  r = r
  A = A
  B = B
  C = C
  Files = {p, q, r}
  Contents = {A, B, C}
  ContentOf <- ContentOfABC
  Extractable = {A, B}
  WithRootfs = {A, B}
  WithBoot = {A, B}
  BootFiles = 2
  MaxTime = 0
  MaxPowerLoss = 2
  MaxFault = 1
INVARIANTS
  TypeOK
  InterruptedUpdateIsRetried
  RebootsOnlyWhenRecorded
  OnlyPowerLossLeaksTmp
PROPERTIES
  AppliedMeansInstalled
  EveryPackageIsTaken
CHECK_DEADLOCK FALSE
