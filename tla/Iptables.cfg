SPECIFICATION Spec
INVARIANTS TypeOK OneHook SetupExact LocalNeverQueued CleanSlate
PROPERTIES InterceptionKept
CONSTANTS
  Local <- MCLocal
  Devs = {wan, ppp}
  AnyDev = AnyDev
  Nothing = Nothing
  MaxMissed = 1
