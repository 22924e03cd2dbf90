\* One thread, its owner and two helpers that suspend and resume it.
CONSTANTS
  Owner = owner
  Callers = {owner, decode, other}
  NoCaller = NoCaller
SPECIFICATION FairSpec
INVARIANTS NoPostIsSwallowed
PROPERTIES NobodyHangs ImplementsPausable
CHECK_DEADLOCK TRUE
