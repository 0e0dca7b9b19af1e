CONSTANTS
  Names = {u1, u2, u3}
  Batches <- MCBatches
  MaxCrashes = 2
SPECIFICATION FairSpec
INVARIANTS
  IdsDense
  OneLostPerCrash
PROPERTIES
  NeverRepaired
  ImplementsAllocator
