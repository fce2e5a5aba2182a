CONSTANTS
    Lenses <- MCLenses
    Seat <- MCSeat
    Weight <- MCWeight
    Reads <- MCReads
    Gates <- MCGates
    Binding = TRUE
    MaxCrashes = 1
    None = None
SPECIFICATION Spec
INVARIANTS
    
    RoundOneOnlyLowers
    BackedByWeight
    PeersNeverConfirm
   
