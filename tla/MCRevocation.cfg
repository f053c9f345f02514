SPECIFICATION Spec
CHECK_DEADLOCK FALSE
CONSTANTS
 r1 = r1 r2 = r2 r3 = r3 o1 = o1
 Settings <- SkewAndUpgrade
 Jtis = {j1} Sub = sub NoEntry = NoEntry NoGen = NoGen Second = 2
SYMMETRY Symmetry
INVARIANTS RevokedStaysRevoked FreshKeyWorks SweepCovers CutoffRefusesMint
