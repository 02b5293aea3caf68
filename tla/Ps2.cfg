SPECIFICATION Spec
CONSTANTS
    Reports <- MCReports
    ScanCodeSet1 <- MCScanCodeSet1
    ScanCodeUpperSet1 <- MCScanCodeUpperSet1
    ScanCodeCapsSet1 <- MCScanCodeCapsSet1
    BufferSize = 3
    Width = 5
    Height = 4
    Firmware = 69
    MaxTraffic = 8
INVARIANTS TypeOK PacketsInStep PointerFollowsReports BufferHoldsText ConfigurationKept
PROPERTIES PointerOnDisplay InitEnds
\* The bounds end the devices' bytes, and nothing else happens after the boot.
CHECK_DEADLOCK FALSE
