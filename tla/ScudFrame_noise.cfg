CONSTANTS
    ExpectCmd = 97
    ExpectLen = 2
    Lines <- NoisyLines
    Checksum <- Crc16Ccitt
SPECIFICATION ScanSpec
INVARIANTS AcceptedIsAFrame OnlyCoveredIsMissed
