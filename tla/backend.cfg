SPECIFICATION FairSpec
CONSTANTS
  Base = 3
  Byte = 4
  ChecksumLen = 1
  Checksum <- OneByteChecksum
  Width = 2
  Numbers <- SomeNumbers
  Client = {c1, c2, c3}
  Hashes <- SomeHashes
  Spellings <- ShortStrings
  MaxAdds = 3
  MaxFaults = 1
  MaxCrashes = 1
INVARIANTS TypeOK NoOldValueComesBack ResolvesLastAdd OwnAddressIsValid OwnSignatureVerifies AddressHasOneSpelling
PROPERTIES NameComesBack ImplementsNames
CHECK_DEADLOCK FALSE
