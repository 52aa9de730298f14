------------------------------ MODULE Address ------------------------------
(***************************************************************************)
(* package address: an address is the public key's hash behind a version   *)
(* byte and before a checksum, in base 58.  The base, the size of a byte   *)
(* and the checksum are parameters; a letter of the alphabet is its index, *)
(* and any other character -1.                                             *)
(***************************************************************************)
EXTENDS Integers, Sequences

CONSTANTS
  Base,        \* letters of the alphabet, 58
  Byte,        \* values of a byte, 256
  ChecksumLen, \* 4
  Checksum(_)  \* payload -> ChecksumLen bytes

ASSUME DigitsAssumption == Base \in Nat \ {0, 1} /\ Byte \in Nat \ {0, 1}
ASSUME ChecksumAssumption == ChecksumLen \in Nat \ {0}

Version == 0

-----------------------------------------------------------------------------
Magnitude(x) == IF x < 0 THEN -x ELSE x

\* The number that digits spell.
NumberOf(digits, base) ==
  LET upTo[i \in 0..Len(digits)] ==
        IF i = 0 THEN 0 ELSE upTo[i - 1] * base + digits[i]
  IN upTo[Len(digits)]

\* The digits of a number, none for 0.
DigitsOf(x, base) ==
  LET of[y \in 0..x] ==
        IF y = 0 THEN <<>> ELSE Append(of[y \div base], y % base)
  IN of[x]

\* The loops that count leading zeros run off the end of an input that has
\* nothing else.
RunsOff(s) == \A i \in DOMAIN s : s[i] = 0

LeadingZeros(s) ==
  LET first == CHOOSE i \in DOMAIN s : s[i] # 0 /\ \A j \in 1..(i - 1) : s[j] = 0
  IN SubSeq(s, 1, first - 1)

\* Mutated: leading zeros are left to the number, which has none.
EncodeNumberOnly(input) == DigitsOf(NumberOf(input, Byte), Base)

Base58Encode(input) ==
  LeadingZeros(input) \o DigitsOf(NumberOf(input, Byte), Base)

\* Mutated: leading zeros are not put back.
DecodeNumberOnly(input) == DigitsOf(Magnitude(NumberOf(input, Base)), Byte)

\* A number below zero, which characters outside the alphabet spell, loses its sign.
Base58Decode(input) ==
  LeadingZeros(input) \o DigitsOf(Magnitude(NumberOf(input, Base)), Byte)

-----------------------------------------------------------------------------
\* generateAddressHash, from the hash of the public key.
AddressFor(pubKeyHash) ==
  LET payload == <<Version>> \o pubKeyHash
  IN Base58Encode(payload \o Checksum(payload))

IsValid(addr) ==
  /\ addr # <<>>
  /\ ~RunsOff(addr)
  /\ LET bytes == Base58Decode(addr)
         payload == SubSeq(bytes, 1, Len(bytes) - ChecksumLen)
     IN /\ Len(bytes) > ChecksumLen
        /\ bytes = payload \o Checksum(payload)
=============================================================================
