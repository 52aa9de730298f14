-------------------------------- MODULE Keys --------------------------------
(***************************************************************************)
(* How key pairs and signatures are written.  A public key is a point and  *)
(* a signature a pair of numbers: each number is padded to Width bytes,    *)
(* one goes behind the other, and a reader splits them in the middle.      *)
(* Four places write such pairs and four read them.  The curve is left     *)
(* out: a signature verifies when what is read is what was made.           *)
(***************************************************************************)
EXTENDS Address

CONSTANTS
  Width,   \* bytes of a coordinate and of half a signature, 32
  Numbers  \* what key generation and signing may come up with

ASSUME WidthAssumption == Width \in Nat \ {0}
ASSUME NumbersAssumption == Numbers \subseteq Nat

LeftPadBytes(slice, length) ==
  [i \in 1..(length - Len(slice)) |-> 0] \o slice

\* big.Int's Bytes: no leading zeros.
Bytes(x) == DigitsOf(x, Byte)

\* The curve's numbers fit into the bytes they are padded to.
ASSUME FitAssumption == \A x \in Numbers : Len(Bytes(x)) <= Width

\* Mutated: the numbers are written as they come.
PairUnpadded(xy) == Bytes(xy[1]) \o Bytes(xy[2])

Pair(xy) == LeftPadBytes(Bytes(xy[1]), Width) \o LeftPadBytes(Bytes(xy[2]), Width)

Halves(bytes) ==
  LET middle == Len(bytes) \div 2
  IN <<NumberOf(SubSeq(bytes, 1, middle), Byte),
       NumberOf(SubSeq(bytes, middle + 1, Len(bytes)), Byte)>>

NewKeyPair(d, point) == [private |-> Bytes(d), public |-> Pair(point)]

ToEcdsaPrivateKey(keys) ==
  [d |-> NumberOf(keys.private, Byte), point |-> Halves(keys.public)]

\* A message carries the public key with it, written again from the point.
SignWithKey(key, signature) ==
  [public |-> Pair(key.point), signature |-> Pair(signature)]

VerifySignature(message, point, signature) ==
  Halves(message.public) = point /\ Halves(message.signature) = signature
=============================================================================
