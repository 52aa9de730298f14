----------------------------- MODULE MCBackend -----------------------------
(* A small instance of Backend: letters and bytes of a few values, hashes   *)
(* of two bytes, with and without leading zeros, and a checksum of one.    *)
EXTENDS Backend

\* Like the real one, it is not zero for a payload of zeros.
OneByteChecksum(payload) == <<(NumberOf(payload, 3) + 1) % Byte>>

SomeHashes == {<<0, 0>>, <<0, 3>>, <<1, 2>>, <<3, 3>>}

ShortStrings == UNION {[1..n -> 0..(Base - 1)] : n \in 1..6}

\* Numbers of one byte and of two, with and without zeros.
SomeNumbers == {1, 3, 4, 15}
=============================================================================
