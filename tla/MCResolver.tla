----------------------------- MODULE MCResolver -----------------------------
(* Small instances of Resolver.                                            *)
EXTENDS Resolver, TLC

ReaderSymmetry == Permutations(Reader)
=============================================================================
