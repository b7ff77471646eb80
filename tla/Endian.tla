------------------------------- MODULE Endian -------------------------------
(***************************************************************************)
(* The integers a Net::Buffer carries, as the bytes they are on the wire:   *)
(* most significant first.                                                  *)
(***************************************************************************)
EXTENDS Integers, Sequences, SequencesExt

CONSTANT Base           \* values of a byte

ASSUME BaseAssumption == Base \in Nat \ {0, 1}

Byte == 0..(Base - 1)

Number(size) == 0..(Base^size - 1)

HostToNetwork(num, size) == [i \in 1..size |-> (num \div Base^(size - i)) % Base]

NetworkToHost(bytes) == FoldLeft(LAMBDA num, byte : num * Base + byte, 0, bytes)
=============================================================================
