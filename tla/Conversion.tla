----------------------------- MODULE Conversion -----------------------------
(***************************************************************************)
(* How the generated libraries put typed values into 32-byte words, and    *)
(* take them out again (scripts/generate/templates/conversion.js).  Words  *)
(* are numbers; a type is the number of its values.                        *)
(***************************************************************************)
EXTENDS Naturals

CONSTANT TypeSize  \* how many values "bytes32", "uint256" and "address" have

ASSUME TypeSizeAssumption ==
    /\ TypeSize \in [{"bytes32", "uint256", "address"} -> Nat \ {0}]
    /\ TypeSize["uint256"] = TypeSize["bytes32"]
    /\ TypeSize["address"] <= TypeSize["bytes32"]

Values(type) == 0..(TypeSize[type] - 1)
Words == Values("bytes32")

\* bytes32(uint256(uint160(v))): no wider type is narrowed here.
ToBytes32(type, v) == v

\* Mutant: takes an address to be as wide as a word less one bit.
FromBytes32Short(type, word) ==
    IF type = "bytes32" THEN word ELSE word % (TypeSize["bytes32"] \div 2)

\* address(uint160(uint256(word))): what does not fit is cut off.
FromBytes32(type, word) ==
    IF type = "bytes32" THEN word ELSE word % TypeSize[type]
=============================================================================
