----------------------------- MODULE PointConfig -----------------------------
(***************************************************************************)
(* A configured point and what internal/config/point_config.go derives from *)
(* it.  Tag names and descriptions have no part in reading: a point is its  *)
(* register type, address, data type and bit field.  The widths of the      *)
(* protocol are parameters, so that a small instance reaches their limits.  *)
(***************************************************************************)
EXTENDS Integers

CONSTANTS
    AddrSpace,     \* addresses are 0 .. AddrSpace - 1, in uint16 arithmetic: 2^16
    ByteBits,      \* bits in a byte: 8
    MaxRegisters,  \* maxRegisters, 125
    MaxCoils       \* maxCoils, 2000

\* One read holds any one point, and at its limit, with one more point, it still
\* fits into uint16.
ASSUME ConfigAssumption ==
    /\ AddrSpace \in Nat /\ ByteBits \in Nat \ {0}
    /\ MaxRegisters \in Nat /\ MaxRegisters >= 4 /\ MaxRegisters + 4 < AddrSpace
    /\ MaxCoils \in Nat \ {0} /\ MaxCoils + 4 < AddrSpace

BitType == {"CoilStatus", "InputStatus"}
RegType == {"HoldingReg", "InputReg"} \cup BitType
DataType == {"Bool", "Int16", "UInt16", "Int32", "UInt32", "Float32", "Double"}

PointConfig ==
    [reg: RegType, addr: 0 .. AddrSpace - 1, type: DataType,
     off: Nat, len: Nat]

IsRegTypeBit(reg) == reg \in BitType

MaxQty(reg) == IF IsRegTypeBit(reg) THEN MaxCoils ELSE MaxRegisters

\* Registers of two bytes, and the width of a value in them.
Registers(type) ==
    CASE type \in {"Int32", "UInt32", "Float32"} -> 2
      [] type = "Double" -> 4
      [] OTHER -> 1

GetRegisterCount(pt) == IF IsRegTypeBit(pt.reg) THEN 1 ELSE Registers(pt.type)

TypeBitWidth(type) == IF type = "Bool" THEN 1 ELSE 2 * ByteBits * Registers(type)

EffectiveLen(pt) == IF pt.off > 0 /\ pt.len = 0 THEN 1 ELSE pt.len

\* What every stored point has passed, from a form, a request or a CSV file.
InAddressRange(pt) == pt.addr + Registers(pt.type) - 1 < AddrSpace

ValidatePoint(pt) ==
    IF IsRegTypeBit(pt.reg)
    THEN pt.type = "Bool" /\ pt.off = 0 /\ pt.len = 0
    ELSE /\ pt.type \in {"Bool", "Float32", "Double"} => pt.off = 0 /\ pt.len = 0
         /\ pt.type \notin {"Bool", "Float32", "Double"} => pt.off # 0 \/ pt.len # 0
         /\ pt.off + EffectiveLen(pt) <= TypeBitWidth(pt.type)
         /\ pt.off < TypeBitWidth(pt.type)
         /\ InAddressRange(pt)

==============================================================================
