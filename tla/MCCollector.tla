----------------------------- MODULE MCCollector -----------------------------
EXTENDS Collector, TLC

Register(addr, type) == [reg |-> "HoldingReg", addr |-> addr, type |-> type, off |-> 0,
    len |-> IF type \in {"Int16", "UInt16", "Int32", "UInt32"} THEN TypeBitWidth(type) ELSE 0]
Coil(addr) == [reg |-> "CoilStatus", addr |-> addr, type |-> "Bool", off |-> 0, len |-> 0]

\* Three points at any addresses, all registers or all bits, or both at the start.
Anywhere == {p \in {Register(a, ty) : a \in 0 .. AddrSpace - 1, ty \in {"Int16", "Double"}} :
                ValidatePoint(p)}
Mixed == {Register(0, "Int16"), Register(1, "Int16"), Coil(0), Coil(1)}
Merged == {plan \in [1..3 -> Anywhere] \cup [1..3 -> {Coil(a) : a \in 0 .. AddrSpace - 1}]
                    \cup [1..3 -> Mixed] :
              plan[1].addr <= plan[2].addr /\ plan[2].addr <= plan[3].addr}

\* One point with any bit field, behind another that moves it inside the read.
Fields == {p \in [reg : {"HoldingReg"}, addr : {2}, type : DataType,
                  off : 0 .. 8 * ByteBits, len : 0 .. 8 * ByteBits] : ValidatePoint(p)}
Decoded == {(1 :> Register(a, "Int16")) @@ (2 :> p) : a \in {0, 1}, p \in Fields}

MCPlans == Merged \cup Decoded

MCDevices == [points : Merged, order : {"ABCD"}] \cup [points : Decoded, order : ByteOrder]

Registers4 == 2^(2 * ByteBits)
MCMemories == {[r \in RegType |-> [a \in 0 .. AddrSpace - 1 |-> (7 * a + 6) % Registers4]],
               [r \in RegType |-> [a \in 0 .. AddrSpace - 1 |-> (11 * a + 9) % Registers4]]}
==============================================================================
