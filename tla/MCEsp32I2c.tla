----------------------------- MODULE MCEsp32I2c -----------------------------
(* Esp32I2c with one device of each kind and lists that drivers use: a     *)
(* pointer write, a read, both in one list, a read split with END, a       *)
(* write of a register, an absent address.                                 *)
EXTENDS Esp32I2c

MCFail == {<<1, "once">>, <<2, "latched">>}
MCDevices == <<"gauge", "charger", "probe">>
Cmd(op, n) == [op |-> op, n |-> n, check |-> TRUE]

Begin == Cmd("rstart", 0)
Over == Cmd("stop", 0)
Split == Cmd("end", 0)
Write(a) == 2 * a
Read(a) == 2 * a + 1

ReadWord(a) ==
  [bytes |-> <<Write(a), 0, Read(a)>>,
   cmds |-> <<Begin, Cmd("write", 2), Begin, Cmd("write", 1), Cmd("read", 2), Over>>]
ReadSplit(a) ==
  [bytes |-> <<Read(a)>>, cmds |-> <<Begin, Cmd("write", 1), Cmd("read", 1), Split>>]
Rest == [bytes |-> <<>>, cmds |-> <<Cmd("read", 1), Over>>]
WriteWord(a) == [bytes |-> <<Write(a), 0, 1>>, cmds |-> <<Begin, Cmd("write", 3), Over>>]

MCPrograms ==
  {ReadWord(1), ReadSplit(1), Rest, WriteWord(3)}
Bridged(a) ==
  [bytes |-> <<Write(a), 0, Read(a)>>,
   cmds |-> <<Cmd("write", 2), Over, Cmd("write", 1), Cmd("read", 2), Over>>]
MCTransfers == {Bridged(2)}
=============================================================================
