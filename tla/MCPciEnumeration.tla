-------------------------- MODULE MCPciEnumeration --------------------------
(* Tables of one and two entries and six functions: every table can        *)
(* overflow, two of them in one scan, before or after the first device of  *)
(* the class behind.                                                       *)
EXTENDS PciEnumeration

MCSize == [a \in Areas |->
  IF a \in {"ISA", "IDE", "USB", "padding"} THEN 2 ELSE 1]
=============================================================================
