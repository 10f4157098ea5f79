---------------------------- MODULE MCValueStream ----------------------------
(* Values of types whose widths differ: changes of the value, of an alarm, of   *)
(* labels, of the length of an array, an array that cannot be encoded, and a text *)
(* of any length. The severity stands for the fields compared with themselves.   *)
EXTENDS ValueStream

Low == [f \in Fields |-> "low"]
Of(type, wrapped, len, data, meta) ==
  [type |-> type, wrapped |-> wrapped, long |-> FALSE, len |-> len, data |-> data, meta |-> meta]
Long(text) == [text EXCEPT !.long = TRUE]

MCValues ==
  {Of("VDouble", TRUE, 1, "low", Low), Of("VDouble", TRUE, 1, "high", Low),
   Of("VDouble", TRUE, 1, "low", [Low EXCEPT !["sev"] = "high"]),
   Of("VByteArray", TRUE, 1, "low", Low), Of("VByteArray", TRUE, 3, "low", Low),
   Of("VByteArray", TRUE, 4, "high", Low), Of("VByteArray", TRUE, 0, "low", Low),
   Of("VByteArray", FALSE, 4, "low", [Low EXCEPT !["sev"] = "high"]),
   Of("VEnum", TRUE, 1, "low", Low), Of("VEnum", TRUE, 1, "low", [Low EXCEPT !["labels"] = "high"]),
   Of("VString", TRUE, 1, "high", Low), Long(Of("VString", TRUE, 1, "low", Low)), Of("VStringArray", TRUE, 1, "low", Low)}

=============================================================================
