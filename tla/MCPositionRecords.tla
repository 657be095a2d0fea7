--------------------------- MODULE MCPositionRecords ---------------------------
(***************************************************************************)
(* The paths buildOpenPosition and buildUnwindAndClose try, in the order   *)
(* they try them: the next when one does not fit in a transaction.         *)
(***************************************************************************)
EXTENDS PositionRecords

Opens == {<<"open", "buy">>}
AllOpens == {<<"openAndBuy">>, <<"open", "buy">>, <<"create", "open", "buy">>}
Closes == {<<"unwindAndClose">>, <<"unwind", "close">>}
==============================================================================
