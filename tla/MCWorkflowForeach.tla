--------------------------- MODULE MCWorkflowForeach ---------------------------
(***************************************************************************)
(* Source outputs for TLC: every way materialisation can fail, no item,    *)
(* one item, two keyed items, and a keyed item beside one without a key.   *)
(***************************************************************************)
EXTENDS WorkflowForeach

MCStableIds == {"a", "0000", "0001"}
MCPadded == <<"0000", "0001", "0002">>
MCSlug == [k \in {"A", "a", "zero", "!?"} |->
             CASE k \in {"A", "a"} -> "a" [] k = "zero" -> "0000" [] OTHER -> NoSlug]
MCOutputs == {Malformed, <<>>, <<"A">>, <<"A", NoKey>>, <<"A", "a">>,
              <<"!?">>, <<NoKey, "zero">>, <<"A", "a", "!?">>}
=============================================================================
