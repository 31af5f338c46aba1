------------------------------ MODULE MCSources ------------------------------
(***************************************************************************)
(* Instances of Sources for TLC: calls of two items over a file under the   *)
(* roots and one outside, alone and two in a batch.                        *)
(***************************************************************************)
EXTENDS Sources

CONSTANTS in, out

Json(f, one) == [src |-> "jsonpath", file |-> f, one |-> one]
Of(src) == [src |-> src, file |-> in, one |-> TRUE]

Direct(call, raw) == [calls |-> <<call>>, direct |-> TRUE, raw |-> raw]
Batch(calls, raw) == [calls |-> calls, direct |-> FALSE, raw |-> raw]

Submitted ==
    {Direct(<<Json(in, TRUE), Json(in, TRUE)>>, FALSE),
     Direct(<<Json(in, FALSE)>>, FALSE),
     Direct(<<Of("command"), Of("file")>>, FALSE),
     Direct(<<Of("literal"), Of("file")>>, TRUE),
     Direct(<<Of("command"), Of("both")>>, FALSE),
     Direct(<<Json(out, TRUE)>>, FALSE),
     Batch(<<<<Json(in, TRUE)>>, <<Json(in, TRUE), Of("command")>>>>, FALSE),
     Batch(<<<<Of("command")>>, <<Of("command"), Of("file")>>>>, TRUE),
     Batch(<<<<Of("file")>>, <<Of("literal"), Of("neither")>>>>, FALSE)}
=============================================================================
