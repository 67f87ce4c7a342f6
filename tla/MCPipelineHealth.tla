-------------------------- MODULE MCPipelineHealth --------------------------
(* Two checks of one job, as model values, and what the job may log.       *)
EXTENDS PipelineDiagnosis

CONSTANTS c1, c2

TwoChecks == {c1, c2}
OneCheck == {c1}

Line(kind, says) == [kind |-> kind, says |-> says]

SomeTexts == {Line("marker", {"column of relation"}), Line("marker", {"relation"}),
              Line("marker", {"permission", "connection"}),
              Line("text", {"column"})}
PlainTexts == {Line("marker", {}), Line("text", {}), Line("fields", {})}
=============================================================================
