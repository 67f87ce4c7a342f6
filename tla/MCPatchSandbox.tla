--------------------------- MODULE MCPatchSandbox ---------------------------
(* Small values for the constants of PatchSandbox.                         *)
EXTENDS PatchSandbox

Ref(table, form) == [table |-> table, form |-> form]

\* Every way the target may be named, and the two tables it may be taken for.
SomeRefs == {Ref("target", "qualified"), Ref("target", "dataset"),
             Ref("target", "parts"), Ref("longer", "qualified"),
             Ref("other", "dataset")}

SomeStatements == {s \in SQL : s.ref \in SomeRefs}
=============================================================================
