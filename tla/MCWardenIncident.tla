-------------------------- MODULE MCWardenIncident --------------------------
(* Small values for the constants of WardenIncident.                       *)
EXTENDS WardenIncident, TLC

CONSTANTS r1, r2

\* ALTER TABLE ... ADD COLUMN: no policy objects.
AddColumn == [patch_kind |-> "DDL", destructive |-> FALSE,
              drops_column |-> FALSE, has_where |-> FALSE, pii_like |-> FALSE]

\* ALTER TABLE ... DROP COLUMN: BLOCK on a table tagged pii.
DropColumn == [patch_kind |-> "DDL", destructive |-> TRUE,
               drops_column |-> TRUE, has_where |-> FALSE, pii_like |-> FALSE]

\* UPDATE without WHERE that names a pii-like column: WARN.
BroadUpdate == [patch_kind |-> "DML", destructive |-> FALSE,
                drops_column |-> FALSE, has_where |-> FALSE, pii_like |-> TRUE]

SafeAndBlocked == {AddColumn, DropColumn}
AllCandidates == {AddColumn, DropColumn, BroadUpdate}

TwoDatasets == {"own", "other"}
OneDataset == {"own"}
OwnIsTaggedPii ==
  [d \in {"own", "other"} |->
     [DefaultMetadata EXCEPT !.pii_tagged = (d = "own")]]
OwnOnlyTaggedPii == [d \in {"own"} |-> [DefaultMetadata EXCEPT !.pii_tagged = TRUE]]

TwoRequests == {r1, r2}
NoRequests == {}

OneRequest == {r1}

RequestSymmetry == Permutations(TwoRequests)
=============================================================================
