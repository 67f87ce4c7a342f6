----------------------------- MODULE MCWarRoom -----------------------------
(* Small values for the constants of WarRoom.                              *)
EXTENDS WarRoom

CONSTANTS r1, r2

\* ALTER TABLE ... ADD COLUMN, and DROP COLUMN on a table tagged pii.
AddColumn == [patch_kind |-> "DDL", destructive |-> FALSE,
              drops_column |-> FALSE, has_where |-> FALSE, pii_like |-> FALSE]
DropColumn == [patch_kind |-> "DDL", destructive |-> TRUE,
               drops_column |-> TRUE, has_where |-> FALSE, pii_like |-> FALSE]

SafeAndBlocked == {AddColumn, DropColumn}

OneDataset == {"own"}
OwnIsTaggedPii == [d \in {"own"} |-> [DefaultMetadata EXCEPT !.pii_tagged = TRUE]]

TwoRequests == {r1, r2}
=============================================================================
