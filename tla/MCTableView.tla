---------------------------- MODULE MCTableView ----------------------------
(* Small tables for TLC. *)
EXTENDS TableView

Extent(rows, columns) == [row |-> rows, col |-> columns]

MCPage == Extent(1, 2)
MCMaxCount == Extent(2, 4)
MCSizes == {Extent(2, 4), Extent(1, 3), Extent(None, None)}
=============================================================================
