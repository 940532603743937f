--------------------------- MODULE MCPresentations ---------------------------
(***************************************************************************)
(* An instance of Presentations: a paragraph, a cell of a table, a picture *)
(* deep in a cell of it, a cell of a second table, a chart and one of its  *)
(* series.                                                                 *)
(***************************************************************************)
EXTENDS Presentations

CONSTANTS text, cell, picture, other, chart, series, tableA, tableB

MCObjects == {text, cell, picture, other, chart, series}
MCTables == {tableA, tableB}
MCTableAt == [o \in MCObjects |-> CASE o = cell -> tableA [] o = other -> tableB [] OTHER -> None]
MCDeepTableAt == [o \in MCObjects |-> IF o = picture THEN tableA ELSE MCTableAt[o]]
MCCharts == {chart, series}
MCWithin == [t \in MCTables \cup MCCharts |->
  CASE t = tableA -> {cell, picture} [] t = tableB -> {other} [] OTHER -> MCCharts]
MCExcel == {tableA}
MCGraphics == {picture}
MCLocated == {cell, picture}
=============================================================================
