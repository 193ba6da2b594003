------------------------ MODULE MCPriceHistoryCollector ------------------------
(***************************************************************************)
(* Pages of two items over a catalog of up to five.                        *)
(***************************************************************************)
EXTENDS PriceHistoryCollector, TLC

MCItem == 1..5

=============================================================================
