------------------------------ MODULE MCRebuild ------------------------------
(***************************************************************************)
(* Small instances of Rebuild.  Handlers that behave alike are one record, *)
(* so that the set holds one command of each way to behave.                *)
(***************************************************************************)
EXTENDS Rebuild, TLC

AllCommands == AllHandlers
GuardsOnly == {run_daily_plugins_none_due}
ClientSymmetry == Permutations(Clients)
====
