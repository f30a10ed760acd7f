----------------------------- MODULE MCRelaySync -----------------------------
(***************************************************************************)
(* Small instances of RelaySync: two devices that began on their own and   *)
(* meet at a relay, or that began with a copy of one document and meet     *)
(* either way.                                                             *)
(***************************************************************************)
EXTENDS RelaySync

Apart == [shared |-> FALSE, direct |-> FALSE]
Copied == [shared |-> TRUE, direct |-> TRUE]
Both == {Apart, Copied}
OnlyApart == {Apart}
====
