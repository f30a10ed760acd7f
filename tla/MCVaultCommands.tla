--------------------------- MODULE MCVaultCommands ---------------------------
(***************************************************************************)
(* Five components that share no state, each on a small instance of its    *)
(* own: which one runs is chosen at the start, the others rest.            *)
(***************************************************************************)
EXTENDS Pairing, RuleFiles, SourceTree, MCSearchWindow, Dedupe, TLC

VARIABLE part

\* Rules: the folder of the swap and its parent.
TwoFolders == {"leaf", "parent"}
TwoChain == ("leaf" :> <<"leaf", "parent">>) @@ ("parent" :> <<"parent">>)
WriterSymmetry == Permutations(Writers)

\* Source folders: one to three deep, and one beside them.
TreePaths == {<<>>, <<"a">>, <<"a", "b">>, <<"a", "b", "c">>, <<"d">>}
TempPath == <<"tmp">>

\* Exports: two folders with two each, in every mix of what they may hold.
TwoGroups == <<{1, 2}, {3, 4}>>
Spans == <<NoSpan, NoSpan, 5, NoSpan>>
Record(k, d) == [key |-> k, day |-> d]
Statements ==
  {<<Record("a", 1), Record("b", 2)>>, <<Record("b", 2), Record("b", 2), Record("c", 3)>>,
   <<Record(BlankRow, 0), Record("a", 1)>>, <<Record("c", 3)>>}
Corrected == {<<Record("c", 3), Record("a", 1)>>}
NoMix == [f \in Exports |-> <<Record("c", 3)>>]

-----------------------------------------------------------------------------
Init ==
  /\ part \in {"pairing", "rules", "sources", "table", "dedupe"}
  /\ PairingInit /\ RuleFilesInit /\ SourceTreeInit /\ TableInit /\ DedupeInit
  /\ part # "table" => search = "all"
  /\ part # "dedupe" => content = NoMix

PairingStep == part = "pairing" /\ PairingNext /\ UNCHANGED <<part, ruleVars, treeVars, tableVars, dedupeVars>>
RuleFilesStep == part = "rules" /\ RuleFilesNext /\ UNCHANGED <<part, pairingVars, treeVars, tableVars, dedupeVars>>
SourceTreeStep == part = "sources" /\ SourceTreeNext /\ UNCHANGED <<part, pairingVars, ruleVars, tableVars, dedupeVars>>
TableStep == part = "table" /\ TableNext /\ UNCHANGED <<part, pairingVars, ruleVars, treeVars, dedupeVars>>
DedupeStep == part = "dedupe" /\ DedupeNext /\ UNCHANGED <<part, pairingVars, ruleVars, treeVars, tableVars>>

Next == PairingStep \/ RuleFilesStep \/ SourceTreeStep \/ TableStep \/ DedupeStep

Spec == Init /\ [][Next]_<<part, pairingVars, ruleVars, treeVars, tableVars, dedupeVars>>

=============================================================================
