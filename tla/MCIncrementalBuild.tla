------------------------ MODULE MCIncrementalBuild -------------------------
(***************************************************************************)
(* Small vaults for IncrementalBuild: two folders a and b under one        *)
(* directory d, with at most one CSV and one manual.transactions each.     *)
(***************************************************************************)
EXTENDS IncrementalBuild, TLC

CONSTANTS a, b, d,       \* places
          a1, a2, b1,    \* CSV rows
          ma, mb, mc     \* manual entries

TwoFolders == {a, b}
OneDir == {d}
Under == (a :> d) @@ (b :> d)

OneSet == (a :> 1) @@ (b :> 1)
TwoSets == (a :> 1) @@ (b :> 2)

NoMentions == [id \in {a1, a2, b1, ma, mb, mc} |-> {}]
\* The rows of a mention the folder account of b.
MentionsB == [id \in {a1, a2, b1, ma, mb, mc} |-> IF id \in {a1, a2} THEN {b} ELSE {}]

\* Nobody trades.
NoSwaps == [t \in {} |-> t]
\* The legs of a swap in the folder a.
Within == (a1 :> ma) @@ (ma :> a1)
WithinCsv == (a1 :> a2) @@ (a2 :> a1)
\* The legs of a swap in two folders.
Across == (a1 :> b1) @@ (b1 :> a1)
\* A swap in the CSV of a, and one in the manual entries of b.
TwoSwaps == (a1 :> a2) @@ (a2 :> a1) @@ (mb :> mc) @@ (mc :> mb)

Csv1 == (a :> {a1}) @@ (b :> {b1})
Csv2 == (a :> {a1, a2}) @@ (b :> {b1})
CsvA == (a :> {a1}) @@ (b :> {})
NoManual == (a :> {}) @@ (b :> {})
ManualA == (a :> {ma}) @@ (b :> {})
ManualB == (a :> {}) @@ (b :> {mb})
ManualBB == (a :> {}) @@ (b :> {mb, mc})
=============================================================================
