------------------------------ MODULE RuleFiles ------------------------------
(***************************************************************************)
(* The _rules.json files of the source folders and the commands that       *)
(* change them (main.rs, rules.rs, trade_link_repair.rs, the classify      *)
(* tool).  A command loads a file, edits its copy and saves it: the write  *)
(* truncates the file first, and no lock is held from load to save.  Files *)
(* of ancestor folders apply too, the leaf's first.                        *)
(*                                                                         *)
(* The rows rules decide are the two legs of one on-chain swap, which lie  *)
(* in folder Leaf and share a txn: id.                                     *)
(***************************************************************************)
EXTENDS Naturals, Sequences, FiniteSets, SequencesExt, Ordering

CONSTANTS
  Folders,      \* folders with a rules file
  Leaf,         \* the folder of the two rows
  Chain,        \* [Folders -> Seq(Folders)]: a folder and its ancestors
  Kinds,        \* what this instance's commands match on
  Writers,      \* concurrent invocations, of the shell or of a tool
  Torn,         \* what is in a file between truncation and writing
  MaxCommands,  \* bound: commands
  MaxCrashes    \* bound: crashes

ASSUME RuleFilesAssumption ==
  /\ Leaf \in Folders /\ Chain \in [Folders -> Seq(Folders)]
  /\ \A f \in Folders : Chain[f] # <<>> /\ Chain[f][1] = f
  /\ MaxCommands \in Nat /\ MaxCrashes \in Nat

VARIABLES
  files,        \* [Folders -> Seq(rule)], Torn while being written
  linked,       \* the swap's trade link is in the metadata store
  writers,      \* [Writers -> command in flight]
  commands, ruleCrashes,
  \* what the properties need to know of the past:
  owed,         \* <<id, folder>> of the rules saved and not deleted
  hidden,       \* the swap was hidden, and nothing anchored or edited since
  crowded       \* folders in which commands overlapped or crashed

ruleVars == <<files, linked, writers, commands, ruleCrashes, owed, hidden, crowded>>

-----------------------------------------------------------------------------
(* Rules.  kind is what the rule matches on, row the rows it then hits     *)
(* (one leg: a leg: id, or an amount condition), does its effect.          *)

Swap == {"sell", "buy"}
Effects == {"a", "b", "c", "hide", "sell", "buy", "fallback"}
LinkId == "trade"
AiId(kind, does) == <<"ai", kind, does>>

Rule(id, kind, row, does) == [id |-> id, kind |-> kind, row |-> row, does |-> does]

\* Mutant of Precedence: the shared id counts as the least specific.
PrecedenceTxnLast ==
  [leg |-> 1, txn |-> 8, meta |-> 2, payeeNarration |-> 3, payee |-> 4, narration |-> 5,
   field |-> 6, general |-> 7]

\* specificity_tier, then meta_anchor_rank within the first tier.
Precedence ==
  [leg |-> 1, txn |-> 2, meta |-> 3, payeeNarration |-> 4, payee |-> 5, narration |-> 6,
   field |-> 7, general |-> 8]

RuleIds == {"rule"} \X Nat \cup {"ai"} \X (DOMAIN Precedence) \X Effects \cup {LinkId} \X (Swap \cup {"both"})
Rules == [id : RuleIds, kind : DOMAIN Precedence, row : Swap \cup {"both"}, does : Effects]

ASSUME RulesAssumption == Kinds \subseteq DOMAIN Precedence /\ Torn \notin Seq(Rules)

Anchored(r) == r.kind \in {"leg", "txn"}
\* The conditions beside the pattern: an amount condition tells the legs apart.
OfRow(r, row) == r.row \in {row, "both"}
Hits(r, row) == OfRow(r, row) /\ r.does # "label"
SamePattern(r, q) == r.kind = q.kind /\ (r.kind = "leg" => r.row = q.row)
SameTarget(r, q) == r.kind = q.kind /\ r.row = q.row /\ r.does = q.does

\* A rule that only assigns the fallback account.
NoOp(r) == r.does = "fallback"

\* Mutant of insert_rule: at the end, like any other rule.
InsertLast(s, r) == Append(s, r)

insert_rule(s, r) == IF Anchored(r) THEN <<r>> \o s ELSE Append(s, r)

Without(s, id) == Only(s, {i \in DOMAIN s : s[i].id # id})
Holds(s, id) == \E i \in DOMAIN s : s[i].id = id

load(f) == IF files[f] = Torn THEN <<>> ELSE files[f]

\* Of two places the one whose rule comes first: by precedence, then by place.
Earlier(s, i, j) ==
  \/ Precedence[s[i].kind] < Precedence[s[j].kind]
  \/ Precedence[s[i].kind] = Precedence[s[j].kind] /\ i < j

\* What save writes: no no-ops, stably sorted.
saved(s) == Taken(s, Sorted({i \in DOMAIN s : ~NoOp(s[i])}, LAMBDA i, j : Earlier(s, i, j)))

\* The rules that apply in a folder, by place in its chain and in the file.
gather_rules_chain(f) == UNION {{n} \X DOMAIN load(Chain[f][n]) : n \in DOMAIN Chain[f]}
RuleAt(f, p) == load(Chain[f][p[1]])[p[2]]

\* The rule that decides a row.
find_match_prioritized(f, row) ==
  LET hits == {p \in gather_rules_chain(f) : Hits(RuleAt(f, p), row)}
      First(p, q) == LET k == Precedence[RuleAt(f, p).kind]  m == Precedence[RuleAt(f, q).kind] IN
                     \/ k < m
                     \/ k = m /\ p[1] < q[1]
                     \/ k = m /\ p[1] = q[1] /\ p[2] <= q[2]
  IN IF hits = {} THEN "fallback"
     ELSE RuleAt(f, CHOOSE p \in hits : \A q \in hits : First(p, q)).does

Category(row) == find_match_prioritized(Leaf, row)

-----------------------------------------------------------------------------
(* Commands: what each does to the copy it loaded.  A copy it returns      *)
(* unchanged is saved all the same, except where Unsaved.                  *)

\* An equal rule only gets the new names and comment.
save_rule(c, s) ==
  IF \E i \in DOMAIN s : SameTarget(s[i], c.rule) THEN s ELSE insert_rule(s, c.rule)

\* append_hide_rule; the classify tool: nothing when the pattern is taken.
AddIfNew(c, s) ==
  IF \E i \in DOMAIN s : SamePattern(s[i], c.rule) THEN s ELSE insert_rule(s, c.rule)

\* apply_rule_update: in place, or out of this folder and then into the target.
update_rule(c, s) ==
  IF c.moved THEN insert_rule(s, c.rule)
  ELSE IF c.target = c.folder THEN [i \in DOMAIN s |-> IF s[i].id = c.rule.id THEN c.rule ELSE s[i]]
  ELSE Without(s, c.rule.id)

\* Mutant of delete_rule: by what the rule matches on.
DeletePattern(c, s) == Only(s, {i \in DOMAIN s : ~SamePattern(s[i], c.rule)})

delete_rule(c, s) == Without(s, c.rule.id)

\* plan_trade_link_rules: each leg by its own id where the built ledgers tell the
\* legs apart, else both by the shared id and the sign of the amount.
link_rules(c) ==
  LET kind == IF c.legs THEN "leg" ELSE "txn" IN
  <<Rule(<<LinkId, "sell">>, kind, "sell", "sell"), Rule(<<LinkId, "buy">>, kind, "buy", "buy")>>

save_trade_link(c, s) == insert_rule(insert_rule(s, link_rules(c)[1]), link_rules(c)[2])
IsLinkRule(r) == r.id \in {<<LinkId, "sell">>, <<LinkId, "buy">>}
remove_trade_link_rules(c, s) == Only(s, {i \in DOMAIN s : ~IsLinkRule(s[i])})

\* repair_links: when none of the link's rules is there, by the shared id.
repair_links(c, s) ==
  IF \E i \in DOMAIN s : IsLinkRule(s[i]) THEN s ELSE save_trade_link(c, s)

\* The migrate tool: a glob around a shared id becomes the id itself, anchored
\* rules move up; ids of classified rules become their content, and of two equal
\* ones the first stays.
migrate_legacy_anchored(s) ==
  LET bare == [i \in DOMAIN s |-> IF s[i].kind = "meta" THEN [s[i] EXCEPT !.kind = "txn"] ELSE s[i]]
      top == {i \in DOMAIN s : Anchored(bare[i])}
  IN Only(bare, top) \o Only(bare, DOMAIN s \ top)

dedupe_ai_ids(s) ==
  LET named == [i \in DOMAIN s |->
                  IF s[i].id[1] = "ai" THEN [s[i] EXCEPT !.id = AiId(s[i].kind, s[i].does)] ELSE s[i]]
      Again(i) == named[i].id[1] = "ai" /\ \E j \in 1 .. i - 1 : named[j].id = named[i].id
  IN Only(named, {i \in DOMAIN s : ~Again(i)})

migrate_rules(c, s) == dedupe_ai_ids(migrate_legacy_anchored(s))

import_rules_csv(c, s) == insert_rule(s, c.rule)

Edited(c, s) ==
  CASE c.op = "save_rule" -> save_rule(c, s)
    [] c.op \in {"hide", "classify"} -> AddIfNew(c, s)
    [] c.op = "update_rule" -> update_rule(c, s)
    [] c.op = "delete_rule" -> delete_rule(c, s)
    [] c.op = "save_trade_link" -> save_trade_link(c, s)
    [] c.op = "delete_trade_link" -> remove_trade_link_rules(c, s)
    [] c.op = "repair_links" -> repair_links(c, s)
    [] c.op = "import" -> import_rules_csv(c, s)
    [] c.op = "migrate" -> migrate_rules(c, s)

\* Nothing is written: nothing to add, or the target has the rule already.
Unsaved(c, s) ==
  \/ c.op \in {"hide", "classify", "repair_links", "migrate"} /\ Edited(c, s) = s
  \/ c.op = "update_rule" /\ c.moved /\ Holds(s, c.rule.id)

-----------------------------------------------------------------------------
Idle == [at |-> "idle"]
NewId == <<"rule", commands>>
Command(op, folder, target, rule, legs) ==
  [op |-> op, folder |-> folder, target |-> target, rule |-> rule, moved |-> FALSE, legs |-> legs]
RuleCommand(op, folder, rule) == Command(op, folder, folder, rule, FALSE)

\* find_rule_folder: the nearest folder, from the leaf up, that has the rule.
find_rule_folder(f, id) ==
  LET has == {i \in DOMAIN Chain[f] : Holds(load(Chain[f][i]), id)} IN
  IF has = {} THEN f ELSE Chain[f][CHOOSE i \in has : \A j \in has : i <= j]

RulesOf(f) == {load(f)[i] : i \in DOMAIN load(f)}
Reachable(f) == UNION {RulesOf(Chain[f][i]) : i \in DOMAIN Chain[f]}

UpdateCommand(r, target, does) ==
  Command("update_rule", find_rule_folder(Leaf, r.id), target, [r EXCEPT !.does = does], FALSE)

RuleCommands ==
  {RuleCommand("save_rule", f, Rule(NewId, k, "both", does)) :
     f \in Folders, k \in Kinds \ {"leg"}, does \in {"a", "fallback"}}
  \cup {RuleCommand("save_rule", f, Rule(NewId, "leg", row, "a")) : f \in Folders, row \in Swap}
  \cup {RuleCommand("classify", f, Rule(AiId("general", "b"), "general", "both", "b")) : f \in Folders}
  \cup {RuleCommand("import", f, Rule(NewId, "general", "both", "b")) : f \in Folders}
  \cup {RuleCommand("migrate", f, Rule(NewId, "meta", "both", "a")) : f \in Folders}
  \cup {RuleCommand("hide", Leaf, Rule(NewId, "txn", "both", "hide"))}
  \cup {RuleCommand("delete_rule", find_rule_folder(Leaf, r.id), r) : r \in Reachable(Leaf)}
  \cup {UpdateCommand(r, t, does) : r \in Reachable(Leaf), t \in Folders, does \in {"a", "c"}}

\* The folder the UI names for a link is that of the account on screen: the leaf,
\* or one above it.  Saving goes to the leaf where the legs can be told apart.
LinkCommand(op, f, legs) == Command(op, f, f, Rule(<<LinkId, "both">>, "txn", "both", "sell"), legs)

\* They hold the metadata store's lock from start to end.
LinkCommands ==
  {LinkCommand("save_trade_link", Leaf, TRUE)}
  \cup {LinkCommand("save_trade_link", f, FALSE) : f \in Folders}
  \cup (IF linked THEN {LinkCommand("delete_trade_link", f, FALSE) : f \in Folders}
                       \cup {LinkCommand("repair_links", Leaf, FALSE)} ELSE {})

Touched(w) == IF writers[w] = Idle THEN {} ELSE {writers[w].c.folder, writers[w].c.target}
Overlap(w, c) == {c.folder, c.target} \cap UNION {Touched(v) : v \in Writers \ {w}}

RuleFilesInit ==
  /\ files = [f \in Folders |-> <<>>]
  /\ linked = FALSE
  /\ writers = [w \in Writers |-> Idle]
  /\ commands = 0 /\ ruleCrashes = 0
  /\ owed = {} /\ hidden = FALSE /\ crowded = {}

Start(w, c) ==
  /\ writers[w] = Idle /\ commands < MaxCommands
  /\ commands' = commands + 1
  /\ linked' = CASE c.op = "save_trade_link" -> TRUE
                 [] c.op = "delete_trade_link" -> FALSE
                 [] OTHER -> linked
  /\ writers' = [writers EXCEPT ![w] = [at |-> "load", c |-> c]]
  /\ crowded' = crowded \cup Overlap(w, c)
  /\ UNCHANGED <<files, ruleCrashes, owed, hidden>>

StartRule(w) == \E c \in RuleCommands : Start(w, c)

StartLink(w) ==
  /\ \A v \in Writers : writers[v] # Idle => writers[v].c.rule.id # <<LinkId, "both">>
  /\ \E c \in LinkCommands : Start(w, c)

LoadRules(w) ==
  LET c == writers[w].c IN
  /\ writers[w].at = "load"
  /\ writers' = [writers EXCEPT ![w] =
       IF Unsaved(c, load(c.folder)) THEN Idle
       ELSE [at |-> "save", c |-> c, copy |-> Edited(c, load(c.folder))]]
  /\ UNCHANGED <<files, linked, commands, ruleCrashes, owed, hidden, crowded>>

Truncate(w) ==
  /\ writers[w].at = "save"
  /\ files' = [files EXCEPT ![writers[w].c.folder] = Torn]
  /\ writers' = [writers EXCEPT ![w].at = "write"]
  /\ UNCHANGED <<linked, commands, ruleCrashes, owed, hidden, crowded>>

Unhides(c) == c.op \notin {"classify", "hide", "import", "migrate"} /\ ~(c.op = "save_rule" /\ ~Anchored(c.rule))

\* The rule goes to another folder: this one is left first, then the command loads that one.
Moving(c) == c.target # c.folder /\ ~c.moved

\* What saving copy takes, or may take, from the folder of c.
Dropped(c, copy) ==
  (IF Moving(c) \/ c.op = "delete_rule" THEN {c.rule.id} ELSE {})
  \cup (IF c.op = "delete_trade_link" THEN {<<LinkId, row>> : row \in Swap} ELSE {})
  \cup {r.id : r \in {x \in ToSet(copy) : NoOp(x)}}
  \cup (IF c.op = "migrate"
        THEN {o[1] : o \in {x \in owed : x[1][1] = "ai"}} \ {r.id : r \in ToSet(copy)}
        ELSE {})

\* A rule on its way to another folder is owed there.
Write(w) ==
  LET c == writers[w].c IN
  /\ writers[w].at = "write"
  /\ files' = [files EXCEPT ![c.folder] = saved(writers[w].copy)]
  /\ writers' = [writers EXCEPT ![w] =
       IF Moving(c) THEN [at |-> "load", c |-> [c EXCEPT !.folder = c.target, !.moved = TRUE]] ELSE Idle]
  /\ owed' = (owed \cup {<<r.id, c.folder>> : r \in ToSet(writers[w].copy)}
                  \cup (IF Moving(c) THEN {<<c.rule.id, c.target>>} ELSE {}))
             \ {<<i, c.folder>> : i \in Dropped(c, writers[w].copy)}
  /\ hidden' = \/ /\ c.op = "hide" /\ ~\E r \in Reachable(Leaf)' : r.kind = "leg"
                  /\ \A f \in ToSet(Chain[Leaf]) : files'[f] # Torn
               \/ hidden /\ ~Unhides(c)
  /\ UNCHANGED <<linked, commands, ruleCrashes, crowded>>

\* The application or the tool dies: its commands are gone, the files are as
\* they are.
CrashWriters ==
  /\ ruleCrashes < MaxCrashes /\ \E w \in Writers : writers[w] # Idle
  /\ ruleCrashes' = ruleCrashes + 1
  /\ crowded' = crowded \cup UNION {Touched(w) : w \in Writers}
  /\ writers' = [w \in Writers |-> Idle]
  /\ UNCHANGED <<files, linked, commands, owed, hidden>>

RuleFilesNext ==
  \/ \E w \in Writers : StartRule(w) \/ StartLink(w) \/ LoadRules(w) \/ Truncate(w) \/ Write(w)
  \/ CrashWriters

RuleFilesSpec == RuleFilesInit /\ [][RuleFilesNext]_ruleVars

-----------------------------------------------------------------------------
(* Properties.                                                             *)

RuleFilesTypeOK ==
  /\ \A f \in Folders : files[f] # Torn => files[f] \in Seq(Rules)
  /\ \A w \in Writers :
       \/ writers[w] = Idle
       \/ /\ writers[w].at \in {"load", "save", "write"}
          /\ {writers[w].c.folder, writers[w].c.target} \subseteq Folders
          /\ writers[w].at # "load" => writers[w].copy \in Seq(Rules)
  /\ \A w \in Writers :
       writers[w].at = "write" => writers[w].c.folder \in {f \in Folders : files[f] = Torn} \cup crowded
  /\ \A f \in Folders :
       files[f] = Torn => (f \in crowded \/ \E w \in Writers : writers[w].at = "write")
  /\ owed \subseteq RuleIds \X Folders /\ crowded \subseteq Folders
  /\ linked \in BOOLEAN /\ hidden \in BOOLEAN

Calm == crowded = {} /\ \A w \in Writers : writers[w] = Idle

\* A rule that was saved and not deleted is in its folder, unless commands met in
\* that folder or one died there: moving, editing and inserting lose none.
RulesSurvive ==
  \A o \in owed :
    \/ o[2] \in crowded
    \/ \E w \in Writers : o[2] \in Touched(w)
    \/ Holds(files[o[2]], o[1])

\* A hidden transaction stays hidden while no rule is anchored, edited or deleted
\* (append_hide_rule, find_match_prioritized): no general or classified rule,
\* and none of an ancestor folder, brings it back.
HiddenStaysHidden == hidden /\ Calm => \A row \in Swap : Category(row) = "hide"

\* Linking a swap whose legs the ledgers tell apart categorises both legs at once,
\* whatever rules there were: "so the trade categorisation wins outright"
\* (plan_trade_link_rules).
LinkWins ==
  [][\A w \in Writers :
       (/\ writers[w].at = "write" /\ Write(w)
        /\ writers[w].c.op = "save_trade_link" /\ writers[w].c.legs
        /\ crowded = {})
       => \A row \in Swap : Category(row)' = row]_ruleVars

\* "Remove all rules generated for a trade link" (rules.rs): once the link is
\* deleted no folder has one of its rules.
UnlinkedLeavesNoRules ==
  ~linked /\ Calm => \A f \in Folders : ~\E r \in RulesOf(f) : IsLinkRule(r)
====
