------------------------------- MODULE Pairing -------------------------------
(***************************************************************************)
(* Pairing two devices through the relay (src/src-tauri/src/relay/):       *)
(* PairingStore keeps, in memory, one entry under each live code; the      *)
(* relay serves one request at a time.  A device asks, shows or types a    *)
(* code, and saves the group it was given (src/src/main.ts).  An answer    *)
(* may be lost, the relay may restart, and codes may collide.              *)
(***************************************************************************)
EXTENDS Naturals, FiniteSets

CONSTANTS
  NoOne,       \* no entry, no group, no code
  PairDevices, \* the devices
  Codes,       \* six-digit codes
  TTL,         \* life of a code, in ticks
  MaxGroups,   \* bound: calls of /pair/initiate
  MaxRestarts  \* bound: restarts of the relay

ASSUME PairingAssumption ==
  /\ TTL \in Nat /\ MaxGroups \in Nat /\ MaxRestarts \in Nat
  /\ NoOne \notin [group : 1 .. MaxGroups, used : BOOLEAN]

VARIABLES
  entries,     \* [Codes -> entry or NoOne]
  groups,      \* groups made so far: group ids are 1 .. groups
  ages,        \* [1 .. MaxGroups -> 0 .. TTL]: time since the group was made
  screens,     \* [PairDevices -> what the pairing dialog does]
  configs,     \* [PairDevices -> group in relay-config.json, or NoOne]
  answered,    \* [1 .. MaxGroups -> devices whose /pair/join was let in]
  restarts

pairingVars == <<entries, groups, ages, screens, configs, answered, restarts>>

-----------------------------------------------------------------------------
Groups == 1 .. MaxGroups
Closed == [at |-> "closed"]

PairingInit ==
  /\ entries = [c \in Codes |-> NoOne]
  /\ groups = 0 /\ ages = [g \in Groups |-> 0]
  /\ screens = [d \in PairDevices |-> Closed]
  /\ configs = [d \in PairDevices |-> NoOne]
  /\ answered = [g \in Groups |-> {}]
  /\ restarts = 0

Live(c) == entries[c] # NoOne /\ ages[entries[c].group] < TTL

-----------------------------------------------------------------------------
(* The relay.                                                              *)

\* A fresh group under a random code; a live entry under that code is replaced.
\* The answer reaches the device, or is lost.
Initiate(d) ==
  /\ screens[d] = Closed /\ groups < MaxGroups
  /\ groups' = groups + 1
  /\ \E c \in Codes :
       /\ entries' = [entries EXCEPT ![c] = [group |-> groups + 1, used |-> FALSE]]
       /\ \/ screens' = [screens EXCEPT ![d] = [at |-> "shown", code |-> c, group |-> groups + 1]]
          \/ UNCHANGED screens
  /\ UNCHANGED <<ages, configs, answered, restarts>>

\* Mutant of Join: the code is not marked as used.
JoinAgain(d, c) ==
  /\ screens[d] = Closed /\ Live(c) /\ ~entries[c].used
  /\ answered' = [answered EXCEPT ![entries[c].group] = @ \cup {d}]
  /\ \/ screens' = [screens EXCEPT ![d] = [at |-> "joined", group |-> entries[c].group]]
     \/ UNCHANGED screens
  /\ UNCHANGED <<entries, groups, ages, configs, restarts>>

\* A device is let in with a code that is live and not used; the code is then
\* used up, whether or not the answer arrives.
Join(d, c) ==
  /\ screens[d] = Closed /\ Live(c) /\ ~entries[c].used
  /\ entries' = [entries EXCEPT ![c].used = TRUE]
  /\ answered' = [answered EXCEPT ![entries[c].group] = @ \cup {d}]
  /\ \/ screens' = [screens EXCEPT ![d] = [at |-> "joined", group |-> entries[c].group]]
     \/ UNCHANGED screens
  /\ UNCHANGED <<groups, ages, configs, restarts>>

\* An expired code that was not used is removed as it is refused.
Refuse(d, c) ==
  /\ screens[d] = Closed
  /\ entries[c] # NoOne /\ ~Live(c) /\ ~entries[c].used
  /\ entries' = [entries EXCEPT ![c] = NoOne]
  /\ UNCHANGED <<groups, ages, screens, configs, answered, restarts>>

cleanup_expired ==
  /\ \E c \in Codes : entries[c] # NoOne /\ ~Live(c)
  /\ entries' = [c \in Codes |-> IF Live(c) THEN entries[c] ELSE NoOne]
  /\ UNCHANGED <<groups, ages, screens, configs, answered, restarts>>

\* The store lives in the relay's memory only.
RestartRelay ==
  /\ restarts < MaxRestarts
  /\ restarts' = restarts + 1
  /\ entries' = [c \in Codes |-> NoOne]
  /\ UNCHANGED <<groups, ages, screens, configs, answered>>

Tick ==
  /\ \E g \in 1 .. groups : ages[g] < TTL
  /\ ages' = [g \in Groups |-> IF g <= groups /\ ages[g] < TTL THEN ages[g] + 1 ELSE ages[g]]
  /\ UNCHANGED <<entries, groups, screens, configs, answered, restarts>>

-----------------------------------------------------------------------------
(* The dialog.                                                             *)

\* "Done" under a code, or the answer to a join: the group is saved.
save_relay_config(d) ==
  /\ screens[d].at \in {"shown", "joined"}
  /\ configs' = [configs EXCEPT ![d] = screens[d].group]
  /\ screens' = [screens EXCEPT ![d] = Closed]
  /\ UNCHANGED <<entries, groups, ages, answered, restarts>>

\* Cancel drops the pending group; the code stays valid at the relay.
Cancel(d) ==
  /\ screens[d].at = "shown"
  /\ screens' = [screens EXCEPT ![d] = Closed]
  /\ UNCHANGED <<entries, groups, ages, configs, answered, restarts>>

PairingNext ==
  \/ \E d \in PairDevices :
       \/ Initiate(d) \/ save_relay_config(d) \/ Cancel(d)
       \/ \E c \in Codes : Join(d, c) \/ Refuse(d, c)
  \/ cleanup_expired \/ RestartRelay \/ Tick

PairingSpec == PairingInit /\ [][PairingNext]_pairingVars

-----------------------------------------------------------------------------
(* Properties.                                                             *)

PairingTypeOK ==
  /\ entries \in [Codes -> [group : Groups, used : BOOLEAN] \cup {NoOne}]
  /\ groups \in 0 .. MaxGroups
  /\ ages \in [Groups -> 0 .. TTL]
  /\ screens \in [PairDevices -> {Closed} \cup [at : {"joined"}, group : Groups]
                                  \cup [at : {"shown"}, code : Codes, group : Groups]]
  /\ configs \in [PairDevices -> Groups \cup {NoOne}]
  /\ answered \in [Groups -> SUBSET PairDevices]
  /\ restarts \in 0 .. MaxRestarts

\* A group is joined once, whatever codes collide, expire or are typed twice,
\* and however often the relay restarts (PairingStore::join).
JoinedOnce == \A g \in Groups : Cardinality(answered[g]) <= 1

\* What an inductive argument for it needs: a group has one entry, and one that
\* let a device in is used.
UsedWhenAnswered ==
  \A c \in Codes : entries[c] # NoOne =>
    /\ entries[c].group <= groups
    /\ answered[entries[c].group] # {} => entries[c].used
    /\ \A e \in Codes \ {c} : entries[e] # NoOne => entries[e].group # entries[c].group

====
