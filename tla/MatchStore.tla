----------------------------- MODULE MatchStore -----------------------------
(***************************************************************************)
(* The SQLite store of matches (internal/adapters/persistence/sqlite):     *)
(* the tables of matches, rounds, state snapshots and save slots.          *)
(*                                                                         *)
(* A state is represented by the history that led to it: the sequence of   *)
(* the plays that resolved its rounds, so that two different outcomes of   *)
(* one round differ, and the CurrentRound of a state is one more than its  *)
(* length.  Each operation is one transaction, or one statement; a crash   *)
(* or an error in between leaves the tables as they were.  The window of   *)
(* recent rounds (history limit 10) and the AI call records are left out.  *)
(***************************************************************************)
EXTENDS Naturals, Sequences, SequencesExt

CONSTANTS Matches, Slots,
          OpeningMatches   \* matches the database holds when it is opened

ASSUME StoreAssumption == OpeningMatches \subseteq Matches

VARIABLES
  stored,     \* matches.current_state_json, by match id
  rounds,     \* the rows of rounds, by match id; (match, number) is the key
  snapshots,  \* the rows of state_snapshots; (match, current round) is the key
  slots       \* save_slots, by slot name

storeVars == <<stored, rounds, snapshots, slots>>

CurrentRound(state) == Len(state) + 1

Row(state, i) == [number |-> i, by |-> state[i]]
History(state) == [i \in DOMAIN state |-> Row(state, i)]

StoreInit ==
  /\ stored = [m \in OpeningMatches |-> << >>]
  /\ rounds = [m \in OpeningMatches |-> << >>]
  /\ snapshots = [m \in OpeningMatches |-> << << >> >>]
  /\ slots = << >>

Known(m) == m \in DOMAIN stored

(* a table with the row of a key inserted, or overwritten                  *)
Put(table, key, row) ==
  [k \in DOMAIN table \union {key} |-> IF k = key THEN row ELSE table[k]]

CreateMatch(m, state) ==
  /\ stored' = Put(stored, m, state)
  /\ rounds' = Put(rounds, m, History(state))
  /\ snapshots' = Put(snapshots, m, <<state>>)
  /\ UNCHANGED slots

(* Mutant: the last committed round may be committed again.                *)
RefusesOlderOnly(m, next) ==
  \E i \in DOMAIN rounds[m] : Len(next) < rounds[m][i].number

(* the round must be greater than the last committed round of the match    *)
Refuses(m, next) ==
  \E i \in DOMAIN rounds[m] : Len(next) <= rounds[m][i].number

(* the row with the same key is overwritten                                *)
UpsertSnapshot(rows, next) ==
  IF \E i \in DOMAIN rows : CurrentRound(rows[i]) = CurrentRound(next)
  THEN [i \in DOMAIN rows |-> IF CurrentRound(rows[i]) = CurrentRound(next) THEN next ELSE rows[i]]
  ELSE Append(rows, next)

(* the state, the round and its snapshot, in one transaction               *)
CommitRound(m, next) ==
  /\ stored' = [stored EXCEPT ![m] = next]
  /\ rounds' = [rounds EXCEPT ![m] = Append(@, Row(next, Len(next)))]
  /\ snapshots' = [snapshots EXCEPT ![m] = UpsertSnapshot(@, next)]
  /\ UNCHANGED slots

(* a slot refers to the match; the round is kept for the list of slots     *)
SaveSlot(slot, m) ==
  /\ slots' = Put(slots, slot, [match |-> m, round |-> CurrentRound(stored[m])])
  /\ UNCHANGED <<stored, rounds, snapshots>>

(* LoadSaveSlot: the current state of the match, not that of the round     *)
SlotState(slot) == stored[slots[slot].match]

=============================================================================
