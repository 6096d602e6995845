--------------------------- MODULE SymbolRegistry ---------------------------
(***************************************************************************)
(* The symbol registry of src/execution/paper/symbol_registry.py: a Redis  *)
(* key per symbol that names the position holding it, set with SET NX EX   *)
(* and removed by a GET, a comparison and a DEL, so the key may change     *)
(* hands between the last two.  Nothing extends a key's life: extend_ttl   *)
(* has no caller.  This module holds the object; PaperOrchestrator uses it.*)
(*                                                                         *)
(* Abstractions.  The spellings of a symbol that _make_key unifies are one *)
(* symbol.  get_all_active_symbols, clear_all and close, which the trading *)
(* path never calls, are left out.                                         *)
(***************************************************************************)
EXTENDS Naturals

CONSTANTS
  Symbols,
  Owners,       \* correlation ids that stand for position ids
  NoOwner,
  RegistryTtl   \* default_ttl_seconds, in ticks

ASSUME RegistryAssumption ==
  /\ NoOwner \notin Owners
  /\ RegistryTtl \in Nat \ {0}

VARIABLES
  owner,        \* the value of each symbol's key, NoOwner if there is none
  left          \* ticks until the key expires

registryVars == <<owner, left>>

RegistryTypeOK ==
  /\ owner \in [Symbols -> Owners \cup {NoOwner}]
  /\ left \in [Symbols -> 0..RegistryTtl]
  /\ \A s \in Symbols : owner[s] # NoOwner <=> left[s] > 0

RegistryInit ==
  /\ owner = [s \in Symbols |-> NoOwner]
  /\ left = [s \in Symbols |-> 0]

(* Mutant: SET without NX. *)
SetIfFree_Overwrites(s, o) ==
  /\ owner' = [owner EXCEPT ![s] = o]
  /\ left' = [left EXCEPT ![s] = RegistryTtl]

(* try_acquire_symbol answers True: SET NX EX has set the key. *)
SetIfFree(s, o) ==
  /\ owner[s] = NoOwner
  /\ owner' = [owner EXCEPT ![s] = o]
  /\ left' = [left EXCEPT ![s] = RegistryTtl]

Held(s, o) == owner[s] = o

(* The DEL of release_symbol, whoever the key belongs to by then. *)
Delete(s) ==
  /\ owner' = [owner EXCEPT ![s] = NoOwner]
  /\ left' = [left EXCEPT ![s] = 0]

(* Mutant: keys do not expire. *)
RegistryTick_Keeps ==
  /\ left' = [s \in Symbols |-> IF left[s] > 1 THEN left[s] - 1 ELSE left[s]]
  /\ UNCHANGED owner

RegistryTick ==
  /\ left' = [s \in Symbols |-> IF left[s] > 0 THEN left[s] - 1 ELSE 0]
  /\ owner' = [s \in Symbols |-> IF left[s] > 1 THEN owner[s] ELSE NoOwner]

=============================================================================
