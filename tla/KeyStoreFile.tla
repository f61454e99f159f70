---------------------------- MODULE KeyStoreFile ----------------------------
(***************************************************************************)
(* config/api_keys.yaml as app/auth/keys.py reads and writes it.  A file   *)
(* is what it parses to: for each key id its record, if it has one.  Of a  *)
(* record two things matter here: the key hash, a number standing for one  *)
(* generated raw key, and whether the key has the keys:write scope.        *)
(***************************************************************************)
EXTENDS Naturals

CONSTANTS
    Keys,       \* key ids
    NoKey       \* "this id is not in the file"

APIKeyRecord == [key_hash : Nat, keys_write : BOOLEAN]

Files == [Keys -> APIKeyRecord \cup {NoKey}]

\* _has_keys_write: is_admin, or keys:write among the admin_scopes.
HasKeysWrite(file, k) == file[k] # NoKey /\ file[k].keys_write

\* Somebody can still manage keys.
Manageable(file) == \E k \in Keys : HasKeysWrite(file, k)

\* Mutant of Strands: the key that changes counts among those that are left.
StrandsCountingItself(file, k, updated) ==
    /\ HasKeysWrite(file, k)
    /\ ~HasKeysWrite(updated, k)
    /\ ~ \E j \in Keys : HasKeysWrite(file, j)

\* _would_strand_key_management, and the same condition in delete_key: the
\* change takes keys:write from the last key that has it.
Strands(file, k, updated) ==
    /\ HasKeysWrite(file, k)
    /\ ~HasKeysWrite(updated, k)
    /\ ~ \E j \in Keys \ {k} : HasKeysWrite(file, j)

=============================================================================
