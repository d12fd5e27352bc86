------------------------- MODULE MCStorageAdmission -------------------------
(* Two threads: an asset and a journal among strangers and faults, or two  *)
(* assets left alone.                                                      *)
EXTENDS StorageAdmission

Surroundings == {[journals |-> {"b"}, foreign |-> TRUE, faults |-> TRUE],
                 [journals |-> {}, foreign |-> FALSE, faults |-> FALSE]}
=============================================================================
