---------------------------- MODULE MCSyncFeed ------------------------------
(* Note requests for the run of SyncFeed. *)
EXTENDS SyncFeed

CONSTANTS k1, k2

Note(body, key) == [body |-> body, key |-> key]

(* A retry, a key that was used for another body, a second key,
   and a note without a key that takes up room. *)
Notes == {Note("first", k1), Note("second", k1), Note("first", k2),
          Note("first", NoKey)}
=============================================================================
