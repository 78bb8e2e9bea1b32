------------------------------ MODULE IfCache ------------------------------
(***************************************************************************)
(* The interface cache: the process-wide INTERFACE table keyed by ifindex  *)
(* that os_interface.cpp reaches through os_get_if_db_hdlr().  Its class   *)
(* (os_if_utils) is not part of this repository's src/, so the operators   *)
(* below follow spec.md section 4.3.  Every operator is one call that      *)
(* takes the cache-wide lock once; a caller that makes two calls can be    *)
(* interleaved with other threads between them.                            *)
(*                                                                         *)
(* A record keeps the tracked fields the diff of if_info_update compares   *)
(* (admin state, one representative non-admin field mtu standing for      *)
(* oper/mac/mtu, master index, type) and the suppression mask, which an    *)
(* update preserves and a delete discards.                                 *)
(***************************************************************************)
EXTENDS Naturals, TLC

VARIABLE cache   \* a function from the cached ifindices to records

\* if_change_t values returned by if_info_update and stored as masks.
ChangeClasses == {"NONE", "ADMIN", "ALL"}

Present(i) == i \in DOMAIN cache

\* nas_os_if_name_get: the name the cache holds for i, empty when i is not
\* cached.  Names are abstract: a cached index has one.
NameKnown(i) == Present(i)

\* if_info_get_type: the type recorded for i; callers check Present first.
CachedType(i) == cache[i].type

\* if_info_update's return value: ALL on first insertion, ADMIN when only
\* the admin state differs, ALL when any other tracked field differs.
TrackChange(i, r) ==
    IF ~Present(i) THEN "ALL"
    ELSE LET c == cache[i]
             other == c.mtu # r.mtu \/ c.master # r.master \/ c.type # r.type
         IN  IF other THEN "ALL"
             ELSE IF c.up # r.up THEN "ADMIN"
             ELSE "NONE"

\* if_info_update's write: the candidate replaces the stored record
\* whatever the change class; the mask set by a collaborator survives.
Update(i, r) ==
    cache' = (i :> [r EXCEPT !.mask = IF Present(i) THEN cache[i].mask
                                      ELSE "NONE"]) @@ cache

\* if_info_delete: removes i if present, never fails.
Delete(i) ==
    cache' = [j \in DOMAIN cache \ {i} |-> cache[j]]

\* if_info_getmask: NONE for an index that is not cached.
GetMask(i) == IF Present(i) THEN cache[i].mask ELSE "NONE"

\* if_info_setmask: only an existing entry can be marked.
SetMask(i, m) ==
    /\ Present(i)
    /\ cache' = [cache EXCEPT ![i].mask = m]
=============================================================================
