----------------------------- MODULE DurableMap -----------------------------
(***************************************************************************)
(* What a user of KVDS expects of opening and closing: a map from keys to  *)
(* the versions last written that is there again when the store is opened, *)
(* until something damages it; after that nothing is promised.             *)
(***************************************************************************)
EXTENDS Naturals

CONSTANTS Keys,
          MaxVer       (* bound on the number of writes                    *)

VARIABLES kv,    (* the version of each key, 0 if it has none              *)
          ver,   (* the number of writes                                   *)
          up,    (* is the store open?                                     *)
          whole  (* has nothing damaged it?                                *)

vars == <<kv, ver, up, whole>>

Init == kv = [k \in Keys |-> 0] /\ ver = 0 /\ up = FALSE /\ whole = TRUE

(* An Insert or a Delete, and nothing else, changes what a key has.        *)
Write(k, del) ==
  /\ up
  /\ ver < MaxVer
  /\ ver' = ver + 1
  /\ kv' = [kv EXCEPT ![k] = IF del THEN 0 ELSE ver']
  /\ UNCHANGED <<up, whole>>

OpenOrClose == up' = ~up /\ UNCHANGED <<kv, ver, whole>>

Damage ==
  /\ whole' = FALSE
  /\ up' \in BOOLEAN /\ ver' \in 0 .. MaxVer /\ kv' \in [Keys -> 0 .. MaxVer]

Next ==
  \/ whole /\ ((\E k \in Keys, del \in BOOLEAN : Write(k, del)) \/ OpenOrClose)
  \/ Damage

Spec == Init /\ [][Next]_vars
=============================================================================
