---------------------------- MODULE MCEventLedger ----------------------------
(* Four appends by two tenants: three race for one chain, and both tenants' *)
(* ids hash to one advisory lock in MCOneKey, to two in MCTwoKeys.  Two      *)
(* calls carry a payload that reads back as it was signed; the third's has   *)
(* an undefined key, which is signed as null and not stored.                 *)
EXTENDS EventLedger

CONSTANTS t1, t2, k1, k2, a1, a2, a3, b1

MCTenantOf == [c \in {a1, a2, a3, b1} |-> IF c = b1 THEN t2 ELSE t1]
MCOneKey   == [t \in {t1, t2} |-> k1]
MCTwoKeys  == [t \in {t1, t2} |-> IF t = t1 THEN k1 ELSE k2]
MCGenesis  == <<"GENESIS">>

MCContents  == {"plain", "undefinedKey", "withoutKey"}
MCContentOf == [c \in {a1, a2, a3, b1} |-> IF c = a3 THEN "undefinedKey"
                                                     ELSE "plain"]
MCStored    == [x \in MCContents |-> IF x = "undefinedKey" THEN "withoutKey"
                                                           ELSE x]
MCCanonical == [x \in MCContents |-> IF x = "undefinedKey" THEN "nullKey" ELSE x]
=============================================================================
