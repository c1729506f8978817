---------------------------- MODULE MCAccountLink ----------------------------
(***************************************************************************)
(* Values of the constants of AccountLink and ClientRegistry for TLC: two  *)
(* organizations, of which the second has no TTL, and the first alone with *)
(* another domain.                                                         *)
(***************************************************************************)
EXTENDS AccountLink

CONSTANTS o1, o2, d1, d2

Ask(enabled, domain, ttl) == [enabled |-> enabled, domain |-> domain, ttl |-> ttl]

SomeConfigs ==
  { [o \in Orgs |-> Ask(TRUE, d1, o = o1)],
    [o \in Orgs |-> IF o = o1 THEN Ask(TRUE, d2, TRUE) ELSE Ask(FALSE, d1, TRUE)] }

==============================================================================
