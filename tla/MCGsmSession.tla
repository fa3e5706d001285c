---- MODULE MCGsmSession ----
EXTENDS GsmSession

(* After a factory reset nothing is as the driver wants it, only what it   *)
(* cannot do without is, or everything it asks for is.                     *)
MCProfiles ==
    {{}, {"ERROR_LEVEL_SET"},
     {"IPR_SET", "COMMAND_LEVEL_SET", "ERROR_LEVEL_SET", "TE_CHARACTER_SET",
      "TCP_REASSEMBLY_SET", "USER_ID_SET", "ICMP_SET"}}
====
