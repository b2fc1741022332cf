---------------------------- MODULE MCTemperature ----------------------------
(* Files and environments that go through every case of Load and of main.  *)
EXTENDS Temperature

MCRules == {"backup_stale", "guest_down"}
MCDefaultRules == [r \in Rules |-> [limit |-> 2, severity |-> "warning"]]
MCNodes == {"n1"}
MCNodesAt == [i \in {"n1", "lab", "default", "pbs"} |-> MCNodes]

\* Named after its node, named freely, and unusable.
n1 == [name |-> "n1", usable |-> TRUE, interval |-> 0, ssh |-> "n1", key |-> TRUE]
lab == [name |-> "lab", usable |-> TRUE, interval |-> 1, ssh |-> "n1", key |-> FALSE]
keyed == [lab EXCEPT !.key = TRUE]
hasty == [lab EXCEPT !.interval = -1]
bare == [lab EXCEPT !.usable = FALSE]
pbs == [name |-> "pbs", usable |-> TRUE, interval |-> 0, ssh |-> "", key |-> FALSE]
default == [name |-> "default", usable |-> TRUE, interval |-> 1, ssh |-> "", key |-> FALSE]

NoRules == [r \in {"backup_stale", "guest_down"} |-> <<>>]
Stale(limit, severity) ==
  [NoRules EXCEPT !["backup_stale"] = <<[limit |-> limit, severity |-> severity]>>]

File(kind, pve, pool, level, r) ==
  [kind |-> kind, pve |-> pve, pbs |-> IF pve = <<>> THEN <<>> ELSE <<pbs>>,
   pool |-> pool, level |-> level, rules |-> r]

MCFiles ==
  {File(kind, <<>>, <<>>, <<>>, NoRules) : kind \in {"none", "missing", "broken"}}
  \cup {File("read", <<n1>>, pool, level, NoRules) : pool \in {<<>>, <<0>>, <<3>>},
                                                     level \in {<<>>, <<"loud">>}}
  \cup {File("read", <<n1>>, <<>>, <<>>, Stale(limit, s)) : limit \in {0, 1, 3}, s \in {"", "critical"}}
  \cup {File("read", pve, <<>>, <<>>, NoRules) : pve \in {<<keyed>>, <<hasty>>, <<bare>>, <<lab, n1>>}}

MCEnvs ==
  [pve : {<<>>, <<default>>}, pbs : {<<>>, <<default>>}, pool : {<<>>, <<0>>, <<2>>},
   level : {<<>>, <<"debug">>}]
=============================================================================
