----------------------------- MODULE MCIngestion -----------------------------
(* Small windows, thresholds and log lines for Ingestion. *)
EXTENDS Ingestion

CONSTANT Port  \* model values: the ports a login may fail from, all alike

Raws == Port \cup {"-"}
PortSymmetry == Permutations(Port)

Says(type, key, raw) ==
  [type |-> type, key |-> key, user |-> "", error |-> FALSE, raw |-> raw]

\* One address, seen by sshd, nginx and fail2ban.
Attacker == {Says("ssh_failed_login", "ip", p) : p \in Port}
              \cup {Says("nginx_suspicious_request", "ip", "-"), Says("ban", "ip", "-")}
Logins == {Says("ssh_failed_login", "ip", p) : p \in Port}
            \cup {Says("ssh_success_login", "ip", "-")}

\* Two failures within 1 make a burst; logins and sources look back 2.
SmallWindow ==
  [w \in WindowNames |-> IF w \in {"success", "probe_auth", "probe_ban", "sources"} THEN 2 ELSE 1]
LongWindow == [SmallWindow EXCEPT !["success"] = 3]
SmallThreshold == [t \in ThresholdNames |-> IF t = "sources" THEN 1 ELSE 2]

\* The rules those lines can satisfy.
AttackerRules == {"repeated_failed_login", "suspicious_web_probe", "http_request_burst",
                  "multi_source_ip_activity", "web_probe_followed_by_auth_activity",
                  "web_probe_followed_by_fail2ban_ban", "ip_banned_after_auth_activity",
                  "ip_banned_after_web_activity"}

UnitList == <<"auth", "fail2ban", "nginx">>
=============================================================================
