------------------------------- MODULE Detector -------------------------------
(***************************************************************************)
(* The detector of the log pipeline: what it remembers of each source IP   *)
(* (of each user, for sudo), and the findings that the next log record     *)
(* makes.  Operators only; Ingestion gives it records and a database.      *)
(***************************************************************************)
EXTENDS Integers, Sequences, FiniteSets, SequencesExt

CONSTANTS
  Key,         \* source IPs, and the user names of sudo and PAM failures
  User,        \* mail account names a record may carry, and ""
  Window,      \* the windows of DetectionSettings, in seconds
  Threshold,   \* its counts
  MaxTracked,  \* max_tracked_source_ips
  Enabled      \* the rules detection.enabled_rules leaves on

WindowNames == {"auth", "mail", "errors", "sudo", "burst", "users",
                "success", "probe_auth", "probe_ban", "sources"}
ThresholdNames == {"auth", "mail", "errors", "sudo", "burst", "users", "spray",
                   "success", "sources"}

ASSUME WindowAssumption == Window \in [WindowNames -> Nat]
ASSUME ThresholdAssumption == Threshold \in [ThresholdNames -> Nat \ {0}]
ASSUME MaxTrackedAssumption == MaxTracked \in Nat

-----------------------------------------------------------------------------
(* Records: a parsed line [type, key, user, error, raw, at].  The raw text  *)
(* is in the hash of its row; the detector does not look at it.            *)

TypesOf ==
  [auth |-> {"ssh_failed_login", "ssh_root_login_attempt", "ssh_success_login"},
   sudo |-> {"sudo_auth_failure", "sudo_incorrect_password_attempts",
             "pam_auth_failure", "sudo_command"},
   nginx |-> {"nginx_request", "nginx_suspicious_request"},
   mail |-> {"dovecot_failed_login", "postfix_sasl_auth_failed", "dovecot_success_login"},
   fail2ban |-> {"ban", "unban"}]
Source == DOMAIN TypesOf
Type == UNION {TypesOf[s] : s \in Source}

\* The sources whose events carry an address and count as its activity.
Activity == {"auth", "nginx", "mail"}

From(r, s) == r.type \in TypesOf[s]

\* The lists of recent times the detector keeps, and the rule each one is for.
\* The finding of a PAM service other than sudo is named after it, and shares
\* the list, the threshold and the alerted mark of repeated_sudo_auth_failures.
RuleOf ==
  [auth |-> "repeated_failed_login",
   mail |-> "repeated_mail_auth_failures",
   errors |-> "repeated_http_error_responses",
   sudo |-> "repeated_sudo_auth_failures",
   burst |-> "http_request_burst"]
List == DOMAIN RuleOf

Feeds(r, l) ==
  CASE l = "auth" -> r.type \in {"ssh_failed_login", "ssh_root_login_attempt"}
    [] l = "mail" -> r.type \in {"dovecot_failed_login", "postfix_sasl_auth_failed"}
    [] l = "sudo" -> From(r, "sudo") /\ r.type # "sudo_command"
    [] l = "burst" -> From(r, "nginx")
    [] l = "errors" -> From(r, "nginx") /\ r.error

\* The list of failures a successful login looks back on.
LooksBack(r, l) ==
  \/ l = "auth" /\ r.type = "ssh_success_login"
  \/ l = "mail" /\ r.type = "dovecot_success_login"

-----------------------------------------------------------------------------
(* What is remembered of a key. *)

Never == -1

Fresh ==
  [times |-> [l \in List |-> <<>>],        \* auth_failure_times and its like
   users |-> <<>>,                         \* mail_failed_usernames
   activity |-> [s \in Activity |-> <<>>], \* source_activity_times
   seenIn |-> {},                          \* auth_, web_ and mail_activity_ips
   probed |-> Never,                       \* first_web_probe_time
   alerted |-> {}]                         \* all the *_alerted sets, by rule

EmptyState == [k \in Key |-> Fresh]

\* _prune_datetimes stops at the first time that is recent enough, and so
\* keeps what comes after it, old or not.
Pruned(times, now, window) ==
  LET kept == SelectInSeq(times, LAMBDA t : t >= now - window)
  IN IF kept = 0 THEN <<>> ELSE SubSeq(times, kept, Len(times))

\* _prune_pairs, of <<time, user>> pairs.
PrunedPairs(pairs, now, window) ==
  LET kept == SelectInSeq(pairs, LAMBDA p : p[1] >= now - window)
  IN IF kept = 0 THEN <<>> ELSE SubSeq(pairs, kept, Len(pairs))

\* The IPs source_activity_times has an entry for; new ones stop at the cap.
Tracked(state) == {k \in Key : \E s \in Activity : state[k].activity[s] # <<>>}
Admitted(state, k) == k \in Tracked(state) \/ Cardinality(Tracked(state)) < MaxTracked

\* Mutant: the window of a list not applied.
NotedTimesUnpruned(d, r) ==
  [l \in List |-> IF Feeds(r, l) THEN Append(d.times[l], r.at) ELSE d.times[l]]

NotedTimes(d, r) ==
  [l \in List |->
     IF Feeds(r, l) THEN Pruned(Append(d.times[l], r.at), r.at, Window[l])
     ELSE IF LooksBack(r, l) THEN Pruned(d.times[l], r.at, Window["success"])
     ELSE d.times[l]]

\* _track_source_activity, then the pruning of _source_recently_seen.
NotedActivity(state, r) ==
  [s \in Activity |->
     LET times == state[r.key].activity[s]
     IN Pruned(IF From(r, s) /\ Admitted(state, r.key) THEN Append(times, r.at) ELSE times,
               r.at, Window["sources"])]

\* What is remembered of r.key once r is read, its alerts aside.  Sudo events
\* and actions leave source activity alone, an action is never a probe.
Noted(state, r) ==
  LET d == state[r.key] IN
  [d EXCEPT
     !.times = NotedTimes(d, r),
     !.users = IF Feeds(r, "mail") /\ r.user # ""
               THEN PrunedPairs(Append(d.users, <<r.at, r.user>>), r.at, Window["users"])
               ELSE d.users,
     !.activity = IF \E s \in Activity : From(r, s) THEN NotedActivity(state, r) ELSE d.activity,
     !.seenIn = d.seenIn \cup {s \in Activity : From(r, s)},
     !.probed = IF r.type = "nginx_suspicious_request" /\ d.probed = Never THEN r.at ELSE d.probed]

-----------------------------------------------------------------------------
(* The rules. *)

Usernames(d) == {d.users[i][2] : i \in DOMAIN d.users}

Busy(d) == {s \in Activity : Len(d.activity[s]) >= Threshold["sources"]}

\* A probe strictly before r, and no longer before it than the window.
ProbedBefore(d, r, window) == d.probed # Never /\ d.probed < r.at /\ r.at - d.probed <= window

\* Whether the condition of each rule holds at r, d being what is noted with r.
Conditions(d, r) ==
  [root_login_attempt |-> r.type = "ssh_root_login_attempt",
   repeated_failed_login |-> Feeds(r, "auth") /\ Len(d.times["auth"]) >= Threshold["auth"],
   repeated_mail_auth_failures |-> Feeds(r, "mail") /\ Len(d.times["mail"]) >= Threshold["mail"],
   repeated_http_error_responses |->
     Feeds(r, "errors") /\ Len(d.times["errors"]) >= Threshold["errors"],
   repeated_sudo_auth_failures |->
     Feeds(r, "sudo") /\ Len(d.times["sudo"]) >= Threshold["sudo"],
   http_request_burst |-> Feeds(r, "burst") /\ Len(d.times["burst"]) >= Threshold["burst"],
   mail_password_spray_attempt |->
     /\ Feeds(r, "mail")
     /\ r.user # ""
     /\ Cardinality(Usernames(d)) >= Threshold["users"]
     /\ Len(d.times["mail"]) >= Threshold["spray"],
   success_after_failures |->
     LooksBack(r, "auth") /\ Len(d.times["auth"]) >= Threshold["success"],
   mail_success_after_failures |->
     LooksBack(r, "mail") /\ Len(d.times["mail"]) >= Threshold["success"],
   suspicious_web_probe |-> r.type = "nginx_suspicious_request",
   web_probe_followed_by_auth_activity |->
     From(r, "auth") /\ ProbedBefore(d, r, Window["probe_auth"]),
   multi_source_ip_activity |->
     (\E s \in Activity : From(r, s)) /\ Cardinality(Busy(d)) >= 2,
   ip_banned_after_auth_activity |-> r.type = "ban" /\ "auth" \in d.seenIn,
   ip_banned_after_web_activity |-> r.type = "ban" /\ "nginx" \in d.seenIn,
   ip_banned_after_mail_activity |-> r.type = "ban" /\ "mail" \in d.seenIn,
   web_probe_followed_by_fail2ban_ban |->
     r.type = "ban" /\ ProbedBefore(d, r, Window["probe_ban"])]
Rule == {"root_login_attempt", "repeated_failed_login", "repeated_mail_auth_failures",
         "repeated_http_error_responses", "repeated_sudo_auth_failures",
         "http_request_burst",
         "mail_password_spray_attempt", "success_after_failures",
         "mail_success_after_failures", "suspicious_web_probe",
         "web_probe_followed_by_auth_activity", "multi_source_ip_activity",
         "ip_banned_after_auth_activity", "ip_banned_after_web_activity",
         "ip_banned_after_mail_activity", "web_probe_followed_by_fail2ban_ban"}

\* What may come to be remembered of a key.
Memory ==
  [times : [List -> Seq(Nat)], users : Seq(Nat \X User), activity : [Activity -> Seq(Nat)],
   seenIn : SUBSET Activity, probed : Nat \cup {Never}, alerted : SUBSET Rule]

\* A rule fires once in the life of a state, save those on successful logins.
Repeating == {"success_after_failures", "mail_success_after_failures"}
Firing(d, r) == {rule \in Rule \ d.alerted : Conditions(d, r)[rule]}

\* The number a rule's message gives; 0 where the message has none.
Counted(d, r, rule) ==
  CASE rule \in {RuleOf["auth"], RuleOf["mail"], RuleOf["sudo"], RuleOf["burst"]} ->
         Len(d.times[CHOOSE l \in List : RuleOf[l] = rule])
    [] rule = "mail_password_spray_attempt" -> Cardinality(Usernames(d))
    [] rule \in Repeating -> Len(d.times[CHOOSE l \in List : LooksBack(r, l)])
    [] OTHER -> 0

\* A finding: the rule, the record's key and time, the number in its message.
\* A rule that is off marks the key as alerted and makes no finding.
Findings(d, r) ==
  {[type |-> rule, key |-> r.key, at |-> r.at, n |-> Counted(d, r, rule)] :
     rule \in Firing(d, r) \cap Enabled}

\* process_event and process_enforcement_action: the state they leave ...
Processed(state, r) ==
  LET d == Noted(state, r)
  IN [state EXCEPT ![r.key] = [d EXCEPT !.alerted = @ \cup (Firing(d, r) \ Repeating)]]

\* ... and the findings they return.
FindingsAt(state, r) == Findings(Noted(state, r), r)

\* A state after the records of a sequence, their findings thrown away.
Replayed(state, records) ==
  LET upTo[i \in 0 .. Len(records)] ==
        IF i = 0 THEN state ELSE Processed(upTo[i - 1], records[i])
  IN upTo[Len(records)]
=============================================================================
