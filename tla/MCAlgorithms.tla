---------------------------- MODULE MCAlgorithms ----------------------------
(* Cron expressions, label selectors, quiet hours, the recipients of       *)
(* alerts and the reading of the audit log, each over every input of a     *)
(* small set: a behaviour runs one of the five on one input.               *)
EXTENDS MCCron, Selector, QuietHours, Recipients, AuditLog

\* All inputs of four tokens, and all that go on from an open list.
Upto(n) == UNION {[1..k -> Tokens] : k \in 0..n}
MCInputs == Upto(4) \cup {<<"k", "in", "tokLParen">> \o s : s \in Upto(4)}

\* One user's channels and group against another's, and two shared channels.
MCOwnerOf == [c0 |-> "shared", c1 |-> "shared", p1 |-> "u1", p2 |-> "u2"]
Can(g) == {[group |-> g, role |-> "auditor"]}
MCPolicies == {[mode |-> "quiet", windows |-> TRUE], [mode |-> "always", windows |-> TRUE],
               [mode |-> "dashboard", windows |-> FALSE]}
Sub(on, gs) == [enabled |-> on, groups |-> gs, severity |-> TRUE]
MCSubscriptions == {Sub(TRUE, {}), Sub(TRUE, {"g"}), [Sub(TRUE, {}) EXCEPT !.severity = FALSE],
                    Sub(FALSE, {})}
MCStarts ==
    {[roles |-> [u1 |-> r, u2 |-> Can("none")], home |-> <<"none", "g">>,
      subs |-> [u1 |-> Sub(TRUE, {}), u2 |-> Sub(TRUE, {"g"})],
      policy |-> [shared |-> p, u1 |-> q, u2 |-> DefaultPolicy],
      chans |-> [c0 |-> "on", c1 |-> "none", p1 |-> "on", p2 |-> "on"], routing |-> rt] :
     r \in {{}, Can("g")}, p \in MCPolicies,
     q \in {[mode |-> "quiet", windows |-> TRUE], DefaultPolicy},
     rt \in {[mode |-> "all", ids |-> {}], [mode |-> "selected", ids |-> {"c0"}]}}

\* Weeks of three days of four minutes; two windows at most.
Windows == [days : {{}, {0}, {2}, {0, 1}}, start : 0..4, end : 0..4]
MCWindowSets == {{w} : w \in Windows} \cup
                {{w, [days |-> {1}, start |-> 3, end |-> 1]} : w \in Windows}

\* Rows of one time and of two, of a system, a group and neither.
MCAuditTargets == {[kind |-> "system", id |-> "s"]}
LogRow(at, id, kind, of) == [at |-> at, id |-> id, target |-> [kind |-> kind, id |-> of]]
MCStartLogs == {{LogRow(1, 1, "user", "u"), LogRow(1, 3, "system_group", "g"),
                 LogRow(1, 4, "system", "s")}}
Query(since, until, n) == [since |-> since, until |-> until, limit |-> n]
MCQueries == {Query(0, 0, 0), Query(0, 3, 3), Query(2, 0, 0)}
MCRoleSets == {{}, Can("g"), {[group |-> "none", role |-> "admin"]}}

CronOnly == SelectorOff /\ QuietOff /\ RecipientsOff /\ AuditOff
SelectorOnly == CronOff /\ QuietOff /\ RecipientsOff /\ AuditOff
QuietOnly == CronOff /\ SelectorOff /\ RecipientsOff /\ AuditOff
RecipientsOnly == CronOff /\ SelectorOff /\ QuietOff /\ AuditOff
AuditOnly == CronOff /\ SelectorOff /\ QuietOff /\ RecipientsOff

Init ==
    \/ CronInit /\ CronOnly
    \/ SelectorInit /\ SelectorOnly
    \/ QuietInit /\ QuietOnly
    \/ RecipientsInit /\ RecipientsOnly
    \/ AuditInit /\ AuditOnly
Next ==
    \/ CronNext /\ UNCHANGED <<selVars, quietVars, recVars, auditVars>>
    \/ SelectorNext /\ UNCHANGED <<cronVars, quietVars, recVars, auditVars>>
    \/ QuietNext /\ UNCHANGED <<cronVars, selVars, recVars, auditVars>>
    \/ emit.pc # "off" /\ RecipientsNext /\ UNCHANGED <<cronVars, selVars, quietVars, auditVars>>
    \/ now # 0 /\ AuditNext /\ UNCHANGED <<cronVars, selVars, quietVars, recVars>>
Spec == Init /\ [][Next]_<<cronVars, selVars, quietVars, recVars, auditVars>>
=============================================================================
