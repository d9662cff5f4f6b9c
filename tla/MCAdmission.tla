----------------------------- MODULE MCAdmission ------------------------------
(***************************************************************************)
(* Requests for TLC: absent, too small, fitting and contradicting numbers, *)
(* on both sides of the defaults.                                          *)
(***************************************************************************)
EXTENDS Admission

SkillLists == {<<>>,
               <<[id |-> "a", name |-> "A"], [id |-> "b", name |-> "unset"]>>,
               <<[id |-> "a", name |-> "A"], [id |-> "a", name |-> "A"]>>}

(* What is wrong with an agent besides its numbers. *)
NamingRequests ==
    [name : {"unset", "bot"}, url : {"http", "ftp"}, skills : SkillLists,
     version : {0, 1}, enabled : {TRUE},
     interval : {0}, timeout : {0}, threshold : {0}]

NumberRequests ==
    [name : {"bot"}, url : {"http"}, skills : {<<>>}, version : {2},
     enabled : BOOLEAN,
     interval : {-1, 0, 5, 60}, timeout : {-1, 0, 11, 61}, threshold : {-1, 0}]

MCAgentRequests == NamingRequests \cup NumberRequests

(* What is wrong with a registry besides its health check. *)
ScopeRequests ==
    [scope : {"unset", "namespace", "Namespace", "other"},
     namespaces : {{}, {"ns"}}, port : {0, 65536},
     interval : {0}, timeout : {0}]

PeriodRequests ==
    [scope : {"Cluster"}, namespaces : {{}}, port : {8082},
     interval : {-1, 0, 1, 30}, timeout : {0, 31}]

MCRegistryRequests == ScopeRequests \cup PeriodRequests

=============================================================================
