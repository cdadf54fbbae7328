---------------------------- MODULE MCCaseStore ----------------------------
\* CASE-RET-001 and CASE-RET-003, the fixtures with and without a review, and
\* the sources they share; "late" is a key that starts with "early".
EXTENDS CaseStore, TLC

MCCites ==
    [c \in {"RET-001", "RET-003"} |->
        {"KOGAN-GUARANTEE"} \cup (IF c = "RET-003" THEN {"FAULT-MINOR"} ELSE {})]

MCAsks ==
    [early |-> [case |-> "RET-001", who |-> "ann", verdict |-> "APPROVE"],
     late  |-> [case |-> "RET-001", who |-> "bob", verdict |-> "REJECT"],
     other |-> [case |-> "RET-003", who |-> "ann", verdict |-> "APPROVE"],
     guest |-> [case |-> "RET-001", who |-> "gus", verdict |-> "APPROVE"],
     alien |-> [case |-> "RET-001", who |-> "stranger", verdict |-> "APPROVE"]]

MCWithin == {<<k, k>> : k \in DOMAIN MCAsks} \cup {<<"early", "late">>}

RequestsAlike == Permutations(Requests)
=============================================================================
