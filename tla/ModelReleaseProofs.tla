------------------------- MODULE ModelReleaseProofs -------------------------
(***************************************************************************)
(* Proofs about ModelRelease, for every set of releases, keys, callers and *)
(* processes.                                                              *)
(***************************************************************************)
EXTENDS ModelRelease, TLAPS

-----------------------------------------------------------------------------
(* The helpers of ModelRelease.                                            *)

\* _get_active_row returns an ACTIVE row, or None when no row is ACTIVE.
LEMMA GetActiveRowIsActive ==
    /\ GetActiveRow \in Releases \cup {None}
    /\ GetActiveRow # None => GetActiveRow \in Releases /\ row[GetActiveRow].status = "ACTIVE"
    /\ GetActiveRow = None => ActiveIn(row) = {}
<1>1. CASE ActiveIn(row) = {}
  BY <1>1 DEF GetActiveRow
<1>2. CASE ActiveIn(row) # {}
  <2>1. PICK r \in Releases : r \in ActiveIn(row)
    BY <1>2 DEF ActiveIn
  <2>2. GetActiveRow \in Releases /\ GetActiveRow \in ActiveIn(row)
    BY <1>2, <2>1 DEF GetActiveRow
  <2> QED
    BY <2>2, ConstantsAssumption DEF ActiveIn, ConstantsAssumption
<1> QED
  BY <1>1, <1>2

\* A key that is not free leads to the release of one of its events.
LEMMA AnswerToIsAnEvent ==
    ASSUME NEW k, ~IdempotencyKeyFree(k)
    PROVE  \E i \in RollbackEvents(k) : audit[i].release = AnswerTo(k)
<1>1. PICK i : i \in DOMAIN audit /\ i \in RollbackEvents(k)
  BY DEF IdempotencyKeyFree, RollbackEvents
<1>2. (CHOOSE j \in DOMAIN audit : j \in RollbackEvents(k)) \in RollbackEvents(k)
  BY <1>1
<1> QED
  BY <1>2 DEF AnswerTo

\* The answer to a used key is a release.
LEMMA AnswerToType ==
    ASSUME Typed, NEW k, ~IdempotencyKeyFree(k)
    PROVE  AnswerTo(k) \in Releases
<1>1. PICK i \in RollbackEvents(k) : audit[i].release = AnswerTo(k)
  BY AnswerToIsAnEvent
<1>2. audit[i] \in Events
  BY <1>1 DEF Typed, RollbackEvents
<1> QED
  BY <1>1, <1>2 DEF Events

-----------------------------------------------------------------------------
(* Type correctness.                                                       *)

\* A call that goes on as a well-formed call keeps all calls well-formed.
LEMMA ProceedShape ==
    ASSUME TypeOK, NEW c \in Callers, NEW m \in Calls, WellFormed(m), Proceed(c, m)
    PROVE  call' \in [Callers -> Calls] /\ CallShape'
BY DEF TypeOK, Typed, CallShape, Proceed, WellFormed

\* What an activation and a rollback leave in the table are rows.
LEMMA ActivatedType ==
    ASSUME Typed, NEW r \in Releases, NEW active \in Releases \cup {None}
    PROVE  Activated(r, active) \in [Releases -> Rows]
<1> DEFINE demoted == Demoted(active, "SUPERSEDED")
<1>1. demoted \in [Releases -> Rows]
  BY DEF Demoted, Typed, Rows, Statuses
<1> HIDE DEF demoted
<1>2. \A p \in Releases \cup {None} :
          [demoted[r] EXCEPT !.status = "ACTIVE", !.previous = p] \in Rows
  BY <1>1 DEF Rows, Statuses
<1>3. Written(None, active, row[r].previous) \in Releases \cup {None}
  BY DEF Written, Rows, Typed
<1>4. Activated(r, active) =
        [demoted EXCEPT ![r] = [demoted[r] EXCEPT !.status = "ACTIVE",
                                   !.previous = Written(None, active, row[r].previous)]]
  BY DEF Activated, demoted
<1> QED
  BY <1>1, <1>2, <1>3, <1>4

LEMMA RolledBackType ==
    ASSUME Typed, NEW active \in Releases, NEW previous \in Releases, NEW old
    PROVE  RolledBack(active, previous, old) \in [Releases -> Rows]
<1> DEFINE demoted == Demoted(active, "ROLLED_BACK")
<1>1. demoted \in [Releases -> Rows]
  BY DEF Demoted, Typed, Rows, Statuses
<1> HIDE DEF demoted
<1>2. \A status \in Statuses : [demoted[previous] EXCEPT !.status = status] \in Rows
  BY <1>1 DEF Rows
<1>3. \A loaded : Written(loaded, "ACTIVE", demoted[previous].status) \in Statuses
  BY <1>1 DEF Written, Rows, Statuses
<1> DEFINE loaded == IF previous = active THEN "ROLLED_BACK" ELSE old
<1>4. RolledBack(active, previous, old) =
        [demoted EXCEPT ![previous] = [demoted[previous] EXCEPT
             !.status = Written(loaded, "ACTIVE", demoted[previous].status)]]
  BY DEF RolledBack, demoted
<1> HIDE DEF loaded
<1> QED
  BY <1>1, <1>2, <1>3, <1>4

LEMMA InitTypeOK == Init => TypeOK
BY ConstantsAssumption
   DEF Init, TypeOK, Typed, CallShape, WellFormed, Rows, Statuses, GateResults, Calls, Idle,
       Steps, Outcomes, ConstantsAssumption

LEMMA NextTypeOK == TypeOK /\ [Next]_vars => TypeOK'
<1> SUFFICES ASSUME TypeOK, [Next]_vars
             PROVE  TypeOK'
  OBVIOUS
<1> USE DEF TypeOK
<1> DEFINE R == Releases \cup {None}
\* The calls a step may put in place of call[c].
<1>a. ASSUME NEW c \in Callers, NEW o \in Outcomes, Reply(c, o)
      PROVE  call' \in [Callers -> Calls] /\ CallShape'
  <2> DEFINE m == [call[c] EXCEPT !.step = "returned", !.outcome = o]
  <2>1. m \in Calls /\ WellFormed(m)
    BY DEF Typed, Calls, Steps, WellFormed
  <2> QED
    BY <1>a, <2>1, ProceedShape DEF Reply
<1>b. ASSUME NEW c \in Callers, NEW r \in R, NEW k \in Keys \cup {None}, NEW o \in Outcomes,
             ReplyAtOnce(c, r, k, o)
      PROVE  call' \in [Callers -> Calls] /\ CallShape'
  <2> DEFINE m == [Idle EXCEPT !.step = "returned", !.release = r, !.key = k, !.outcome = o]
  <2>1. m \in Calls /\ WellFormed(m)
    BY DEF Calls, Steps, Idle, WellFormed
  <2> QED
    BY <1>b, <2>1, ProceedShape DEF ReplyAtOnce
<1>c. ASSUME NEW c \in Callers, call[c].release \in Releases,
             Proceed(c, [call[c] EXCEPT !.step = "sync"]), call[c].step # "returned"
      PROVE  call' \in [Callers -> Calls] /\ CallShape'
  <2> DEFINE m == [call[c] EXCEPT !.step = "sync"]
  <2>1. m \in Calls /\ WellFormed(m)
    <3>1. call[c] \in Calls /\ WellFormed(call[c])
      BY DEF Typed, CallShape
    <3>2. m \in Calls
      BY <3>1 DEF Calls, Steps
    <3>3. m.step = "sync" /\ m.release = call[c].release /\ m.outcome = call[c].outcome
      BY <3>1 DEF Calls
    <3> QED
      BY <1>c, <3>1, <3>2, <3>3 DEF WellFormed
  <2> QED
    BY <1>c, <2>1, ProceedShape
<1>1. ASSUME NEW r \in Releases, RegisterCandidate(r)
      PROVE  TypeOK'
  BY <1>1 DEF RegisterCandidate, Typed, CallShape, WellFormed, Rows, Statuses
<1>2. ASSUME NEW c \in Callers, NEW r \in Releases, GateStart(c, r)
      PROVE  TypeOK'
  <2> DEFINE m == [Idle EXCEPT !.step = "gate", !.release = r, !.old = row[r].gate]
  <2>1. m \in Calls /\ WellFormed(m)
    BY DEF Typed, Rows, Calls, Idle, Steps, Outcomes, WellFormed
  <2>2. call' \in [Callers -> Calls] /\ CallShape'
    BY <1>2, <2>1, ProceedShape DEF GateStart
  <2> QED
    BY <1>2, <2>2 DEF GateStart, Typed
<1>3. ASSUME NEW c \in Callers, NEW v \in {"passed", "failed"}, GateRecord(c, v)
      PROVE  TypeOK'
  <2>1. call' \in [Callers -> Calls] /\ CallShape'
    BY <1>3, <1>a DEF GateRecord, Outcomes
  <2>2. row' \in [Releases -> Rows]
    BY <1>3 DEF GateRecord, At, Written, Typed, CallShape, WellFormed, Rows, GateResults
  <2> QED
    BY <1>3, <2>1, <2>2 DEF GateRecord, Typed
<1>4. ASSUME NEW c \in Callers, NEW r \in Releases, ApproveCheck(c, r)
      PROVE  TypeOK'
  <2> DEFINE m == [Idle EXCEPT !.step = "approve", !.release = r]
  <2>1. m \in Calls /\ WellFormed(m)
    BY DEF Calls, Idle, Steps, Outcomes, WellFormed
  <2>2. call' \in [Callers -> Calls] /\ CallShape'
    BY <1>4, <1>b, <2>1, ProceedShape DEF ApproveCheck, Outcomes
  <2> QED
    BY <1>4, <2>2 DEF ApproveCheck, Typed
<1>5. ASSUME NEW c \in Callers, ApproveRecord(c)
      PROVE  TypeOK'
  <2>1. call' \in [Callers -> Calls] /\ CallShape'
    BY <1>5, <1>a DEF ApproveRecord, Outcomes
  <2>2. row' \in [Releases -> Rows]
    BY <1>5 DEF ApproveRecord, Typed, Rows
  <2> QED
    BY <1>5, <2>1, <2>2 DEF ApproveRecord, Typed
<1>6. ASSUME NEW c \in Callers, NEW r \in Releases, ActivateCheck(c, r)
      PROVE  TypeOK'
  <2> DEFINE m == [Idle EXCEPT !.step = "activateRead", !.release = r]
  <2>1. m \in Calls /\ WellFormed(m)
    BY DEF Calls, Idle, Steps, Outcomes, WellFormed
  <2>2. call' \in [Callers -> Calls] /\ CallShape'
    BY <1>6, <1>b, <2>1, ProceedShape DEF ActivateCheck, Outcomes
  <2> QED
    BY <1>6, <2>2 DEF ActivateCheck, Typed
<1>7. ASSUME NEW c \in Callers, ActivateRead(c)
      PROVE  TypeOK'
  <2> DEFINE m == [call[c] EXCEPT !.step = "activateCommit", !.active = GetActiveRow]
  <2>1. m \in Calls /\ WellFormed(m)
    BY <1>7, GetActiveRowIsActive
       DEF ActivateRead, At, Typed, CallShape, Calls, Steps, WellFormed
  <2>2. call' \in [Callers -> Calls] /\ CallShape'
    BY <1>7, <2>1, ProceedShape DEF ActivateRead
  <2> QED
    BY <1>7, <2>2 DEF ActivateRead, Typed
<1>8. ASSUME NEW c \in Callers, ActivateCommit(c)
      PROVE  TypeOK'
  <2> DEFINE r == call[c].release
             db == Activated(r, call[c].active)
  <2>1. r \in Releases /\ call[c].active \in R
    BY <1>8 DEF ActivateCommit, At, Typed, CallShape, Calls, WellFormed
  <2>2. db \in [Releases -> Rows]
    BY <2>1, ActivatedType
  <2>3. ActivatedEvent(r) \in Events
    BY <2>1 DEF ActivatedEvent, Events
  <2>4. row' \in [Releases -> Rows]
    BY <1>8, <2>2 DEF ActivateCommit, Typed
  <2>5. audit' \in Seq(Events)
    BY <1>8, <2>3 DEF ActivateCommit, Typed
  <2>6. call' \in [Callers -> Calls] /\ CallShape'
    BY <1>8, <1>a, <1>c, <2>1 DEF ActivateCommit, At, Outcomes
  <2> QED
    BY <1>8, <2>4, <2>5, <2>6 DEF ActivateCommit, Typed
<1>9. ASSUME NEW c \in Callers, NEW k \in Keys, RollbackFind(c, k)
      PROVE  TypeOK'
  <2> DEFINE m == [Idle EXCEPT !.step = "rollbackRead", !.key = k]
  <2>1. ~IdempotencyKeyFree(k) => AnswerTo(k) \in Releases
    BY AnswerToType
  <2>2. m \in Calls /\ WellFormed(m)
    BY DEF Calls, Idle, Steps, Outcomes, WellFormed
  <2>3. call' \in [Callers -> Calls] /\ CallShape'
    BY <1>9, <1>b, <2>1, <2>2, ProceedShape DEF RollbackFind, Outcomes
  <2> QED
    BY <1>9, <2>3 DEF RollbackFind, Typed
<1>10. ASSUME NEW c \in Callers, RollbackRead(c)
       PROVE  TypeOK'
  <2> DEFINE m == [call[c] EXCEPT !.step = "rollbackLoad", !.active = GetActiveRow,
                                  !.release = row[GetActiveRow].previous]
  <2>1. ASSUME GetActiveRow # None, row[GetActiveRow].previous # None
        PROVE  m \in Calls /\ WellFormed(m)
    <3>1. GetActiveRow \in Releases /\ row[GetActiveRow].previous \in Releases
      BY <2>1, GetActiveRowIsActive DEF Typed, Rows
    <3> QED
      BY <1>10, <3>1 DEF RollbackRead, At, Typed, CallShape, Calls, Steps, WellFormed
  <2>2. call' \in [Callers -> Calls] /\ CallShape'
    BY <1>10, <1>a, <2>1, ProceedShape DEF RollbackRead, Outcomes
  <2> QED
    BY <1>10, <2>2 DEF RollbackRead, Typed
<1>11. ASSUME NEW c \in Callers, RollbackLoad(c)
       PROVE  TypeOK'
  <2> DEFINE m == [call[c] EXCEPT !.step = "rollbackCommit",
                                  !.old = row[call[c].release].status]
  <2>1. call[c].release \in Releases
    BY <1>11 DEF RollbackLoad, At, CallShape, WellFormed
  <2>2. m \in Calls /\ WellFormed(m)
    BY <1>11, <2>1 DEF RollbackLoad, At, Typed, CallShape, Calls, Steps, Rows, WellFormed
  <2>3. call' \in [Callers -> Calls] /\ CallShape'
    BY <1>11, <2>2, ProceedShape DEF RollbackLoad
  <2> QED
    BY <1>11, <2>3 DEF RollbackLoad, Typed
<1>12. ASSUME NEW c \in Callers, RollbackCommit(c)
       PROVE  TypeOK'
  <2> DEFINE p  == call[c].release
             a  == call[c].active
             db == RolledBack(a, p, call[c].old)
             e  == RolledBackEvent(p, a, call[c].key)
             m  == [call[c] EXCEPT !.step = "rollbackReconcile"]
  <2>1. p \in Releases /\ a \in Releases /\ call[c].key \in Keys
    BY <1>12 DEF RollbackCommit, At, Typed, CallShape, Calls, WellFormed
  <2>2. db \in [Releases -> Rows]
    BY <2>1, RolledBackType
  <2>3. e \in Events
    BY <2>1 DEF RolledBackEvent, Events
  <2>4. row' \in [Releases -> Rows]
    BY <1>12, <2>2 DEF RollbackCommit, Typed
  <2>5. audit' \in Seq(Events)
    <3> HIDE DEF e
    <3>1. audit' = audit \/ audit' = Append(audit, e)
      BY <1>12 DEF RollbackCommit, e
    <3> QED
      BY <2>3, <3>1 DEF Typed
  <2>6. m \in Calls /\ WellFormed(m)
    BY <1>12 DEF RollbackCommit, At, Typed, CallShape, Calls, Steps, WellFormed
  <2>7. call' \in [Callers -> Calls] /\ CallShape'
    BY <1>12, <1>c, <2>1, <2>6, ProceedShape DEF RollbackCommit, At
  <2> QED
    BY <1>12, <2>4, <2>5, <2>7 DEF RollbackCommit, Typed
<1>13. ASSUME NEW c \in Callers, RollbackReconcile(c)
       PROVE  TypeOK'
  <2>1. ~IdempotencyKeyFree(call[c].key) => AnswerTo(call[c].key) \in Releases
    BY AnswerToType
  <2>2. call[c].key \in Keys
    BY <1>13 DEF RollbackReconcile, At, CallShape, WellFormed
  <2>3. call' \in [Callers -> Calls] /\ CallShape'
    BY <1>13, <1>a, <1>b, <2>1, <2>2 DEF RollbackReconcile, Outcomes
  <2> QED
    BY <1>13, <2>3 DEF RollbackReconcile, Typed
<1>14. ASSUME NEW c \in Callers, SyncCache(c)
       PROVE  TypeOK'
  <2>1. call' \in [Callers -> Calls] /\ CallShape'
    BY <1>14, <1>a DEF SyncCache, Outcomes
  <2>2. call[c].release \in Releases
    BY <1>14 DEF SyncCache, At, CallShape, WellFormed
  <2> QED
    BY <1>14, <2>1, <2>2 DEF SyncCache, Typed
<1>15. ASSUME NEW p \in Processes, Restart(p)
       PROVE  TypeOK'
  <2>1. Idle \in Calls /\ WellFormed(Idle)
    BY DEF Idle, Calls, Steps, Outcomes, WellFormed
  <2>2. call' \in [Callers -> Calls] /\ CallShape'
    BY <1>15, <2>1 DEF Restart, Typed, CallShape
  <2> QED
    BY <1>15, <2>2, GetActiveRowIsActive DEF Restart, Typed
<1>16. CASE UNCHANGED vars
  BY <1>16 DEF vars, Typed, CallShape, WellFormed
<1> QED
  BY <1>1, <1>2, <1>3, <1>4, <1>5, <1>6, <1>7, <1>8, <1>9, <1>10, <1>11, <1>12, <1>13,
     <1>14, <1>15, <1>16 DEF Next

\* The type invariant holds for every value of the constants: whatever row or
\* key a call is about to write with, it has loaded or been given before.
THEOREM TypeCorrect == Spec => []TypeOK
BY InitTypeOK, NextTypeOK, PTL DEF Spec

-----------------------------------------------------------------------------
(* The audit table.                                                        *)

LEMMA AppendedEvent ==
    ASSUME audit \in Seq(Events), NEW e \in Events, audit' = Append(audit, e)
    PROVE  /\ DOMAIN audit' = DOMAIN audit \cup {Len(audit) + 1}
           /\ Len(audit) + 1 \notin DOMAIN audit
           /\ audit'[Len(audit) + 1] = e
           /\ \A i \in DOMAIN audit : audit'[i] = audit[i]
OBVIOUS

\* The audit table is append-only, and only the commits of an activation and
\* of a rollback write to it: a step leaves it alone or adds their event.
LEMMA AuditSteps ==
    ASSUME TypeOK, [Next]_vars
    PROVE  \/ audit' = audit
           \/ \E c \in Callers :
                 /\ ActivateCommit(c)
                 /\ audit' = Append(audit, ActivatedEvent(call[c].release))
                 /\ ActivatedEvent(call[c].release) \in Events
           \/ \E c \in Callers :
                 /\ RollbackCommit(c)
                 /\ IdempotencyKeyFree(call[c].key)
                 /\ call[c].key \in Keys
                 /\ audit' = Append(audit, RolledBackEvent(call[c].release, call[c].active,
                                                           call[c].key))
                 /\ RolledBackEvent(call[c].release, call[c].active, call[c].key) \in Events
<1>1. ASSUME NEW c \in Callers, ActivateCommit(c), audit' # audit
      PROVE  /\ audit' = Append(audit, ActivatedEvent(call[c].release))
             /\ ActivatedEvent(call[c].release) \in Events
  <2>1. call[c].release \in Releases
    BY <1>1 DEF ActivateCommit, At, TypeOK, CallShape, WellFormed
  <2> QED
    BY <1>1, <2>1 DEF ActivateCommit, ActivatedEvent, Events
<1>2. ASSUME NEW c \in Callers, RollbackCommit(c), audit' # audit
      PROVE  /\ IdempotencyKeyFree(call[c].key)
             /\ call[c].key \in Keys
             /\ audit' = Append(audit, RolledBackEvent(call[c].release, call[c].active,
                                                       call[c].key))
             /\ RolledBackEvent(call[c].release, call[c].active, call[c].key) \in Events
  <2>1. call[c].release \in Releases /\ call[c].active \in Releases /\ call[c].key \in Keys
    BY <1>2 DEF RollbackCommit, At, TypeOK, CallShape, WellFormed
  <2> QED
    BY <1>2, <2>1 DEF RollbackCommit, RolledBackEvent, Events
<1> QED
  BY <1>1, <1>2
     DEF Next, vars, RegisterCandidate, GateStart, GateRecord, ApproveCheck, ApproveRecord,
         ActivateCheck, ActivateRead, RollbackFind, RollbackRead, RollbackLoad,
         RollbackReconcile, SyncCache, Restart

\* Events stay where they are.
LEMMA EventsPersist ==
    ASSUME TypeOK, [Next]_vars
    PROVE  \A i \in DOMAIN audit : i \in DOMAIN audit' /\ audit'[i] = audit[i]
<1>1. audit \in Seq(Events)
  BY DEF TypeOK, Typed
<1>2. audit' = audit \/ \E e \in Events : audit' = Append(audit, e)
  BY AuditSteps
<1> QED
  BY <1>1, <1>2, AppendedEvent

-----------------------------------------------------------------------------
(* At most one ACTIVE release.                                             *)

\* Only the two commits can make a release ACTIVE, and the partial unique
\* index rejects the ones that would leave two.
LEMMA ActiveSteps ==
    ASSUME TypeOK, [Next]_vars
    PROVE  ActiveIn(row') \subseteq ActiveIn(row) \/ SingleActiveIndex(row')
<1>1. ASSUME NEW r \in Releases, RegisterCandidate(r)
      PROVE  ActiveIn(row') \subseteq ActiveIn(row)
  BY <1>1 DEF RegisterCandidate, ActiveIn, TypeOK, Typed
<1>2. ASSUME NEW c \in Callers, NEW v \in {"passed", "failed"}, GateRecord(c, v)
      PROVE  ActiveIn(row') \subseteq ActiveIn(row)
  BY <1>2 DEF GateRecord, ActiveIn, TypeOK, Typed, Rows
<1>3. ASSUME NEW c \in Callers, ApproveRecord(c)
      PROVE  ActiveIn(row') \subseteq ActiveIn(row)
  BY <1>3 DEF ApproveRecord, ActiveIn, TypeOK, Typed, Rows
<1>4. ASSUME NEW c \in Callers, ActivateCommit(c) \/ RollbackCommit(c)
      PROVE  row' = row \/ SingleActiveIndex(row')
  BY <1>4 DEF ActivateCommit, RollbackCommit
<1>5. row' = row => ActiveIn(row') \subseteq ActiveIn(row)
  BY DEF ActiveIn
<1> QED
  BY <1>1, <1>2, <1>3, <1>4, <1>5
     DEF Next, vars, GateStart, ApproveCheck, ActivateCheck, ActivateRead, RollbackFind,
         RollbackRead, RollbackLoad, RollbackReconcile, SyncCache, Restart

\* So the table never holds two ACTIVE releases, and a demotion alone never
\* meets the index.
LEMMA SingleActive == Spec => []SingleActiveIndex(row)
<1>1. Init => SingleActiveIndex(row)
  BY DEF Init, SingleActiveIndex, ActiveIn
<1>2. TypeOK /\ SingleActiveIndex(row) /\ [Next]_vars => SingleActiveIndex(row)'
  BY ActiveSteps DEF SingleActiveIndex, ActiveIn
<1> QED
  BY <1>1, <1>2, TypeCorrect, PTL DEF Spec

LEMMA DemotedActives ==
    ASSUME row \in [Releases -> Rows], NEW active, NEW status, status # "ACTIVE",
           NEW s \in ActiveIn(Demoted(active, status))
    PROVE  s \in ActiveIn(row) /\ s # active
BY DEF Demoted, ActiveIn, Rows

LEMMA DemotionAccepted ==
    ASSUME row \in [Releases -> Rows], SingleActiveIndex(row),
           NEW active, NEW status, status # "ACTIVE"
    PROVE  SingleActiveIndex(Demoted(active, status))
BY DemotedActives DEF SingleActiveIndex

-----------------------------------------------------------------------------
(* Conflicts.                                                              *)

\* A switch of release leaves none ACTIVE that was not, but the one it
\* promotes, and it demotes the one it read as current.
LEMMA ActivatedActives ==
    ASSUME row \in [Releases -> Rows], NEW r \in Releases, NEW active,
           NEW s \in ActiveIn(Activated(r, active)), s # r
    PROVE  s \in ActiveIn(row) /\ s # active
<1>1. s \in Releases /\ Activated(r, active)[s] = Demoted(active, "SUPERSEDED")[s]
  BY DEF ActiveIn, Activated, Demoted
<1>2. s \in ActiveIn(Demoted(active, "SUPERSEDED"))
  BY <1>1 DEF ActiveIn
<1> QED
  BY <1>2, DemotedActives

LEMMA RolledBackActives ==
    ASSUME row \in [Releases -> Rows], NEW active, NEW previous, NEW old,
           NEW s \in ActiveIn(RolledBack(active, previous, old)), s # previous
    PROVE  s \in ActiveIn(row) /\ s # active
<1>1. s \in Releases /\ RolledBack(active, previous, old)[s] = Demoted(active, "ROLLED_BACK")[s]
  BY DEF ActiveIn, RolledBack, Demoted
<1>2. s \in ActiveIn(Demoted(active, "ROLLED_BACK"))
  BY <1>1 DEF ActiveIn
<1> QED
  BY <1>2, DemotedActives

\* Only the commit of an activation answers with a conflict.
LEMMA ConflictSteps ==
    ASSUME TypeOK, [Next]_vars, NEW c \in Callers, At(c, "activateCommit"),
           call'[c].outcome = "conflict"
    PROVE  SingleActiveIndex(ActivationMidway(call[c].release, call[c].active))
           => ~SingleActiveIndex(Activated(call[c].release, call[c].active))
<1> USE DEF TypeOK
<1>1. call[c].outcome = "pending"
  BY DEF At, CallShape, WellFormed
<1>2. call'[c] # call[c]
  BY <1>1
<1>3. ASSUME NEW d \in Callers, NEW m, Proceed(d, m)
      PROVE  d = c
  BY <1>2, <1>3 DEF Proceed, Typed
<1>4. CASE \E d \in Callers, r \in Releases :
             GateStart(d, r) \/ ApproveCheck(d, r) \/ ActivateCheck(d, r)
  BY <1>3, <1>4 DEF GateStart, ApproveCheck, ActivateCheck, ReplyAtOnce, Free, At
<1>5. CASE \E d \in Callers, k \in Keys : RollbackFind(d, k)
  BY <1>3, <1>5 DEF RollbackFind, ReplyAtOnce, Free, At
<1>6. CASE \E d \in Callers, verdict \in {"passed", "failed"} : GateRecord(d, verdict)
  BY <1>3, <1>6 DEF GateRecord, Reply, At
<1>7. CASE \E d \in Callers :
             ApproveRecord(d) \/ ActivateRead(d) \/ RollbackRead(d) \/ RollbackLoad(d)
             \/ RollbackCommit(d) \/ RollbackReconcile(d) \/ SyncCache(d)
  BY <1>3, <1>7 DEF ApproveRecord, ActivateRead, RollbackRead, RollbackLoad, RollbackCommit,
     RollbackReconcile, SyncCache, Reply, ReplyAtOnce, At
<1>8. ASSUME NEW d \in Callers, ActivateCommit(d)
      PROVE  SingleActiveIndex(ActivationMidway(call[c].release, call[c].active))
             => ~SingleActiveIndex(Activated(call[c].release, call[c].active))
  <2>1. d = c
    BY <1>3, <1>8 DEF ActivateCommit, Reply
  <2>2. ASSUME Proceed(c, [call[c] EXCEPT !.step = "sync"])
        PROVE  FALSE
    <3>1. call'[c].outcome = call[c].outcome
      BY <2>2 DEF Proceed, Typed, Calls
    <3> QED
      BY <1>1, <3>1
  <2> QED
    BY <1>8, <2>1, <2>2 DEF ActivateCommit
<1>9. CASE \E p \in Processes : Restart(p)
  BY <1>2, <1>9 DEF Restart, Idle
<1>10. CASE UNCHANGED vars \/ \E r \in Releases : RegisterCandidate(r)
  BY <1>2, <1>10 DEF vars, RegisterCandidate
<1> QED
  BY <1>4, <1>5, <1>6, <1>7, <1>8, <1>9, <1>10 DEF Next

\* Only the commit of a rollback sends its call to look for the winning event.
LEMMA ReconcileSteps ==
    ASSUME TypeOK, [Next]_vars, NEW c \in Callers, At(c, "rollbackCommit"),
           call'[c].step = "rollbackReconcile"
    PROVE  SingleActiveIndex(RollbackMidway(call[c].active, call[c].release, call[c].old))
           /\ IdempotencyKeyFree(call[c].key)
           => ~SingleActiveIndex(RolledBack(call[c].active, call[c].release, call[c].old))
<1> USE DEF TypeOK
<1>1. call'[c] # call[c]
  BY DEF At
<1>2. ASSUME NEW d \in Callers, NEW m, Proceed(d, m)
      PROVE  d = c
  BY <1>1, <1>2 DEF Proceed, Typed
<1>3. CASE \E d \in Callers, r \in Releases :
             GateStart(d, r) \/ ApproveCheck(d, r) \/ ActivateCheck(d, r)
  BY <1>2, <1>3 DEF GateStart, ApproveCheck, ActivateCheck, ReplyAtOnce, Free, At
<1>4. CASE \E d \in Callers, k \in Keys : RollbackFind(d, k)
  BY <1>2, <1>4 DEF RollbackFind, ReplyAtOnce, Free, At
<1>5. CASE \E d \in Callers, verdict \in {"passed", "failed"} : GateRecord(d, verdict)
  BY <1>2, <1>5 DEF GateRecord, Reply, At
<1>6. CASE \E d \in Callers :
             ApproveRecord(d) \/ ActivateRead(d) \/ ActivateCommit(d) \/ RollbackRead(d)
             \/ RollbackLoad(d) \/ RollbackReconcile(d) \/ SyncCache(d)
  BY <1>2, <1>6 DEF ApproveRecord, ActivateRead, ActivateCommit, RollbackRead, RollbackLoad,
     RollbackReconcile, SyncCache, Reply, ReplyAtOnce, At
<1>7. ASSUME NEW d \in Callers, RollbackCommit(d)
      PROVE  SingleActiveIndex(RollbackMidway(call[c].active, call[c].release, call[c].old))
             /\ IdempotencyKeyFree(call[c].key)
             => ~SingleActiveIndex(RolledBack(call[c].active, call[c].release, call[c].old))
  <2>1. d = c
    BY <1>2, <1>7 DEF RollbackCommit
  <2>2. ASSUME Proceed(c, [call[c] EXCEPT !.step = "sync"])
        PROVE  FALSE
    <3>1. call'[c].step = "sync"
      BY <2>2 DEF Proceed, Typed, Calls
    <3> QED
      BY <3>1
  <2>3. RollbackCommit(c)
    BY <1>7, <2>1
  <2> QED
    BY <2>2, <2>3 DEF RollbackCommit
<1>8. CASE \E p \in Processes : Restart(p)
  BY <1>1, <1>8 DEF Restart, Idle
<1>9. CASE UNCHANGED vars \/ \E r \in Releases : RegisterCandidate(r)
  BY <1>1, <1>9 DEF vars, RegisterCandidate
<1> QED
  BY <1>3, <1>4, <1>5, <1>6, <1>7, <1>8, <1>9 DEF Next

\* Whatever calls race, one that fails at its commit has met a third release
\* that is ACTIVE, or its rollback key already used: the flush keeps its own two
\* UPDATEs from failing it (model_release.py:285-296, 338-352).
THEOREM ConflictsAreReal == Spec => ConflictIsReal
<1>1. ASSUME TypeOK, SingleActiveIndex(row), [Next]_vars, NEW c \in Callers,
             At(c, "activateCommit"), call'[c].outcome = "conflict"
      PROVE  AnotherIsActive(c)
  <2>1. call[c].release \in Releases /\ row \in [Releases -> Rows]
    BY <1>1 DEF TypeOK, Typed, CallShape, WellFormed, At
  <2> PICK release \in Releases : release = call[c].release
    BY <2>1
  <2> PICK active : active = call[c].active
    OBVIOUS
  <2>2. SingleActiveIndex(ActivationMidway(release, active))
    BY <1>1, <2>1, DemotionAccepted DEF ActivationMidway
  <2>3. PICK r \in ActiveIn(Activated(release, active)), s \in ActiveIn(Activated(release, active)) : r # s
    BY <1>1, <2>2, ConflictSteps DEF SingleActiveIndex
  <2>4. r # release => r \in ActiveIn(row) /\ r # active
    BY <2>1, <2>3, ActivatedActives
  <2>5. s # release => s \in ActiveIn(row) /\ s # active
    BY <2>1, <2>3, ActivatedActives
  <2> QED
    BY <2>3, <2>4, <2>5 DEF AnotherIsActive
<1>2. ASSUME TypeOK, SingleActiveIndex(row), [Next]_vars, NEW c \in Callers,
             At(c, "rollbackCommit"), call'[c].step = "rollbackReconcile",
             IdempotencyKeyFree(call[c].key)
      PROVE  AnotherIsActive(c)
  <2>1. row \in [Releases -> Rows]
    BY <1>2 DEF TypeOK, Typed
  <2> PICK active, previous, old :
          active = call[c].active /\ previous = call[c].release /\ old = call[c].old
    OBVIOUS
  <2>2. SingleActiveIndex(RollbackMidway(active, previous, old))
    BY <1>2, <2>1, DemotionAccepted DEF RollbackMidway
  <2> PICK db : db = RolledBack(active, previous, old)
    OBVIOUS
  <2>3. PICK r \in ActiveIn(db), s \in ActiveIn(db) : r # s
    BY <1>2, <2>2, ReconcileSteps DEF SingleActiveIndex
  <2>4. r # previous => r \in ActiveIn(row) /\ r # active
    BY <2>1, <2>3, RolledBackActives
  <2>5. s # previous => s \in ActiveIn(row) /\ s # active
    BY <2>1, <2>3, RolledBackActives
  <2> QED
    BY <2>3, <2>4, <2>5 DEF AnotherIsActive
<1>3. TypeOK /\ SingleActiveIndex(row) /\ [Next]_vars =>
        [\A c \in Callers :
            /\ At(c, "activateCommit") /\ call'[c].outcome = "conflict" => AnotherIsActive(c)
            /\ At(c, "rollbackCommit") /\ call'[c].step = "rollbackReconcile"
                  => AnotherIsActive(c) \/ ~IdempotencyKeyFree(call[c].key)]_vars
  BY <1>1, <1>2
<1> QED
  BY <1>3, TypeCorrect, SingleActive, PTL DEF Spec, ConflictIsReal

-----------------------------------------------------------------------------
(* Idempotent rollback.                                                    *)

\* Where an answer to a key comes from: the call was already synchronising
\* the cache after its commit, commits its own event, or reads an event.
LEMMA AnswerSteps ==
    ASSUME TypeOK, Next, NEW d \in Callers, call'[d] # call[d],
           call'[d].step = "sync" \/ call'[d].outcome = "ok",
           call'[d].key # None
    PROVE  \/ /\ call[d].step = "sync"
              /\ call'[d].key = call[d].key /\ call'[d].release = call[d].release
           \/ /\ RollbackCommit(d)
              /\ audit' = Append(audit, RolledBackEvent(call[d].release, call[d].active,
                                                        call[d].key))
              /\ call'[d].key = call[d].key /\ call'[d].release = call[d].release
           \/ /\ ~IdempotencyKeyFree(call'[d].key)
              /\ call'[d].release = AnswerTo(call'[d].key)
<1> USE DEF TypeOK
<1>1. WellFormed(call[d]) /\ call[d] \in Calls
  BY DEF CallShape, Typed
<1>2. ASSUME NEW c \in Callers, NEW o, Reply(c, o)
      PROVE  /\ d = c /\ call'[d].step = "returned" /\ call'[d].outcome = o
             /\ call'[d].key = call[d].key /\ call'[d].release = call[d].release
  BY <1>2 DEF Reply, Proceed, Typed, Calls
<1>3. ASSUME NEW c \in Callers, NEW r, NEW k, NEW o, ReplyAtOnce(c, r, k, o)
      PROVE  call'[d].outcome = o /\ call'[d].key = k /\ call'[d].release = r
  BY <1>3 DEF ReplyAtOnce, Proceed, Idle, Typed
<1>4. ASSUME NEW r \in Releases, RegisterCandidate(r)
      PROVE  FALSE
  BY <1>4 DEF RegisterCandidate
<1>5. ASSUME NEW c \in Callers, NEW r \in Releases, GateStart(c, r)
      PROVE  FALSE
  BY <1>5, ConstantsAssumption DEF GateStart, Proceed, Idle, Typed
<1>6. ASSUME NEW c \in Callers, NEW v \in {"passed", "failed"}, GateRecord(c, v)
      PROVE  FALSE
  BY <1>1, <1>2, <1>6 DEF GateRecord, At, WellFormed
<1>7. ASSUME NEW c \in Callers, NEW r \in Releases, ApproveCheck(c, r)
      PROVE  FALSE
  BY <1>3, <1>7 DEF ApproveCheck, Proceed, Idle, Typed
<1>8. ASSUME NEW c \in Callers, ApproveRecord(c)
      PROVE  FALSE
  BY <1>1, <1>2, <1>8 DEF ApproveRecord, At, WellFormed
<1>9. ASSUME NEW c \in Callers, NEW r \in Releases, ActivateCheck(c, r)
      PROVE  FALSE
  BY <1>3, <1>9 DEF ActivateCheck, Proceed, Idle, Typed
<1>10. ASSUME NEW c \in Callers, ActivateRead(c)
       PROVE  FALSE
  BY <1>1, <1>10 DEF ActivateRead, At, Proceed, WellFormed, Typed, Calls
<1>11. ASSUME NEW c \in Callers, ActivateCommit(c)
       PROVE  FALSE
  <2>1. CASE Proceed(c, [call[c] EXCEPT !.step = "sync"])
    BY <1>1, <1>11, <2>1 DEF ActivateCommit, At, Proceed, WellFormed, Typed, Calls
  <2>2. CASE Reply(c, "conflict")
    BY <1>2, <2>2
  <2> QED
    BY <1>11, <2>1, <2>2 DEF ActivateCommit
<1>12. ASSUME NEW c \in Callers, NEW k \in Keys, RollbackFind(c, k)
       PROVE  ~IdempotencyKeyFree(call'[d].key) /\ call'[d].release = AnswerTo(call'[d].key)
  <2>1. CASE Proceed(c, [Idle EXCEPT !.step = "rollbackRead", !.key = k])
    BY <2>1 DEF Proceed, Idle, Typed
  <2> QED
    BY <1>3, <1>12, <2>1 DEF RollbackFind
<1>13. ASSUME NEW c \in Callers, RollbackRead(c)
       PROVE  FALSE
  <2>1. CASE Proceed(c, [call[c] EXCEPT !.step = "rollbackLoad", !.active = GetActiveRow,
                                        !.release = row[GetActiveRow].previous])
    BY <1>1, <1>13, <2>1 DEF RollbackRead, At, Proceed, WellFormed, Typed, Calls
  <2> QED
    BY <1>2, <1>13, <2>1 DEF RollbackRead
<1>14. ASSUME NEW c \in Callers, RollbackLoad(c)
       PROVE  FALSE
  BY <1>1, <1>14 DEF RollbackLoad, At, Proceed, WellFormed, Typed, Calls
<1>15. ASSUME NEW c \in Callers, RollbackCommit(c)
       PROVE  /\ RollbackCommit(d)
              /\ audit' = Append(audit, RolledBackEvent(call[d].release, call[d].active,
                                                        call[d].key))
              /\ call'[d].key = call[d].key /\ call'[d].release = call[d].release
  <2>1. d = c
    BY <1>15 DEF RollbackCommit, Proceed, Typed
  <2>2. CASE Proceed(c, [call[c] EXCEPT !.step = "sync"])
    <3>1. call'[d].key = call[d].key /\ call'[d].release = call[d].release
      BY <2>1, <2>2, <1>1 DEF Proceed, Typed, Calls
    <3>2. call'[c].step = "sync"
      BY <2>1, <2>2, <1>1 DEF Proceed, Typed, Calls
    <3>3. ~Proceed(c, [call[c] EXCEPT !.step = "rollbackReconcile"])
      BY <3>2, <2>1, <1>1 DEF Proceed, Typed, Calls
    <3> QED
      BY <1>15, <2>1, <3>1, <3>3 DEF RollbackCommit
  <2>3. CASE Proceed(c, [call[c] EXCEPT !.step = "rollbackReconcile"])
    BY <1>1, <1>15, <2>3 DEF RollbackCommit, At, Proceed, WellFormed, Typed, Calls
  <2> QED
    BY <1>15, <2>2, <2>3 DEF RollbackCommit
<1>16. ASSUME NEW c \in Callers, RollbackReconcile(c)
       PROVE  ~IdempotencyKeyFree(call'[d].key) /\ call'[d].release = AnswerTo(call'[d].key)
  <2>1. d = c
    BY <1>16 DEF RollbackReconcile, Reply, ReplyAtOnce, Proceed, Typed
  <2> QED
    BY <1>1, <1>2, <1>3, <1>16, <2>1 DEF RollbackReconcile, At, WellFormed
<1>17. ASSUME NEW c \in Callers, SyncCache(c)
       PROVE  /\ call[d].step = "sync"
              /\ call'[d].key = call[d].key /\ call'[d].release = call[d].release
  BY <1>2, <1>17 DEF SyncCache, At
<1>18. ASSUME NEW p \in Processes, Restart(p)
       PROVE  FALSE
  BY <1>18, ConstantsAssumption DEF Restart, Idle
<1> QED
  BY <1>4, <1>5, <1>6, <1>7, <1>8, <1>9, <1>10, <1>11, <1>12, <1>13, <1>14, <1>15, <1>16,
     <1>17, <1>18 DEF Next

LEMMA NextOneEventPerKey ==
    ASSUME TypeOK, OneEventPerKey, [Next]_vars
    PROVE  OneEventPerKey'
<1>1. CASE audit' = audit
  BY <1>1 DEF OneEventPerKey
<1>2. ASSUME NEW e \in Events, audit' = Append(audit, e),
             e.type = "ROLLED_BACK" => IdempotencyKeyFree(e.key)
      PROVE  OneEventPerKey'
  <2>1. audit \in Seq(Events)
    BY DEF TypeOK, Typed
  <2>2. \A i \in DOMAIN audit :
           ~(audit[i].type = "ROLLED_BACK" /\ e.type = "ROLLED_BACK" /\ audit[i].key = e.key)
    BY <1>2 DEF IdempotencyKeyFree, RollbackEvents
  <2> QED
    BY <1>2, <2>1, <2>2, AppendedEvent DEF OneEventPerKey
<1> QED
  BY <1>1, <1>2, AuditSteps DEF ActivatedEvent, RolledBackEvent

LEMMA NextAnswersAgree ==
    ASSUME TypeOK, AnswersAgree, [Next]_vars
    PROVE  AnswersAgree'
<1> DEFINE Event(i, d) == /\ audit'[i].type = "ROLLED_BACK"
                          /\ audit'[i].key = call'[d].key
                          /\ audit'[i].release = call'[d].release
<1> SUFFICES ASSUME NEW d \in Callers,
                    call'[d].step = "sync" \/ call'[d].outcome = "ok",
                    call'[d].key # None
             PROVE  \E i \in DOMAIN audit' : Event(i, d)
  BY DEF AnswersAgree, At, RollbackEvents
<1>1. ASSUME \E i \in RollbackEvents(call'[d].key) : audit[i].release = call'[d].release
      PROVE  \E i \in DOMAIN audit' : Event(i, d)
  BY <1>1, EventsPersist DEF RollbackEvents
<1>2. CASE call'[d].key = call[d].key /\ call'[d].release = call[d].release
           /\ (call[d].step = "sync" \/ call[d].outcome = "ok")
  BY <1>1, <1>2 DEF AnswersAgree, At
<1>3. CASE RollbackCommit(d)
           /\ audit' = Append(audit, RolledBackEvent(call[d].release, call[d].active, call[d].key))
           /\ call'[d].key = call[d].key /\ call'[d].release = call[d].release
  <2> DEFINE e == RolledBackEvent(call[d].release, call[d].active, call[d].key)
             n == Len(audit) + 1
  <2>1. audit \in Seq(Events)
    BY DEF TypeOK, Typed
  <2>2. e \in Events
    BY <1>3 DEF RollbackCommit, At, TypeOK, CallShape, WellFormed, RolledBackEvent, Events
  <2>3. e.type = "ROLLED_BACK" /\ e.key = call'[d].key /\ e.release = call'[d].release
    BY <1>3 DEF RolledBackEvent
  <2>4. audit' = Append(audit, e)
    BY <1>3
  <2> HIDE DEF e
  <2>5. n \in DOMAIN audit' /\ audit'[n] = e
    BY <2>1, <2>2, <2>4, AppendedEvent
  <2> QED
    BY <2>3, <2>5
<1>4. CASE ~IdempotencyKeyFree(call'[d].key) /\ call'[d].release = AnswerTo(call'[d].key)
  BY <1>1, <1>4, AnswerToIsAnEvent
<1>5. CASE call'[d] = call[d]
  BY <1>2, <1>5
<1> QED
  BY <1>2, <1>3, <1>4, <1>5, AnswerSteps DEF vars

\* A key is answered once and for all: however its retries interleave with
\* each other, with other calls and with restarts, they leave one event, and
\* each that succeeds returns the release of that event.
THEOREM IdempotentRollback == Spec => []RollbackIdempotent
<1>1. Init => OneEventPerKey /\ AnswersAgree
  BY DEF Init, OneEventPerKey, AnswersAgree, At, Idle
<1>2. TypeOK /\ OneEventPerKey /\ AnswersAgree /\ [Next]_vars
        => (OneEventPerKey /\ AnswersAgree)'
  BY NextOneEventPerKey, NextAnswersAgree
<1> QED
  BY <1>1, <1>2, TypeCorrect, PTL DEF Spec, RollbackIdempotent

-----------------------------------------------------------------------------
(* What is served was approved, and every status is on record.             *)

HasEvent(r) == \E i \in DOMAIN audit : audit[i].release = r

RevertedOnRecord(r) == \E i \in DOMAIN audit : audit[i].type = "ROLLED_BACK" /\ audit[i].from = r

\* r may be in service: it never loses either part.
Cleared(r) == row[r].approved /\ HasEvent(r)

\* The rows, the calls under way and the caches only lead to cleared releases.
RowsCleared ==
    \A r \in Releases :
        /\ row[r].status \in {"ACTIVE", "SUPERSEDED", "ROLLED_BACK"} => Cleared(r)
        /\ row[r].status = "ROLLED_BACK" => RevertedOnRecord(r)
        /\ row[r].previous # None => Cleared(row[r].previous)

CallCleared(m) ==
    /\ m.step \in {"activateRead", "activateCommit"} => row[m.release].approved
    /\ m.step = "activateCommit" /\ m.active # None => Cleared(m.active)
    /\ m.step \in {"rollbackLoad", "rollbackCommit"} => Cleared(m.release) /\ Cleared(m.active)
    /\ m.step = "sync" => Cleared(m.release)

CallsCleared == \A c \in Callers : CallCleared(call[c])

CachesCleared == \A p \in Processes : cache[p] # Bootstrap => Cleared(cache[p])

ClearanceInv == RowsCleared /\ CallsCleared /\ CachesCleared

\* What the two commits write, column by column.
LEMMA ActivatedColumns ==
    ASSUME Typed, NEW r \in Releases, NEW active \in Releases \cup {None}, NEW s \in Releases
    PROVE  /\ Activated(r, active)[s].approved = row[s].approved
           /\ \/ Activated(r, active)[s].previous = row[s].previous
              \/ s = r /\ Activated(r, active)[s].previous = active
           /\ \/ Activated(r, active)[s].status = row[s].status
              \/ s = r /\ Activated(r, active)[s].status = "ACTIVE"
              \/ s = active /\ Activated(r, active)[s].status = "SUPERSEDED"
<1> DEFINE demoted == Demoted(active, "SUPERSEDED")
           p == Written(None, active, row[r].previous)
<1>1. demoted \in [Releases -> Rows]
  BY DEF Demoted, Typed, Rows, Statuses
<1>2. /\ demoted[s].approved = row[s].approved
      /\ demoted[s].previous = row[s].previous
      /\ demoted[s].status = IF s = active THEN "SUPERSEDED" ELSE row[s].status
  BY DEF Demoted, Typed, Rows
<1>3. Activated(r, active) =
        [demoted EXCEPT ![r] = [demoted[r] EXCEPT !.status = "ACTIVE", !.previous = p]]
  BY DEF Activated
<1>4. p \in {active, row[r].previous}
  BY DEF Written
<1> HIDE DEF demoted, p
<1>5. CASE s = r
  <2>1. Activated(r, active)[s] = [demoted[s] EXCEPT !.status = "ACTIVE", !.previous = p]
    BY <1>1, <1>3, <1>5
  <2>2. demoted[s] \in Rows
    BY <1>1
  <2> QED
    BY <1>2, <1>4, <1>5, <2>1, <2>2 DEF Rows
<1>6. CASE s # r
  BY <1>1, <1>2, <1>3, <1>6
<1> QED
  BY <1>5, <1>6

LEMMA RolledBackColumns ==
    ASSUME Typed, NEW active \in Releases, NEW previous \in Releases, NEW old, NEW s \in Releases
    PROVE  /\ RolledBack(active, previous, old)[s].approved = row[s].approved
           /\ RolledBack(active, previous, old)[s].previous = row[s].previous
           /\ \/ s = active
              \/ s = previous /\ RolledBack(active, previous, old)[s].status = "ACTIVE"
              \/ RolledBack(active, previous, old)[s].status = row[s].status
<1> DEFINE demoted == Demoted(active, "ROLLED_BACK")
           loaded  == IF previous = active THEN "ROLLED_BACK" ELSE old
           new     == Written(loaded, "ACTIVE", demoted[previous].status)
<1>1. demoted \in [Releases -> Rows]
  BY DEF Demoted, Typed, Rows, Statuses
<1>2. /\ demoted[s].approved = row[s].approved
      /\ demoted[s].previous = row[s].previous
      /\ s # active => demoted[s].status = row[s].status
  BY DEF Demoted, Typed, Rows
<1>3. RolledBack(active, previous, old) =
        [demoted EXCEPT ![previous] = [demoted[previous] EXCEPT !.status = new]]
  BY DEF RolledBack
<1>4. new \in {"ACTIVE", demoted[previous].status}
  BY DEF Written
<1> HIDE DEF demoted, new
<1>5. CASE s = previous
  <2>1. RolledBack(active, previous, old)[s] = [demoted[s] EXCEPT !.status = new]
    BY <1>1, <1>3, <1>5
  <2>2. demoted[s] \in Rows
    BY <1>1
  <2> QED
    BY <1>2, <1>4, <1>5, <2>1, <2>2 DEF Rows
<1>6. CASE s # previous
  BY <1>1, <1>2, <1>3, <1>6
<1> QED
  BY <1>5, <1>6

\* An approval is never withdrawn.
LEMMA ApprovalPersists ==
    ASSUME TypeOK, [Next]_vars, NEW x \in Releases
    PROVE  row[x].approved => row'[x].approved
<1> USE DEF TypeOK
<1>0. Typed
  OBVIOUS
<1>1. ASSUME NEW c \in Callers, ActivateCommit(c), row' # row
      PROVE  row[x].approved => row'[x].approved
  <2>1. call[c].release \in Releases /\ call[c].active \in Releases \cup {None}
    BY <1>1 DEF ActivateCommit, At, Typed, CallShape, Calls, WellFormed
  <2>2. Activated(call[c].release, call[c].active)[x].approved = row[x].approved
    BY <1>0, <2>1, ActivatedColumns
  <2>3. row' = Activated(call[c].release, call[c].active)
    BY <1>1 DEF ActivateCommit
  <2> QED
    BY <2>2, <2>3
<1>2. ASSUME NEW c \in Callers, RollbackCommit(c), row' # row
      PROVE  row[x].approved => row'[x].approved
  <2>1. call[c].release \in Releases /\ call[c].active \in Releases
    BY <1>2 DEF RollbackCommit, At, CallShape, WellFormed
  <2>2. RolledBack(call[c].active, call[c].release, call[c].old)[x].approved = row[x].approved
    BY <1>0, <2>1, RolledBackColumns
  <2>3. row' = RolledBack(call[c].active, call[c].release, call[c].old)
    BY <1>2 DEF RollbackCommit
  <2> QED
    BY <2>2, <2>3
<1>3. ASSUME NEW s \in Releases, RegisterCandidate(s)
      PROVE  row[x].approved => row'[x].approved
  BY <1>3 DEF RegisterCandidate, Typed, Rows
<1>4. ASSUME NEW c \in Callers, NEW v \in {"passed", "failed"}, GateRecord(c, v)
      PROVE  row[x].approved => row'[x].approved
  BY <1>4 DEF GateRecord, Typed, Rows
<1>5. ASSUME NEW c \in Callers, ApproveRecord(c)
      PROVE  row[x].approved => row'[x].approved
  BY <1>5 DEF ApproveRecord, Typed, Rows
<1> QED
  BY <1>1, <1>2, <1>3, <1>4, <1>5
     DEF Next, vars, GateStart, ApproveCheck, ActivateCheck, ActivateRead, RollbackFind,
         RollbackRead, RollbackLoad, RollbackReconcile, SyncCache, Restart

LEMMA ClearancePersists ==
    ASSUME TypeOK, [Next]_vars, NEW r \in Releases
    PROVE  /\ Cleared(r) => Cleared(r)'
           /\ RevertedOnRecord(r) => RevertedOnRecord(r)'
BY ApprovalPersists, EventsPersist DEF Cleared, HasEvent, RevertedOnRecord

\* A call that a step leaves alone stays cleared.
LEMMA CallKept ==
    ASSUME TypeOK, CallsCleared, [Next]_vars, NEW d \in Callers, call'[d] = call[d]
    PROVE  CallCleared(call[d])'
<1>1. CallCleared(call[d]) /\ WellFormed(call[d]) /\ call[d] \in Calls /\ call'[d] = call[d]
  BY DEF CallsCleared, TypeOK, CallShape, Typed
<1>2. call[d].release \in Releases \cup {None} /\ call[d].active \in Releases \cup {None}
  BY <1>1 DEF Calls
<1>3. ASSUME NEW r \in Releases
      PROVE  /\ Cleared(r) => Cleared(r)'
             /\ row[r].approved => row'[r].approved
  BY ClearancePersists, ApprovalPersists
<1>4. call[d].release \in Releases =>
        /\ Cleared(call[d].release) => Cleared(call[d].release)'
        /\ row[call[d].release].approved => row'[call[d].release].approved
  BY <1>1, <1>3 DEF Cleared, HasEvent
<1>5. call[d].active \in Releases => (Cleared(call[d].active) => Cleared(call[d].active)')
  BY <1>1, <1>3 DEF Cleared, HasEvent
<1> QED
  BY <1>1, <1>2, <1>4, <1>5 DEF CallCleared, WellFormed

\* A step that changes at most the call of c, and leaves that call cleared,
\* leaves all calls cleared.
LEMMA OtherCallsCleared ==
    ASSUME TypeOK, CallsCleared, [Next]_vars, NEW c \in Callers,
           \A d \in Callers \ {c} : call'[d] = call[d],
           CallCleared(call[c])'
    PROVE  CallsCleared'
BY CallKept DEF CallsCleared

\* So does a step whose call has nothing left to write, or nothing loaded yet.
LEMMA CallDone ==
    ASSUME TypeOK, CallsCleared, [Next]_vars, NEW c \in Callers,
           NEW m, m.step \in {"gate", "approve", "rollbackRead", "rollbackReconcile", "returned"},
           Proceed(c, m)
    PROVE  CallsCleared'
<1>1. call'[c] = m /\ \A d \in Callers \ {c} : call'[d] = call[d]
  BY DEF TypeOK, Typed, Proceed
<1>2. CallCleared(call[c])'
  BY <1>1 DEF CallCleared
<1> QED
  BY <1>1, <1>2, OtherCallsCleared

LEMMA ReplyCleared ==
    ASSUME TypeOK, CallsCleared, [Next]_vars, NEW c \in Callers, NEW o,
           Reply(c, o)
    PROVE  CallsCleared'
<1>1. PICK m : m = [call[c] EXCEPT !.step = "returned", !.outcome = o]
  OBVIOUS
<1>2. m.step = "returned"
  BY <1>1 DEF TypeOK, Typed, Calls
<1>3. Proceed(c, m)
  BY <1>1 DEF Reply
<1> QED
  BY <1>2, <1>3, CallDone

LEMMA ReplyAtOnceCleared ==
    ASSUME TypeOK, CallsCleared, [Next]_vars, NEW c \in Callers, NEW r, NEW k, NEW o,
           ReplyAtOnce(c, r, k, o)
    PROVE  CallsCleared'
<1>1. PICK m : m = [Idle EXCEPT !.step = "returned", !.release = r, !.key = k, !.outcome = o]
  OBVIOUS
<1>2. m.step = "returned"
  BY <1>1 DEF Idle
<1>3. Proceed(c, m)
  BY <1>1 DEF ReplyAtOnce
<1> QED
  BY <1>2, <1>3, CallDone

\* The table stays cleared when every status and predecessor a step writes in
\* it is cleared.
LEMMA RowsFollow ==
    ASSUME TypeOK, RowsCleared, [Next]_vars,
           \A y \in Releases :
              /\ \/ row'[y].previous = row[y].previous
                 \/ row'[y].previous = None
                 \/ \E z \in Releases : row'[y].previous = z /\ Cleared(z)'
              /\ \/ row'[y].status = row[y].status
                 \/ row'[y].status = "CANDIDATE"
                 \/ /\ Cleared(y)'
                    /\ row'[y].status = "ROLLED_BACK" => RevertedOnRecord(y)'
    PROVE  RowsCleared'
<1> SUFFICES ASSUME NEW y \in Releases
             PROVE  /\ row'[y].status \in {"ACTIVE", "SUPERSEDED", "ROLLED_BACK"} => Cleared(y)'
                    /\ row'[y].status = "ROLLED_BACK" => RevertedOnRecord(y)'
                    /\ row'[y].previous # None => Cleared(row[y].previous)'
  BY DEF RowsCleared
<1>1. \A z \in Releases : /\ Cleared(z) => Cleared(z)'
                          /\ RevertedOnRecord(z) => RevertedOnRecord(z)'
  BY ClearancePersists
<1>2. row[y].previous \in Releases \cup {None}
  BY DEF TypeOK, Typed, Rows
<1>3. row'[y].status \in {"ACTIVE", "SUPERSEDED", "ROLLED_BACK"} => Cleared(y)'
  BY <1>1 DEF RowsCleared
<1>4. row'[y].status = "ROLLED_BACK" => RevertedOnRecord(y)'
  BY <1>1 DEF RowsCleared
<1>5. row'[y].previous # None => \E z \in Releases : row'[y].previous = z /\ Cleared(z)'
  BY <1>1, <1>2 DEF RowsCleared
<1>6. row'[y].previous # None => Cleared(row[y].previous)'
  BY <1>5 DEF Cleared, HasEvent
<1> QED
  BY <1>3, <1>4, <1>6

\* A step that does not write to a table, or not to a cache, keeps it cleared.
LEMMA TablesKept ==
    ASSUME RowsCleared, row' = row, audit' = audit
    PROVE  RowsCleared'
BY DEF RowsCleared, Cleared, HasEvent, RevertedOnRecord

LEMMA CachesKept ==
    ASSUME TypeOK, CachesCleared, [Next]_vars, cache' = cache
    PROVE  CachesCleared'
<1> SUFFICES ASSUME NEW p \in Processes, cache[p] # Bootstrap
             PROVE  Cleared(cache[p])'
  BY DEF CachesCleared
<1>1. PICK r \in Releases : r = cache[p]
  BY DEF TypeOK, Typed
<1>2. Cleared(r)'
  BY <1>1, ClearancePersists DEF CachesCleared
<1> QED
  BY <1>1, <1>2 DEF Cleared, HasEvent

-----------------------------------------------------------------------------
\* Every step keeps what it may put in service cleared.
LEMMA NextClearance == TypeOK /\ ClearanceInv /\ [Next]_vars => ClearanceInv'
<1> SUFFICES ASSUME TypeOK, RowsCleared, CallsCleared, CachesCleared, [Next]_vars
             PROVE  RowsCleared' /\ CallsCleared' /\ CachesCleared'
  BY DEF ClearanceInv
<1>0. Typed /\ \A c \in Callers : WellFormed(call[c]) /\ call[c] \in Calls /\ CallCleared(call[c])
  BY DEF TypeOK, Typed, CallShape, CallsCleared
\* A step on the call of one caller, in a state whose tables stay as they are.
<1>a. ASSUME NEW c \in Callers, NEW m, Proceed(c, m)
      PROVE  call'[c] = m /\ \A d \in Callers \ {c} : call'[d] = call[d]
  BY <1>0, <1>a DEF Proceed, Typed
<1>b. ASSUME row' = row, audit' = audit, NEW x \in Releases
      PROVE  Cleared(x)' <=> Cleared(x)
  BY <1>b DEF Cleared, HasEvent
<1>c. ASSUME UNCHANGED <<row, audit, cache>>, CallsCleared'
      PROVE  RowsCleared' /\ CallsCleared' /\ CachesCleared'
  BY <1>c, TablesKept, CachesKept
<1>1. ASSUME NEW x \in Releases, RegisterCandidate(x)
      PROVE  RowsCleared' /\ CallsCleared' /\ CachesCleared'
  <2>1. \A y \in Releases : /\ row'[y].previous = row[y].previous
                            /\ row'[y].status \in {row[y].status, "CANDIDATE"}
    BY <1>0, <1>1 DEF RegisterCandidate, Typed, Rows
  <2>2. RowsCleared'
    BY <2>1, RowsFollow
  <2>3. CallsCleared'
    BY <1>1, CallKept DEF RegisterCandidate, CallsCleared
  <2> QED
    BY <1>1, <2>2, <2>3, CachesKept DEF RegisterCandidate
<1>2. ASSUME NEW c \in Callers, NEW x \in Releases, GateStart(c, x)
      PROVE  CallsCleared'
  <2>1. PICK m : m = [Idle EXCEPT !.step = "gate", !.release = x, !.old = row[x].gate]
    OBVIOUS
  <2>2. m.step = "gate" /\ Proceed(c, m)
    BY <1>2, <2>1 DEF GateStart, Idle
  <2> QED
    BY <2>2, CallDone
<1>3. ASSUME NEW c \in Callers, NEW v \in {"passed", "failed"}, GateRecord(c, v)
      PROVE  RowsCleared' /\ CallsCleared' /\ CachesCleared'
  <2>1. \A y \in Releases : /\ row'[y].previous = row[y].previous
                            /\ row'[y].status = row[y].status
    BY <1>0, <1>3 DEF GateRecord, Typed, Rows
  <2>2. RowsCleared'
    BY <2>1, RowsFollow
  <2> QED
    BY <1>3, <2>2, ReplyCleared, CachesKept DEF GateRecord
<1>4. ASSUME NEW c \in Callers, NEW x \in Releases, ApproveCheck(c, x)
      PROVE  CallsCleared'
  <2>1. PICK m : m = [Idle EXCEPT !.step = "approve", !.release = x]
    OBVIOUS
  <2>2. m.step = "approve"
    BY <2>1 DEF Idle
  <2>3. CASE Proceed(c, m)
    BY <2>2, <2>3, CallDone
  <2>4. CASE ReplyAtOnce(c, x, None, "refused")
    BY <2>4, ReplyAtOnceCleared
  <2> QED
    BY <1>4, <2>1, <2>3, <2>4 DEF ApproveCheck
<1>5. ASSUME NEW c \in Callers, ApproveRecord(c)
      PROVE  RowsCleared' /\ CallsCleared' /\ CachesCleared'
  <2>1. \A y \in Releases : /\ row'[y].previous = row[y].previous
                            /\ row'[y].status = row[y].status
    BY <1>0, <1>5 DEF ApproveRecord, Typed, Rows
  <2>2. RowsCleared'
    BY <2>1, RowsFollow
  <2> QED
    BY <1>5, <2>2, ReplyCleared, CachesKept DEF ApproveRecord
<1>6. ASSUME NEW c \in Callers, NEW x \in Releases, ActivateCheck(c, x)
      PROVE  CallsCleared'
  <2>1. CASE ReplyAtOnce(c, x, None, "refused")
    BY <2>1, ReplyAtOnceCleared
  <2>2. CASE MayActivate(x) /\ Proceed(c, [Idle EXCEPT !.step = "activateRead", !.release = x])
    <3>1. call'[c] = [Idle EXCEPT !.step = "activateRead", !.release = x]
          /\ \A d \in Callers \ {c} : call'[d] = call[d]
      BY <1>0, <2>2 DEF Proceed, Typed
    <3>2. row'[x].approved
      BY <1>6, <2>2 DEF ActivateCheck, MayActivate
    <3>3. CallCleared(call[c])'
      BY <3>1, <3>2 DEF CallCleared, Idle
    <3> QED
      BY <3>1, <3>3, OtherCallsCleared
  <2> QED
    BY <1>6, <2>1, <2>2 DEF ActivateCheck
<1>7. ASSUME NEW c \in Callers, ActivateRead(c)
      PROVE  CallsCleared'
  <2>1. PICK m : m = [call[c] EXCEPT !.step = "activateCommit", !.active = GetActiveRow]
    OBVIOUS
  <2>2. Proceed(c, m)
    BY <1>7, <2>1 DEF ActivateRead
  <2>3. call'[c] = m /\ \A d \in Callers \ {c} : call'[d] = call[d]
    BY <1>a, <2>2
  <2>4. m.step = "activateCommit" /\ m.active = GetActiveRow /\ m.release = call[c].release
    BY <1>0, <2>1 DEF Calls
  <2>5. row[call[c].release].approved
    BY <1>0, <1>7 DEF ActivateRead, At, CallCleared
  <2>6. m.active # None => m.active \in Releases /\ Cleared(m.active)
    BY <2>4, GetActiveRowIsActive DEF RowsCleared
  <2>7. m.active # None => Cleared(m.active)'
    BY <1>7, <1>b, <2>6 DEF ActivateRead
  <2>8. CallCleared(call[c])'
    BY <1>7, <2>3, <2>4, <2>5, <2>7 DEF ActivateRead, CallCleared, Cleared, HasEvent
  <2> QED
    BY <2>3, <2>8, OtherCallsCleared
\* The two commits: the release promoted has been approved and gets its event,
\* the one demoted was in service.
<1>8. ASSUME NEW c \in Callers, ActivateCommit(c)
      PROVE  RowsCleared' /\ CallsCleared' /\ CachesCleared'
  <2>1. CASE Reply(c, "conflict") /\ UNCHANGED <<row, audit>>
    BY <1>8, <2>1, ReplyCleared, TablesKept, CachesKept DEF ActivateCommit
  <2>2. CASE /\ row' = Activated(call[c].release, call[c].active)
             /\ audit' = Append(audit, ActivatedEvent(call[c].release))
             /\ Proceed(c, [call[c] EXCEPT !.step = "sync"])
    <3>1. PICK p, a : p = call[c].release /\ a = call[c].active
      OBVIOUS
    <3>2. p \in Releases /\ a \in Releases \cup {None}
      BY <1>0, <1>8, <3>1 DEF ActivateCommit, At, WellFormed, Calls
    <3>3. row[p].approved /\ (a # None => Cleared(a))
      BY <1>0, <1>8, <3>1 DEF ActivateCommit, At, CallCleared
    <3>4. HasEvent(p)'
      <4>1. ActivatedEvent(p) \in Events /\ ActivatedEvent(p).release = p
        BY <3>2 DEF ActivatedEvent, Events
      <4>2. audit \in Seq(Events) /\ audit' = Append(audit, ActivatedEvent(p))
        BY <1>0, <2>2, <3>1 DEF Typed
      <4> QED
        BY <4>1, <4>2, AppendedEvent DEF HasEvent
    <3>5. Cleared(p)'
      BY <3>2, <3>3, <3>4, ApprovalPersists DEF Cleared
    <3>6. \A y \in Releases : /\ \/ row'[y].previous = row[y].previous
                                 \/ y = p /\ row'[y].previous = a
                              /\ \/ row'[y].status = row[y].status
                                 \/ y = p /\ row'[y].status = "ACTIVE"
                                 \/ y = a /\ row'[y].status = "SUPERSEDED"
      BY <1>0, <2>2, <3>1, <3>2, ActivatedColumns
    <3>7. RowsCleared'
      <4>1. a # None => a \in Releases /\ Cleared(a)'
        BY <3>2, <3>3, ClearancePersists
      <4>2. ASSUME NEW y \in Releases
            PROVE  /\ \/ row'[y].previous = row[y].previous
                      \/ row'[y].previous = None
                      \/ \E z \in Releases : row'[y].previous = z /\ Cleared(z)'
                   /\ \/ row'[y].status = row[y].status
                      \/ row'[y].status = "CANDIDATE"
                      \/ /\ Cleared(y)'
                         /\ row'[y].status = "ROLLED_BACK" => RevertedOnRecord(y)'
        <5>1. \/ row'[y].previous = row[y].previous
              \/ row'[y].previous = None
              \/ \E z \in Releases : row'[y].previous = z /\ Cleared(z)'
          BY <3>6, <4>1
        <5>2. CASE y = a
          BY <3>2, <3>5, <3>6, <4>1, <5>1, <5>2, ConstantsAssumption DEF ConstantsAssumption
        <5>3. CASE y # a
          BY <3>5, <3>6, <5>1, <5>3
        <5> QED
          BY <5>2, <5>3
      <4> QED
        BY <4>2, RowsFollow
    <3>8. CallsCleared'
      <4>1. PICK m : m = [call[c] EXCEPT !.step = "sync"]
        OBVIOUS
      <4>2. call'[c] = m /\ \A d \in Callers \ {c} : call'[d] = call[d]
        BY <1>a, <2>2, <4>1
      <4>3. m.step = "sync" /\ m.release = p
        BY <1>0, <3>1, <4>1 DEF Calls
      <4>4. CallCleared(call[c])'
        BY <3>5, <4>2, <4>3 DEF CallCleared, Cleared, HasEvent
      <4> QED
        BY <4>2, <4>4, OtherCallsCleared
    <3> QED
      BY <1>8, <3>7, <3>8, CachesKept DEF ActivateCommit
  <2> QED
    BY <1>8, <2>1, <2>2 DEF ActivateCommit
<1>9. ASSUME NEW c \in Callers, NEW k \in Keys, RollbackFind(c, k)
      PROVE  CallsCleared'
  <2>1. PICK m : m = [Idle EXCEPT !.step = "rollbackRead", !.key = k]
    OBVIOUS
  <2>2. m.step = "rollbackRead"
    BY <2>1 DEF Idle
  <2>3. CASE Proceed(c, m)
    BY <2>2, <2>3, CallDone
  <2>4. CASE ReplyAtOnce(c, AnswerTo(k), k, "ok")
    <3>1. PICK r : r = AnswerTo(k)
      OBVIOUS
    <3> QED
      BY <2>4, <3>1, ReplyAtOnceCleared
  <2> QED
    BY <1>9, <2>1, <2>3, <2>4 DEF RollbackFind
<1>10. ASSUME NEW c \in Callers, RollbackRead(c)
       PROVE  CallsCleared'
  <2>1. CASE GetActiveRow # None /\ row[GetActiveRow].previous # None
             /\ Proceed(c, [call[c] EXCEPT !.step = "rollbackLoad", !.active = GetActiveRow,
                                           !.release = row[GetActiveRow].previous])
    <3>1. PICK m : m = [call[c] EXCEPT !.step = "rollbackLoad", !.active = GetActiveRow,
                                       !.release = row[GetActiveRow].previous]
      OBVIOUS
    <3>2. call'[c] = m /\ \A d \in Callers \ {c} : call'[d] = call[d]
      BY <1>a, <2>1, <3>1
    <3>3. m.step = "rollbackLoad" /\ m.active = GetActiveRow
          /\ m.release = row[GetActiveRow].previous
      BY <1>0, <3>1 DEF Calls
    <3>4. m.active \in Releases /\ m.release \in Releases
      BY <1>0, <2>1, <3>3, GetActiveRowIsActive DEF Typed, Rows
    <3>5. Cleared(m.active) /\ Cleared(m.release)
      BY <2>1, <3>3, <3>4, GetActiveRowIsActive DEF RowsCleared
    <3>6. Cleared(m.active)' /\ Cleared(m.release)'
      BY <1>10, <1>b, <3>4, <3>5 DEF RollbackRead
    <3>7. CallCleared(call[c])'
      BY <3>2, <3>3, <3>6 DEF CallCleared, Cleared, HasEvent
    <3> QED
      BY <3>2, <3>7, OtherCallsCleared
  <2> QED
    BY <1>10, <2>1, ReplyCleared DEF RollbackRead
<1>11. ASSUME NEW c \in Callers, RollbackLoad(c)
       PROVE  CallsCleared'
  <2>1. PICK m : m = [call[c] EXCEPT !.step = "rollbackCommit",
                                     !.old = row[call[c].release].status]
    OBVIOUS
  <2>2. Proceed(c, m)
    BY <1>11, <2>1 DEF RollbackLoad
  <2>3. call'[c] = m /\ \A d \in Callers \ {c} : call'[d] = call[d]
    BY <1>a, <2>2
  <2>4. m.step = "rollbackCommit" /\ m.active = call[c].active /\ m.release = call[c].release
    BY <1>0, <2>1 DEF Calls
  <2>5. /\ call[c].active \in Releases /\ call[c].release \in Releases
        /\ Cleared(call[c].active) /\ Cleared(call[c].release)
    BY <1>0, <1>11 DEF RollbackLoad, At, CallCleared, WellFormed
  <2>6. Cleared(m.active)' /\ Cleared(m.release)'
    BY <1>11, <1>b, <2>4, <2>5 DEF RollbackLoad, Cleared, HasEvent
  <2>7. CallCleared(call[c])'
    BY <2>3, <2>4, <2>6 DEF CallCleared, Cleared, HasEvent
  <2> QED
    BY <2>3, <2>7, OtherCallsCleared
<1>12. ASSUME NEW c \in Callers, RollbackCommit(c)
       PROVE  RowsCleared' /\ CallsCleared' /\ CachesCleared'
  <2>1. CASE /\ Proceed(c, [call[c] EXCEPT !.step = "rollbackReconcile"])
             /\ UNCHANGED <<row, audit>>
    <3>1. PICK m : m = [call[c] EXCEPT !.step = "rollbackReconcile"]
      OBVIOUS
    <3>2. m.step = "rollbackReconcile"
      BY <1>0, <3>1 DEF Calls
    <3>3. Proceed(c, m)
      BY <2>1, <3>1
    <3>4. CallsCleared'
      BY <3>2, <3>3, CallDone
    <3> QED
      BY <1>12, <2>1, <3>4, TablesKept, CachesKept DEF RollbackCommit
  <2>2. CASE /\ row' = RolledBack(call[c].active, call[c].release, call[c].old)
             /\ audit' = Append(audit, RolledBackEvent(call[c].release, call[c].active, call[c].key))
             /\ Proceed(c, [call[c] EXCEPT !.step = "sync"])
    <3>1. PICK p, a, k : p = call[c].release /\ a = call[c].active /\ k = call[c].key
      OBVIOUS
    <3>2. p \in Releases /\ a \in Releases /\ k \in Keys
      BY <1>0, <1>12, <3>1 DEF RollbackCommit, At, WellFormed
    <3>3. Cleared(p)' /\ Cleared(a)'
      BY <1>0, <1>12, <3>1, <3>2, ClearancePersists DEF RollbackCommit, At, CallCleared
    <3>4. RevertedOnRecord(a)'
      <4>1. /\ RolledBackEvent(p, a, k) \in Events
            /\ RolledBackEvent(p, a, k).type = "ROLLED_BACK" /\ RolledBackEvent(p, a, k).from = a
        BY <3>2 DEF RolledBackEvent, Events
      <4>2. audit \in Seq(Events) /\ audit' = Append(audit, RolledBackEvent(p, a, k))
        BY <1>0, <2>2, <3>1 DEF Typed
      <4> QED
        BY <4>1, <4>2, AppendedEvent DEF RevertedOnRecord
    <3>5. \A y \in Releases : /\ row'[y].previous = row[y].previous
                              /\ \/ y = a
                                 \/ y = p /\ row'[y].status = "ACTIVE"
                                 \/ row'[y].status = row[y].status
      BY <1>0, <2>2, <3>1, <3>2, RolledBackColumns
    <3>6. RowsCleared'
      BY <3>3, <3>4, <3>5, RowsFollow
    <3>7. CallsCleared'
      <4>1. PICK m : m = [call[c] EXCEPT !.step = "sync"]
        OBVIOUS
      <4>2. call'[c] = m /\ \A d \in Callers \ {c} : call'[d] = call[d]
        BY <1>a, <2>2, <4>1
      <4>3. m.step = "sync" /\ m.release = p
        BY <1>0, <3>1, <4>1 DEF Calls
      <4>4. CallCleared(call[c])'
        BY <3>3, <4>2, <4>3 DEF CallCleared, Cleared, HasEvent
      <4> QED
        BY <4>2, <4>4, OtherCallsCleared
    <3> QED
      BY <1>12, <3>6, <3>7, CachesKept DEF RollbackCommit
  <2> QED
    BY <1>12, <2>1, <2>2 DEF RollbackCommit
<1>13. ASSUME NEW c \in Callers, RollbackReconcile(c)
       PROVE  CallsCleared'
  <2>1. CASE ReplyAtOnce(c, AnswerTo(call[c].key), call[c].key, "ok")
    <3>1. PICK x, k : x = AnswerTo(call[c].key) /\ k = call[c].key
      OBVIOUS
    <3> QED
      BY <2>1, <3>1, ReplyAtOnceCleared
  <2> QED
    BY <1>13, <2>1, ReplyCleared DEF RollbackReconcile
<1>14. ASSUME NEW c \in Callers, SyncCache(c)
       PROVE  RowsCleared' /\ CallsCleared' /\ CachesCleared'
  <2>1. PICK x \in Releases : x = call[c].release
    BY <1>0, <1>14 DEF SyncCache, At, WellFormed
  <2>2. Cleared(x)
    BY <1>0, <1>14, <2>1 DEF SyncCache, At, CallCleared
  <2>3. \A q \in Processes : cache'[q] = cache[q] \/ cache'[q] = x
    BY <1>0, <1>14, <2>1 DEF SyncCache, Typed
  <2>4. CachesCleared'
    BY <1>14, <2>2, <2>3 DEF SyncCache, CachesCleared, Cleared, HasEvent
  <2> QED
    BY <1>14, <2>4, ReplyCleared, TablesKept DEF SyncCache
<1>15. ASSUME NEW q \in Processes, Restart(q)
       PROVE  RowsCleared' /\ CallsCleared' /\ CachesCleared'
  <2>1. \A d \in Callers : call'[d] = call[d] \/ call'[d] = Idle
    BY <1>15 DEF Restart
  <2>2. CallsCleared'
    <3> SUFFICES ASSUME NEW d \in Callers
                 PROVE  CallCleared(call[d])'
      BY DEF CallsCleared
    <3>1. CASE call'[d] = Idle
      BY <3>1 DEF CallCleared, Idle
    <3> QED
      BY <2>1, <3>1, CallKept
  <2>3. GetActiveRow # None => Cleared(GetActiveRow)
    BY GetActiveRowIsActive DEF RowsCleared
  <2>4. \A o \in Processes : \/ cache'[o] \in {cache[o], Bootstrap}
                             \/ GetActiveRow # None /\ cache'[o] = GetActiveRow
    BY <1>0, <1>15 DEF Restart, Typed
  <2>5. CachesCleared'
    BY <1>15, <2>3, <2>4 DEF Restart, CachesCleared, Cleared, HasEvent
  <2> QED
    BY <1>15, <2>2, <2>5, TablesKept DEF Restart
<1>16. CASE UNCHANGED vars
  BY <1>16, <1>c DEF vars, CallsCleared, CallCleared, Cleared, HasEvent
<1>17. ASSUME NEW c \in Callers, NEW x \in Releases,
              GateStart(c, x) \/ ApproveCheck(c, x) \/ ActivateCheck(c, x)
       PROVE  RowsCleared' /\ CallsCleared' /\ CachesCleared'
  BY <1>2, <1>4, <1>6, <1>17, <1>c DEF GateStart, ApproveCheck, ActivateCheck
<1>18. ASSUME NEW c \in Callers,
              \/ ActivateRead(c) \/ RollbackRead(c) \/ RollbackLoad(c) \/ RollbackReconcile(c)
              \/ \E k \in Keys : RollbackFind(c, k)
       PROVE  RowsCleared' /\ CallsCleared' /\ CachesCleared'
  BY <1>7, <1>9, <1>10, <1>11, <1>13, <1>18, <1>c
     DEF ActivateRead, RollbackRead, RollbackLoad, RollbackReconcile, RollbackFind
<1> QED
  BY <1>1, <1>3, <1>5, <1>8, <1>12, <1>14, <1>15, <1>16, <1>17, <1>18 DEF Next

LEMMA InitClearance == Init => ClearanceInv
BY DEF Init, ClearanceInv, RowsCleared, CallsCleared, CachesCleared, CallCleared, Idle

\* Nothing but the bootstrap checkpoint is ever served that a human has not
\* approved and an audit event has not put in service, stale caches included.
THEOREM ApprovedIfServed == Spec => []ServedWasApproved
<1>1. ClearanceInv => ServedWasApproved
  BY DEF ClearanceInv, CachesCleared, ServedWasApproved, Cleared, HasEvent
<1> QED
  BY <1>1, InitTypeOK, NextTypeOK, InitClearance, NextClearance, PTL DEF Spec

\* A release is ACTIVE, SUPERSEDED or ROLLED_BACK only on the evidence of the
\* audit trail, whichever calls raced to set its status.
THEOREM EvidenceOfStatus == Spec => []StatusHasEvidence
<1>1. ClearanceInv => StatusHasEvidence
  BY DEF ClearanceInv, RowsCleared, StatusHasEvidence, Cleared, HasEvent, RevertedOnRecord
<1> QED
  BY <1>1, InitTypeOK, NextTypeOK, InitClearance, NextClearance, PTL DEF Spec

=============================================================================
