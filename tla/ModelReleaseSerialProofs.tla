---------------------- MODULE ModelReleaseSerialProofs ----------------------
(***************************************************************************)
(* Proofs about SerialSpec: any number of callers, any number of releases  *)
(* and keys, activations and rollbacks that do not overlap, and restarts   *)
(* at any step.  The releases in service are a stack, the audit trail can  *)
(* be replayed, and the lifecycle implements ReleaseStack.                 *)
(***************************************************************************)
EXTENDS ModelReleaseRefinement, ModelReleaseProofs, FiniteSetTheorems

\* s is the stack of releases in service, bottom first: the last is ACTIVE,
\* the ones below are SUPERSEDED, and each row names the one below it.
IsStack(s) ==
    /\ s \in Seq(Releases)
    /\ \A i, j \in 1..Len(s) : s[i] = s[j] => i = j
    /\ \A r \in Releases : row[r].status = "ACTIVE" <=> (s # <<>> /\ r = s[Len(s)])
    /\ \A r \in Releases :
          row[r].status = "SUPERSEDED" <=> \E i \in 1..Len(s) : i # Len(s) /\ r = s[i]
    /\ \A i \in 1..Len(s) : row[s[i]].previous = IF i = 1 THEN None ELSE s[i - 1]

\* A release that was never in service has nothing below it.
Untouched ==
    \A r \in Releases : row[r].status \in {"ABSENT", "CANDIDATE"} => row[r].previous = None

\* What a call under way has read still holds.
Current(m) ==
    /\ m.step \in {"activateRead", "activateCommit"} => row[m.release].status = "CANDIDATE"
    /\ m.step = "activateCommit" =>
          \A r \in Releases : row[r].status = "ACTIVE" <=> r = m.active
    /\ m.step \in {"rollbackRead", "rollbackLoad", "rollbackCommit"} => IdempotencyKeyFree(m.key)
    /\ m.step \in {"rollbackLoad", "rollbackCommit"} =>
          row[m.active].status = "ACTIVE" /\ row[m.active].previous = m.release
    /\ m.step = "rollbackCommit" => m.old = "SUPERSEDED"
    /\ m.step # "rollbackReconcile"
    /\ m.step = "sync" => row[m.release].status = "ACTIVE"
    /\ m.outcome \notin {"conflict", "integrityError"}

AllCurrent == \A c \in Callers : Current(call[c])

\* The audit and the table tell of the same releases from the first event on.
AuditStarts == audit = <<>> => ActiveIn(row) = {}

SerialInv ==
    /\ TypeOK
    /\ Untouched
    /\ \E s \in Seq(Releases) : IsStack(s)
    /\ AllCurrent
    /\ AuditReplays
    /\ AuditStarts

-----------------------------------------------------------------------------
(* What the two commits write, when what they act on is what they read.    *)

LEMMA ActivatedRows ==
    ASSUME Typed, NEW r \in Releases, NEW active \in Releases \cup {None}, active # r,
           row[r].previous = None, NEW s \in Releases
    PROVE  /\ Activated(r, active)[s].status =
                 IF s = r THEN "ACTIVE" ELSE IF s = active THEN "SUPERSEDED" ELSE row[s].status
           /\ Activated(r, active)[s].previous = IF s = r THEN active ELSE row[s].previous
<1> DEFINE demoted == Demoted(active, "SUPERSEDED")
           p == Written(None, active, row[r].previous)
<1>1. demoted \in [Releases -> Rows]
  BY DEF Demoted, Typed, Rows, Statuses
<1>2. /\ demoted[s].previous = row[s].previous
      /\ demoted[s].status = IF s = active THEN "SUPERSEDED" ELSE row[s].status
  BY DEF Demoted, Typed, Rows
<1>3. Activated(r, active) =
        [demoted EXCEPT ![r] = [demoted[r] EXCEPT !.status = "ACTIVE", !.previous = p]]
  BY DEF Activated
<1>4. p = active
  BY DEF Written
<1> HIDE DEF demoted, p
<1>5. CASE s = r
  <2>1. Activated(r, active)[s] = [demoted[s] EXCEPT !.status = "ACTIVE", !.previous = p]
    BY <1>1, <1>3, <1>5
  <2>2. demoted[s] \in Rows
    BY <1>1
  <2> QED
    BY <1>4, <1>5, <2>1, <2>2 DEF Rows
<1>6. CASE s # r
  BY <1>1, <1>2, <1>3, <1>6
<1> QED
  BY <1>5, <1>6

LEMMA RolledBackRows ==
    ASSUME Typed, NEW active \in Releases, NEW previous \in Releases, active # previous,
           NEW old, old # "ACTIVE", NEW s \in Releases
    PROVE  /\ RolledBack(active, previous, old)[s].status =
                 IF s = previous THEN "ACTIVE" ELSE IF s = active THEN "ROLLED_BACK"
                 ELSE row[s].status
           /\ RolledBack(active, previous, old)[s].previous = row[s].previous
<1> DEFINE demoted == Demoted(active, "ROLLED_BACK")
           new     == Written(old, "ACTIVE", demoted[previous].status)
<1>1. demoted \in [Releases -> Rows]
  BY DEF Demoted, Typed, Rows, Statuses
<1>2. /\ demoted[s].previous = row[s].previous
      /\ demoted[s].status = IF s = active THEN "ROLLED_BACK" ELSE row[s].status
  BY DEF Demoted, Typed, Rows
<1>3. RolledBack(active, previous, old) =
        [demoted EXCEPT ![previous] = [demoted[previous] EXCEPT !.status = new]]
  BY DEF RolledBack
<1>4. new = "ACTIVE"
  BY DEF Written
<1> HIDE DEF demoted, new
<1>5. CASE s = previous
  <2>1. RolledBack(active, previous, old)[s] = [demoted[s] EXCEPT !.status = new]
    BY <1>1, <1>3, <1>5
  <2>2. demoted[s] \in Rows
    BY <1>1
  <2> QED
    BY <1>2, <1>4, <1>5, <2>1, <2>2 DEF Rows
<1>6. CASE s # previous
  BY <1>1, <1>2, <1>3, <1>6
<1> QED
  BY <1>5, <1>6

-----------------------------------------------------------------------------
(* The three things a step can do to the releases in service.              *)

\* Nothing: at most, a release is registered.
Quiet ==
    /\ audit' = audit
    /\ \A r \in Releases :
          /\ row'[r].previous = row[r].previous
          /\ \/ row'[r].status = row[r].status
             \/ row[r].status = "ABSENT" /\ row'[r].status = "CANDIDATE"

\* Put r above `active`.
Pushes(r, active) ==
    /\ row[r].status = "CANDIDATE"
    /\ \A x \in Releases : row[x].status = "ACTIVE" <=> x = active
    /\ audit' = Append(audit, ActivatedEvent(r))
    /\ \A x \in Releases :
          /\ row'[x].status = IF x = r THEN "ACTIVE"
                              ELSE IF x = active THEN "SUPERSEDED" ELSE row[x].status
          /\ row'[x].previous = IF x = r THEN active ELSE row[x].previous

\* Revert from `active` to `previous`, the one below it.
Pops(active, previous, k) ==
    /\ row[active].status = "ACTIVE"
    /\ row[active].previous = previous
    /\ IdempotencyKeyFree(k)
    /\ audit' = Append(audit, RolledBackEvent(previous, active, k))
    /\ \A x \in Releases :
          /\ row'[x].status = IF x = previous THEN "ACTIVE"
                              ELSE IF x = active THEN "ROLLED_BACK" ELSE row[x].status
          /\ row'[x].previous = row[x].previous

LEMMA QuietStack ==
    ASSUME Quiet, NEW s, IsStack(s)
    PROVE  IsStack(s)'
<1>1. \A i \in 1..Len(s) : s[i] \in Releases
  BY DEF IsStack
<1>2. \A r \in Releases : /\ row'[r].status = "ACTIVE" <=> row[r].status = "ACTIVE"
                          /\ row'[r].status = "SUPERSEDED" <=> row[r].status = "SUPERSEDED"
                          /\ row'[r].previous = row[r].previous
  BY DEF Quiet
<1> QED
  BY <1>1, <1>2 DEF IsStack

\* The stack with r on top.
LEMMA PushStack ==
    ASSUME Untouched, NEW s, IsStack(s), NEW r \in Releases, NEW active \in Releases \cup {None},
           Pushes(r, active), NEW t, t = Append(s, r)
    PROVE  IsStack(t)'
<1>1. /\ s \in Seq(Releases) /\ Len(s) \in Nat
      /\ t \in Seq(Releases) /\ Len(t) = Len(s) + 1 /\ t[Len(s) + 1] = r
      /\ \A i \in 1..Len(s) : t[i] = s[i] /\ s[i] \in Releases
  BY DEF IsStack
<1>2. \A i \in 1..Len(s) : s[i] # r
  <2> SUFFICES ASSUME NEW i \in 1..Len(s), s[i] = r PROVE FALSE
    OBVIOUS
  <2>1. row[r].status \in {"ACTIVE", "SUPERSEDED"}
    <3>1. i = Len(s) => s # <<>>
      BY <1>1
    <3> QED
      BY <3>1 DEF IsStack
  <2> QED
    BY <2>1 DEF Pushes
<1>3. ASSUME NEW i \in 1..Len(t), NEW j \in 1..Len(t), t[i] = t[j]
      PROVE  i = j
  <2>1. (i \in 1..Len(s) \/ i = Len(s) + 1) /\ (j \in 1..Len(s) \/ j = Len(s) + 1)
    BY <1>1
  <2> QED
    BY <1>1, <1>2, <1>3, <2>1 DEF IsStack
<1>4. \A x \in Releases : row'[x].status = "ACTIVE" <=> x = r
  BY DEF Pushes
<1>5. IF s = <<>> THEN active \notin Releases ELSE active = s[Len(s)]
  <2>1. s # <<>> => Len(s) \in 1..Len(s)
    BY <1>1
  <2> QED
    BY <1>1, <2>1 DEF IsStack, Pushes
<1>6. ASSUME NEW x \in Releases
      PROVE  row'[x].status = "SUPERSEDED" <=> \E i \in 1..Len(t) : i # Len(t) /\ x = t[i]
  <2>1. row'[x].status = "SUPERSEDED" <=> x # r /\ (x = active \/ row[x].status = "SUPERSEDED")
    BY DEF Pushes
  <2>2. (x = active \/ row[x].status = "SUPERSEDED") <=> \E i \in 1..Len(s) : x = s[i]
    <3>1. row[x].status = "SUPERSEDED" <=> \E i \in 1..Len(s) : i # Len(s) /\ x = s[i]
      BY DEF IsStack
    <3>2. x = active <=> s # <<>> /\ x = s[Len(s)]
      BY <1>5
    <3>3. s # <<>> <=> Len(s) \in 1..Len(s)
      BY <1>1
    <3> QED
      BY <3>1, <3>2, <3>3
  <2>3. (\E i \in 1..Len(t) : i # Len(t) /\ x = t[i]) <=> \E i \in 1..Len(s) : x = s[i]
    BY <1>1
  <2> QED
    BY <1>2, <2>1, <2>2, <2>3
<1>7. ASSUME NEW i \in 1..Len(t)
      PROVE  row'[t[i]].previous = IF i = 1 THEN None ELSE t[i - 1]
  <2>1. CASE i = Len(s) + 1
    <3>1. row'[t[i]].previous = active
      BY <1>1, <2>1 DEF Pushes
    <3>2. CASE s = <<>>
      BY <1>1, <1>5, <2>1, <3>1, <3>2
    <3>3. CASE s # <<>>
      <4>1. i # 1 /\ i - 1 = Len(s) /\ Len(s) \in 1..Len(s)
        BY <1>1, <2>1, <3>3
      <4> QED
        BY <1>1, <1>5, <3>1, <3>3, <4>1
    <3> QED
      BY <3>2, <3>3
  <2>2. CASE i \in 1..Len(s)
    <3>1. row'[t[i]].previous = row[s[i]].previous
      BY <1>1, <1>2, <2>2 DEF Pushes
    <3>2. row[s[i]].previous = IF i = 1 THEN None ELSE s[i - 1]
      BY <2>2 DEF IsStack
    <3>3. i # 1 => i - 1 \in 1..Len(s)
      BY <1>1, <2>2
    <3> QED
      BY <1>1, <3>1, <3>2, <3>3
  <2> QED
    BY <1>1, <2>1, <2>2
<1>8. t # <<>> /\ t[Len(t)] = r
  BY <1>1
<1> QED
  BY <1>1, <1>3, <1>4, <1>6, <1>7, <1>8 DEF IsStack

\* What the ACTIVE row names is the one below it, SUPERSEDED.
LEMMA Below ==
    ASSUME NEW s, IsStack(s), NEW active \in Releases, NEW previous \in Releases,
           row[active].status = "ACTIVE", row[active].previous = previous
    PROVE  /\ Len(s) > 1 /\ active = s[Len(s)] /\ previous = s[Len(s) - 1]
           /\ Len(s) \in 1..Len(s) /\ Len(s) - 1 \in 1..Len(s)
           /\ row[previous].status = "SUPERSEDED" /\ active # previous
           /\ \A x \in Releases : row[x].status = "ACTIVE" <=> x = active
<1>1. s \in Seq(Releases) /\ Len(s) \in Nat
  BY DEF IsStack
<1>2. s # <<>> /\ active = s[Len(s)]
  BY DEF IsStack
<1>3. Len(s) \in 1..Len(s)
  BY <1>1, <1>2
<1>4. Len(s) > 1 /\ previous = s[Len(s) - 1] /\ Len(s) - 1 \in 1..Len(s)
  <2>1. row[s[Len(s)]].previous = IF Len(s) = 1 THEN None ELSE s[Len(s) - 1]
    BY <1>3 DEF IsStack
  <2>2. Len(s) # 1
    BY <1>2, <2>1, ConstantsAssumption DEF ConstantsAssumption
  <2>3. \A n \in Nat : n \in 1..n /\ n # 1 => n > 1 /\ n - 1 \in 1..n
    OBVIOUS
  <2>4. Len(s) > 1 /\ Len(s) - 1 \in 1..Len(s)
    BY <1>1, <1>3, <2>2, <2>3
  <2> QED
    BY <1>2, <2>1, <2>2, <2>4
<1>5. Len(s) - 1 # Len(s)
  BY <1>1
<1>6. row[previous].status = "SUPERSEDED" /\ active # previous
  BY <1>2, <1>3, <1>4, <1>5 DEF IsStack
<1> QED
  BY <1>2, <1>3, <1>4, <1>6 DEF IsStack

\* The stack without its top, which was not its bottom.
LEMMA PopStack ==
    ASSUME NEW s, IsStack(s), NEW active \in Releases, NEW previous \in Releases, NEW k,
           Pops(active, previous, k), NEW t, t = SubSeq(s, 1, Len(s) - 1)
    PROVE  IsStack(t)'
<1>1. s \in Seq(Releases) /\ Len(s) \in Nat /\ \A i \in 1..Len(s) : s[i] \in Releases
  BY DEF IsStack
<1>2. /\ Len(s) > 1 /\ active = s[Len(s)] /\ previous = s[Len(s) - 1]
      /\ Len(s) \in 1..Len(s) /\ Len(s) - 1 \in 1..Len(s)
      /\ row[previous].status = "SUPERSEDED" /\ active # previous
      /\ \A x \in Releases : row[x].status = "ACTIVE" <=> x = active
  BY Below DEF Pops
<1> PICK n : n = Len(s) - 1
  OBVIOUS
<1>3. /\ t \in Seq(Releases) /\ Len(t) = Len(s) - 1 /\ t # <<>>
      /\ \A i \in 1..Len(t) : t[i] = s[i] /\ i \in 1..Len(s) /\ i # Len(s)
  <2>1. n \in Nat /\ n <= Len(s) /\ n > 0
    BY <1>1, <1>2
  <2>2. t = SubSeq(s, 1, n)
    OBVIOUS
  <2>3. t \in Seq(Releases) /\ Len(t) = n /\ \A i \in 1..n : t[i] = s[i]
    BY <1>1, <2>1, <2>2
  <2>4. t # <<>>
    <3>1. Len(<<>>) = 0 /\ n # 0
      BY <2>1
    <3> QED
      BY <2>3, <3>1
  <2>5. \A i \in 1..n : i \in 1..Len(s) /\ i # Len(s)
    BY <1>1, <2>1
  <2> QED
    BY <2>3, <2>4, <2>5
<1>4. \A i \in 1..Len(s) : s[i] = previous <=> i = Len(s) - 1
  BY <1>2 DEF IsStack
<1>5. \A x \in Releases : row'[x].status = "ACTIVE" <=> x = previous
  BY <1>2 DEF Pops
<1>6. t[Len(t)] = previous
  <2>1. Len(t) \in 1..Len(t)
    BY <1>2, <1>3
  <2> QED
    BY <1>2, <1>3, <2>1
<1>7. ASSUME NEW x \in Releases
      PROVE  row'[x].status = "SUPERSEDED" <=> \E i \in 1..Len(t) : i # Len(t) /\ x = t[i]
  <2>1. row'[x].status = "SUPERSEDED" <=> x # previous /\ row[x].status = "SUPERSEDED"
    BY <1>2 DEF Pops
  <2>2. row[x].status = "SUPERSEDED" <=> \E i \in 1..Len(t) : x = t[i]
    <3>1. row[x].status = "SUPERSEDED" <=> \E i \in 1..Len(s) : i # Len(s) /\ x = s[i]
      BY DEF IsStack
    <3>2. \A i \in 1..Len(s) : i # Len(s) => i \in 1..Len(t)
      BY <1>1, <1>3
    <3> QED
      BY <1>3, <3>1, <3>2
  <2>3. \A i \in 1..Len(t) : t[i] = previous <=> i = Len(t)
    BY <1>3, <1>4
  <2> QED
    BY <2>1, <2>2, <2>3
<1>8. ASSUME NEW i \in 1..Len(t)
      PROVE  row'[t[i]].previous = IF i = 1 THEN None ELSE t[i - 1]
  <2>1. row'[t[i]].previous = row[s[i]].previous
    BY <1>1, <1>3 DEF Pops
  <2>2. row[s[i]].previous = IF i = 1 THEN None ELSE s[i - 1]
    BY <1>3 DEF IsStack
  <2>3. i # 1 => i - 1 \in 1..Len(t)
    BY <1>3
  <2> QED
    BY <1>3, <2>1, <2>2, <2>3
<1>9. \A i, j \in 1..Len(t) : t[i] = t[j] => i = j
  BY <1>3 DEF IsStack
<1> QED
  BY <1>3, <1>5, <1>6, <1>7, <1>8, <1>9 DEF IsStack

-----------------------------------------------------------------------------
(* The audit trail keeps replaying.                                        *)

LEMMA QuietAudit ==
    ASSUME Quiet, AuditReplays, AuditStarts
    PROVE  AuditReplays' /\ AuditStarts'
<1>1. ActiveIn(row') = ActiveIn(row)
  BY DEF Quiet, ActiveIn
<1> QED
  BY <1>1 DEF Quiet, AuditReplays, AuditStarts

\* An event e is added that puts a release r in service; if it is a rollback,
\* it reverts from the ACTIVE release.
LEMMA MoreAudit ==
    ASSUME TypeOK, AuditReplays, AuditStarts, NEW e \in Events, audit' = Append(audit, e),
           ActiveIn(row') = {e.release},
           e.type = "ROLLED_BACK" => e.from \in ActiveIn(row)
    PROVE  AuditReplays' /\ AuditStarts'
<1>1. audit \in Seq(Events) /\ Len(audit) \in Nat
  BY DEF TypeOK, Typed
<1> PICK n \in Nat : n = Len(audit)
  BY <1>1
<1>2. /\ DOMAIN audit' = DOMAIN audit \cup {n + 1} /\ audit'[n + 1] = e
      /\ \A i \in DOMAIN audit : audit'[i] = audit[i]
  BY <1>1, AppendedEvent
<1>3. DOMAIN audit = 1..n /\ Len(audit') = n + 1 /\ audit' # <<>>
  BY <1>1
<1>4. ASSUME NEW i \in DOMAIN audit', audit'[i].type = "ROLLED_BACK"
      PROVE  i > 1 /\ audit'[i].from = audit'[i - 1].release
  <2>1. CASE i \in DOMAIN audit
    <3>1. i > 1 /\ audit[i].from = audit[i - 1].release
      BY <1>2, <1>4, <2>1 DEF AuditReplays
    <3>2. i - 1 \in DOMAIN audit
      BY <1>3, <2>1, <3>1
    <3> QED
      BY <1>2, <2>1, <3>1, <3>2
  <2>2. CASE i = n + 1
    <3>1. e.from \in ActiveIn(row)
      BY <1>2, <1>4, <2>2
    <3>2. audit # <<>>
      BY <3>1 DEF AuditStarts
    <3>3. e.from = audit[n].release
      BY <3>1, <3>2 DEF AuditReplays
    <3>4. n \in DOMAIN audit /\ i - 1 = n /\ i > 1
      BY <1>1, <1>3, <2>2, <3>2
    <3> QED
      BY <1>2, <2>2, <3>3, <3>4
  <2> QED
    BY <1>2, <2>1, <2>2
<1>5. ActiveIn(row') = {audit'[Len(audit')].release}
  BY <1>2, <1>3
<1> QED
  BY <1>3, <1>4, <1>5 DEF AuditReplays, AuditStarts

LEMMA PushAudit ==
    ASSUME TypeOK, AuditReplays, AuditStarts, NEW r \in Releases, NEW active, Pushes(r, active)
    PROVE  AuditReplays' /\ AuditStarts'
<1> PICK e : e = ActivatedEvent(r)
  OBVIOUS
<1>1. e \in Events /\ e.type = "ACTIVATED" /\ e.release = r
  BY DEF ActivatedEvent, Events
<1>2. ActiveIn(row') = {r}
  BY DEF Pushes, ActiveIn
<1>3. audit' = Append(audit, e)
  BY DEF Pushes
<1> QED
  BY <1>1, <1>2, <1>3, MoreAudit

LEMMA PopAudit ==
    ASSUME TypeOK, AuditReplays, AuditStarts, NEW active \in Releases, NEW previous \in Releases,
           NEW k \in Keys, Pops(active, previous, k),
           \A x \in Releases : row[x].status = "ACTIVE" => x = active
    PROVE  AuditReplays' /\ AuditStarts'
<1> PICK e : e = RolledBackEvent(previous, active, k)
  OBVIOUS
<1>1. e \in Events /\ e.release = previous /\ e.from = active
  BY DEF RolledBackEvent, Events
<1>2. ActiveIn(row') = {previous} /\ active \in ActiveIn(row)
  BY DEF Pops, ActiveIn
<1>3. audit' = Append(audit, e)
  BY DEF Pops
<1> QED
  BY <1>1, <1>2, <1>3, MoreAudit

-----------------------------------------------------------------------------
(* What the calls have read.                                               *)

LEMMA Proceeded ==
    ASSUME TypeOK, NEW c \in Callers, NEW m, Proceed(c, m)
    PROVE  call'[c] = m /\ \A d \in Callers \ {c} : call'[d] = call[d]
BY DEF TypeOK, Typed, Proceed

\* While nothing happens to the releases in service, it stays true.
LEMMA StillCurrent ==
    ASSUME TypeOK, Quiet, NEW d \in Callers, Current(call[d]), call'[d] = call[d]
    PROVE  Current(call[d])'
<1>1. WellFormed(call[d])
  BY DEF TypeOK, CallShape
<1>2. \A r \in Releases : /\ row[r].status = "CANDIDATE" => row'[r].status = "CANDIDATE"
                          /\ row'[r].status = "ACTIVE" <=> row[r].status = "ACTIVE"
                          /\ row'[r].previous = row[r].previous
  BY DEF Quiet
<1>3. \A k : IdempotencyKeyFree(k)' <=> IdempotencyKeyFree(k)
  BY DEF Quiet, IdempotencyKeyFree, RollbackEvents
<1>4. call[d].step \in {"rollbackRead", "rollbackLoad", "rollbackCommit"}
        => IdempotencyKeyFree(call[d].key)'
  BY <1>3 DEF Current, IdempotencyKeyFree, RollbackEvents
<1> QED
  BY <1>1, <1>2, <1>4 DEF Current, WellFormed

LEMMA QuietCall ==
    ASSUME TypeOK, AllCurrent, Quiet, NEW c \in Callers, NEW m, Proceed(c, m), Current(m)'
    PROVE  AllCurrent'
<1> SUFFICES ASSUME NEW d \in Callers PROVE Current(call[d])'
  BY DEF AllCurrent
<1>1. CASE d = c
  BY <1>1, Proceeded DEF Current, IdempotencyKeyFree, RollbackEvents
<1>2. CASE d # c
  BY <1>2, Proceeded, StillCurrent DEF AllCurrent
<1> QED
  BY <1>1, <1>2

Harmless == {"ok", "refused", "noActive", "noPrevious"}

LEMMA QuietReply ==
    ASSUME TypeOK, AllCurrent, Quiet, NEW c \in Callers, NEW o \in Harmless, Reply(c, o)
    PROVE  AllCurrent'
<1> PICK m : m = [call[c] EXCEPT !.step = "returned", !.outcome = o]
  OBVIOUS
<1>1. m.step = "returned" /\ m.outcome = o
  BY DEF TypeOK, Typed, Calls
<1>2. Proceed(c, m) /\ Current(m)'
  BY <1>1 DEF Reply, Current, Harmless
<1> QED
  BY <1>2, QuietCall

LEMMA QuietReplyAtOnce ==
    ASSUME TypeOK, AllCurrent, Quiet, NEW c \in Callers, NEW r, NEW k, NEW o \in Harmless,
           ReplyAtOnce(c, r, k, o)
    PROVE  AllCurrent'
<1> PICK m : m = [Idle EXCEPT !.step = "returned", !.release = r, !.key = k, !.outcome = o]
  OBVIOUS
<1>1. m.step = "returned" /\ m.outcome = o
  BY DEF Idle
<1>2. Proceed(c, m) /\ Current(m)'
  BY <1>1 DEF ReplyAtOnce, Current, Harmless
<1> QED
  BY <1>2, QuietCall

\* The call that has switched the release in service is alone to have read it.
LEMMA SwitchCall ==
    ASSUME TypeOK, AllCurrent, OneAtATime, NEW c \in Callers, Switching(c),
           call[c].step # "returned",
           Proceed(c, [call[c] EXCEPT !.step = "sync"]),
           row'[call[c].release].status = "ACTIVE"
    PROVE  AllCurrent'
<1> PICK m : m = [call[c] EXCEPT !.step = "sync"]
  OBVIOUS
<1>1. m.step = "sync" /\ m.release = call[c].release /\ m.outcome = "pending"
  BY DEF TypeOK, Typed, Calls, CallShape, WellFormed
<1>2. call'[c] = m /\ \A d \in Callers \ {c} : call'[d] = call[d]
  BY Proceeded
<1> SUFFICES ASSUME NEW d \in Callers PROVE Current(call[d])'
  BY DEF AllCurrent
<1>3. CASE d = c
  BY <1>1, <1>2, <1>3 DEF Current
<1>4. CASE d # c
  <2>1. ~Switching(d)
    BY <1>4 DEF OneAtATime
  <2>2. Current(call[d])
    BY DEF AllCurrent
  <2> QED
    BY <1>2, <1>4, <2>1, <2>2 DEF Current, Switching
<1> QED
  BY <1>3, <1>4

-----------------------------------------------------------------------------
(* What each action does to the releases in service and to its call.       *)

\* A step is one of the three, and the calls it leaves under way are current.
Switches ==
    \/ Quiet
    \/ \E r \in Releases, active \in Releases \cup {None} : Pushes(r, active)
    \/ \E active, previous \in Releases, k \in Keys : Pops(active, previous, k)

LEMMA RegisterSerial ==
    ASSUME SerialInv, NEW r \in Releases, RegisterCandidate(r)
    PROVE  Quiet /\ AllCurrent'
<1>1. Quiet
  BY DEF SerialInv, TypeOK, Typed, Rows, RegisterCandidate, Quiet
<1>2. call' = call
  BY DEF RegisterCandidate
<1> QED
  BY <1>1, <1>2, StillCurrent DEF SerialInv, AllCurrent

LEMMA GateSerial ==
    ASSUME SerialInv, NEW c \in Callers,
           \/ \E r \in Releases : GateStart(c, r)
           \/ \E verdict \in {"passed", "failed"} : GateRecord(c, verdict)
    PROVE  Quiet /\ AllCurrent'
<1>1. ASSUME NEW r \in Releases, GateStart(c, r)
      PROVE  Quiet /\ AllCurrent'
  <2> PICK m : m = [Idle EXCEPT !.step = "gate", !.release = r, !.old = row[r].gate]
    OBVIOUS
  <2>1. m.step = "gate" /\ m.outcome = "pending" /\ Proceed(c, m)
    BY <1>1 DEF GateStart, Idle
  <2>2. Quiet
    BY <1>1 DEF GateStart, Quiet
  <2>3. Current(m)'
    BY <2>1 DEF Current
  <2> QED
    BY <2>1, <2>2, <2>3, QuietCall DEF SerialInv
<1>2. ASSUME NEW v \in {"passed", "failed"}, GateRecord(c, v)
      PROVE  Quiet /\ AllCurrent'
  <2>1. Quiet
    BY <1>2 DEF SerialInv, TypeOK, Typed, Rows, GateRecord, Quiet
  <2>2. Reply(c, "ok") /\ "ok" \in Harmless
    BY <1>2 DEF GateRecord, Harmless
  <2> QED
    BY <2>1, <2>2, QuietReply DEF SerialInv
<1> QED
  BY <1>1, <1>2

LEMMA ApproveSerial ==
    ASSUME SerialInv, NEW c \in Callers,
           ApproveRecord(c) \/ \E r \in Releases : ApproveCheck(c, r)
    PROVE  Quiet /\ AllCurrent'
<1>1. ASSUME NEW r \in Releases, ApproveCheck(c, r)
      PROVE  Quiet /\ AllCurrent'
  <2> PICK m : m = [Idle EXCEPT !.step = "approve", !.release = r]
    OBVIOUS
  <2>1. m.step = "approve" /\ m.outcome = "pending"
    BY DEF Idle
  <2>2. Quiet
    BY <1>1 DEF ApproveCheck, Quiet
  <2>3. Current(m)'
    BY <2>1 DEF Current
  <2>4. CASE Proceed(c, m)
    BY <2>2, <2>3, <2>4, QuietCall DEF SerialInv
  <2>5. CASE ReplyAtOnce(c, r, None, "refused")
    BY <2>2, <2>5, QuietReplyAtOnce DEF SerialInv, Harmless
  <2> QED
    BY <1>1, <2>2, <2>4, <2>5 DEF ApproveCheck
<1>2. CASE ApproveRecord(c)
  <2>1. Quiet
    BY <1>2 DEF SerialInv, TypeOK, Typed, Rows, ApproveRecord, Quiet
  <2>2. Reply(c, "ok") /\ "ok" \in Harmless
    BY <1>2 DEF ApproveRecord, Harmless
  <2> QED
    BY <2>1, <2>2, QuietReply DEF SerialInv
<1> QED
  BY <1>1, <1>2

LEMMA ActivateReadsSerial ==
    ASSUME SerialInv, NEW c \in Callers,
           ActivateRead(c) \/ \E r \in Releases : ActivateCheck(c, r)
    PROVE  Quiet /\ AllCurrent'
<1>1. ASSUME NEW r \in Releases, ActivateCheck(c, r)
      PROVE  Quiet /\ AllCurrent'
  <2> PICK m : m = [Idle EXCEPT !.step = "activateRead", !.release = r]
    OBVIOUS
  <2>1. m.step = "activateRead" /\ m.outcome = "pending" /\ m.release = r
    BY DEF Idle
  <2>2. Quiet /\ row' = row
    BY <1>1 DEF ActivateCheck, Quiet
  <2>3. CASE MayActivate(r) /\ Proceed(c, m)
    <3>1. row'[r].status = "CANDIDATE"
      BY <2>2, <2>3 DEF MayActivate
    <3>2. Current(m)'
      BY <2>1, <3>1 DEF Current
    <3> QED
      BY <2>2, <2>3, <3>2, QuietCall DEF SerialInv
  <2>4. CASE ReplyAtOnce(c, r, None, "refused")
    BY <2>2, <2>4, QuietReplyAtOnce DEF SerialInv, Harmless
  <2> QED
    BY <1>1, <2>2, <2>3, <2>4 DEF ActivateCheck
<1>2. CASE ActivateRead(c)
  <2> PICK active : active = GetActiveRow
    OBVIOUS
  <2> PICK m : m = [call[c] EXCEPT !.step = "activateCommit", !.active = active]
    OBVIOUS
  <2>1. /\ m.step = "activateCommit" /\ m.active = active
        /\ m.release = call[c].release /\ m.outcome = call[c].outcome
    BY DEF SerialInv, TypeOK, Typed, Calls
  <2>2. Quiet /\ row' = row /\ Proceed(c, m)
    BY <1>2 DEF ActivateRead, Quiet
  <2>3. Current(call[c]) /\ call[c].step = "activateRead"
    BY <1>2 DEF SerialInv, AllCurrent, ActivateRead, At
  <2>4. ASSUME NEW r \in Releases
        PROVE  row[r].status = "ACTIVE" <=> r = active
    <3>1. PICK s \in Seq(Releases) : IsStack(s)
      BY DEF SerialInv
    <3>2. \A x, y \in Releases : row[x].status = "ACTIVE" /\ row[y].status = "ACTIVE" => x = y
      BY <3>1 DEF IsStack
    <3>3. r \in ActiveIn(row) <=> row[r].status = "ACTIVE"
      BY DEF ActiveIn
    <3> QED
      BY <3>2, <3>3, GetActiveRowIsActive, ConstantsAssumption DEF ConstantsAssumption
  <2>5. Current(m)'
    BY <2>1, <2>2, <2>3, <2>4 DEF Current
  <2> QED
    BY <2>2, <2>5, QuietCall DEF SerialInv
<1> QED
  BY <1>1, <1>2

\* The commit of an activation goes through, and puts its release on top.
LEMMA ActivateCommitSerial ==
    ASSUME SerialInv, OneAtATime, NEW c \in Callers, ActivateCommit(c)
    PROVE  /\ AllCurrent'
           /\ \E r \in Releases, active \in Releases \cup {None} : Pushes(r, active)
<1>1. /\ call[c] \in Calls /\ WellFormed(call[c]) /\ Current(call[c])
      /\ call[c].step = "activateCommit"
  BY DEF SerialInv, TypeOK, Typed, CallShape, AllCurrent, ActivateCommit, At
<1> PICK r \in Releases : r = call[c].release
  BY <1>1 DEF WellFormed
<1> PICK active \in Releases \cup {None} : active = call[c].active
  BY <1>1 DEF Calls
<1>2. /\ row[r].status = "CANDIDATE"
      /\ \A x \in Releases : row[x].status = "ACTIVE" <=> x = active
  BY <1>1 DEF Current
<1>3. row[r].previous = None /\ active # r
  BY <1>2 DEF SerialInv, Untouched
<1> PICK db : db = Activated(r, active)
  OBVIOUS
<1>4. \A x \in Releases :
        /\ db[x].status = IF x = r THEN "ACTIVE"
                          ELSE IF x = active THEN "SUPERSEDED" ELSE row[x].status
        /\ db[x].previous = IF x = r THEN active ELSE row[x].previous
  BY <1>3, ActivatedRows DEF SerialInv, TypeOK
<1>5. \A x \in Releases : db[x].status = "ACTIVE" <=> x = r
  BY <1>2, <1>4
<1>6. SingleActiveIndex(db) /\ SingleActiveIndex(ActivationMidway(r, active))
  <2>1. SingleActiveIndex(db)
    BY <1>5 DEF SingleActiveIndex, ActiveIn
  <2>2. SingleActiveIndex(row) /\ row \in [Releases -> Rows]
    BY <1>2 DEF SingleActiveIndex, ActiveIn, SerialInv, TypeOK, Typed
  <2> QED
    BY <2>1, <2>2, DemotionAccepted DEF ActivationMidway
<1>7. /\ row' = db /\ audit' = Append(audit, ActivatedEvent(r))
      /\ Proceed(c, [call[c] EXCEPT !.step = "sync"])
  BY <1>6 DEF ActivateCommit
<1>8. Pushes(r, active)
  BY <1>2, <1>4, <1>7 DEF Pushes
<1>9. AllCurrent'
  <2>1. Switching(c)
    BY <1>1 DEF Switching
  <2>2. row'[call[c].release].status = "ACTIVE"
    BY <1>5, <1>7
  <2> QED
    BY <1>1, <1>7, <2>1, <2>2, SwitchCall DEF SerialInv
<1> QED
  BY <1>8, <1>9

LEMMA RollbackReadsSerial ==
    ASSUME SerialInv, NEW c \in Callers,
           RollbackRead(c) \/ RollbackLoad(c) \/ \E k \in Keys : RollbackFind(c, k)
    PROVE  Quiet /\ AllCurrent'
<1>0. /\ call[c] \in Calls /\ WellFormed(call[c]) /\ Current(call[c])
      /\ row \in [Releases -> Rows]
  BY DEF SerialInv, TypeOK, Typed, CallShape, AllCurrent
<1>1. ASSUME NEW k \in Keys, RollbackFind(c, k)
      PROVE  Quiet /\ AllCurrent'
  <2> PICK m : m = [Idle EXCEPT !.step = "rollbackRead", !.key = k]
    OBVIOUS
  <2>1. m.step = "rollbackRead" /\ m.outcome = "pending" /\ m.key = k
    BY DEF Idle
  <2>2. Quiet /\ audit' = audit
    BY <1>1 DEF RollbackFind, Quiet
  <2>3. CASE IdempotencyKeyFree(k) /\ Proceed(c, m)
    <3>1. Current(m)'
      BY <2>1, <2>2, <2>3 DEF Current, IdempotencyKeyFree, RollbackEvents
    <3> QED
      BY <2>2, <2>3, <3>1, QuietCall DEF SerialInv
  <2>4. CASE ReplyAtOnce(c, AnswerTo(k), k, "ok")
    <3> PICK r : r = AnswerTo(k)
      OBVIOUS
    <3> QED
      BY <2>2, <2>4, QuietReplyAtOnce DEF SerialInv, Harmless
  <2> QED
    BY <1>1, <2>2, <2>3, <2>4 DEF RollbackFind
<1>2. CASE RollbackRead(c)
  <2> PICK active : active = GetActiveRow
    OBVIOUS
  <2> PICK m : m = [call[c] EXCEPT !.step = "rollbackLoad", !.active = active,
                                   !.release = row[active].previous]
    OBVIOUS
  <2>1. /\ m.step = "rollbackLoad" /\ m.active = active /\ m.key = call[c].key
        /\ m.release = row[active].previous /\ m.outcome = call[c].outcome
    BY <1>0 DEF Calls
  <2>2. Quiet /\ row' = row /\ audit' = audit
    BY <1>2 DEF RollbackRead, Quiet
  <2>3. IdempotencyKeyFree(call[c].key)
    BY <1>0, <1>2 DEF RollbackRead, At, Current
  <2>4. CASE active # None /\ Proceed(c, m)
    <3>1. row[active].status = "ACTIVE"
      BY <2>4, GetActiveRowIsActive
    <3>2. Current(m)'
      BY <1>0, <2>1, <2>2, <2>3, <3>1 DEF Current, IdempotencyKeyFree, RollbackEvents
    <3> QED
      BY <2>2, <2>4, <3>2, QuietCall DEF SerialInv
  <2>5. CASE Reply(c, "noActive") \/ Reply(c, "noPrevious")
    BY <2>2, <2>5, QuietReply DEF SerialInv, Harmless
  <2> QED
    BY <1>2, <2>2, <2>4, <2>5 DEF RollbackRead
<1>3. CASE RollbackLoad(c)
  <2> PICK m : m = [call[c] EXCEPT !.step = "rollbackCommit", !.old = row[call[c].release].status]
    OBVIOUS
  <2>1. /\ m.step = "rollbackCommit" /\ m.active = call[c].active /\ m.key = call[c].key
        /\ m.release = call[c].release /\ m.outcome = call[c].outcome
        /\ m.old = row[call[c].release].status
    BY <1>0 DEF Calls
  <2>2. Quiet /\ row' = row /\ audit' = audit /\ Proceed(c, m)
    BY <1>3 DEF RollbackLoad, Quiet
  <2>3. /\ call[c].active \in Releases /\ call[c].release \in Releases
        /\ row[call[c].active].status = "ACTIVE"
        /\ row[call[c].active].previous = call[c].release
        /\ IdempotencyKeyFree(call[c].key)
    BY <1>0, <1>3 DEF RollbackLoad, At, Current, WellFormed
  <2>4. row[call[c].release].status = "SUPERSEDED"
    BY <2>3, Below DEF SerialInv
  <2>5. Current(m)'
    BY <1>0, <2>1, <2>2, <2>3, <2>4 DEF Current, IdempotencyKeyFree, RollbackEvents
  <2> QED
    BY <2>2, <2>5, QuietCall DEF SerialInv
<1> QED
  BY <1>1, <1>2, <1>3

\* The commit of a rollback goes through, and takes the top off.
LEMMA RollbackCommitSerial ==
    ASSUME SerialInv, OneAtATime, NEW c \in Callers, RollbackCommit(c)
    PROVE  /\ AllCurrent'
           /\ \E active, previous \in Releases, k \in Keys : Pops(active, previous, k)
<1>1. /\ call[c] \in Calls /\ WellFormed(call[c]) /\ Current(call[c])
      /\ call[c].step = "rollbackCommit"
  BY DEF SerialInv, TypeOK, Typed, CallShape, AllCurrent, RollbackCommit, At
<1> PICK previous \in Releases : previous = call[c].release
  BY <1>1 DEF WellFormed
<1> PICK active \in Releases : active = call[c].active
  BY <1>1 DEF WellFormed
<1> PICK k \in Keys : k = call[c].key
  BY <1>1 DEF WellFormed
<1>2. /\ row[active].status = "ACTIVE" /\ row[active].previous = previous
      /\ IdempotencyKeyFree(k) /\ call[c].old = "SUPERSEDED"
  BY <1>1 DEF Current
<1>3. /\ active # previous
      /\ \A x \in Releases : row[x].status = "ACTIVE" <=> x = active
  BY <1>2, Below DEF SerialInv
<1> PICK db : db = RolledBack(active, previous, "SUPERSEDED")
  OBVIOUS
<1>4. \A x \in Releases :
        /\ db[x].status = IF x = previous THEN "ACTIVE"
                          ELSE IF x = active THEN "ROLLED_BACK" ELSE row[x].status
        /\ db[x].previous = row[x].previous
  BY <1>3, RolledBackRows DEF SerialInv, TypeOK
<1>5. \A x \in Releases : db[x].status = "ACTIVE" <=> x = previous
  BY <1>3, <1>4
<1>6. SingleActiveIndex(db) /\ SingleActiveIndex(RollbackMidway(active, previous, "SUPERSEDED"))
  <2>1. SingleActiveIndex(db)
    BY <1>5 DEF SingleActiveIndex, ActiveIn
  <2>2. SingleActiveIndex(row) /\ row \in [Releases -> Rows]
    BY <1>3 DEF SingleActiveIndex, ActiveIn, SerialInv, TypeOK, Typed
  <2> QED
    BY <2>1, <2>2, DemotionAccepted DEF RollbackMidway
<1>7. /\ row' = db /\ audit' = Append(audit, RolledBackEvent(previous, active, k))
      /\ Proceed(c, [call[c] EXCEPT !.step = "sync"])
  BY <1>2, <1>6 DEF RollbackCommit
<1>8. Pops(active, previous, k)
  BY <1>2, <1>4, <1>7 DEF Pops
<1>9. AllCurrent'
  <2>1. Switching(c)
    BY <1>1 DEF Switching
  <2>2. row'[call[c].release].status = "ACTIVE"
    BY <1>5, <1>7
  <2> QED
    BY <1>1, <1>7, <2>1, <2>2, SwitchCall DEF SerialInv
<1> QED
  BY <1>8, <1>9

LEMMA CacheSerial ==
    ASSUME SerialInv,
           (\E c \in Callers : SyncCache(c)) \/ (\E p \in Processes : Restart(p))
    PROVE  Quiet /\ AllCurrent'
<1>1. ASSUME NEW c \in Callers, SyncCache(c)
      PROVE  Quiet /\ AllCurrent'
  <2>1. Quiet /\ Reply(c, "ok") /\ "ok" \in Harmless
    BY <1>1 DEF SyncCache, Quiet, Harmless
  <2> QED
    BY <2>1, QuietReply DEF SerialInv
<1>2. ASSUME NEW p \in Processes, Restart(p)
      PROVE  Quiet /\ AllCurrent'
  <2>1. Quiet
    BY <1>2 DEF Restart, Quiet
  <2>2. ASSUME NEW d \in Callers PROVE Current(call[d])'
    <3>1. CASE call'[d] = Idle
      BY <3>1 DEF Current, Idle
    <3>2. CASE call'[d] = call[d]
      BY <2>1, <3>2, StillCurrent DEF SerialInv, AllCurrent
    <3> QED
      BY <1>2, <3>1, <3>2 DEF Restart
  <2> QED
    BY <2>1, <2>2 DEF AllCurrent
<1> QED
  BY <1>1, <1>2

LEMMA SerialSteps ==
    ASSUME SerialInv, OneAtATime, [Next]_vars
    PROVE  Switches /\ AllCurrent'
<1>1. ASSUME NEW c \in Callers, RollbackReconcile(c)
      PROVE  FALSE
  BY <1>1 DEF SerialInv, AllCurrent, Current, RollbackReconcile, At
<1>2. CASE UNCHANGED vars
  <2>1. Quiet
    BY <1>2 DEF vars, Quiet
  <2> QED
    BY <1>2, <2>1, StillCurrent DEF vars, SerialInv, AllCurrent, Switches
<1> QED
  BY <1>1, <1>2, RegisterSerial, GateSerial, ApproveSerial, ActivateReadsSerial,
     ActivateCommitSerial, RollbackReadsSerial, RollbackCommitSerial, CacheSerial
     DEF Next, Switches

-----------------------------------------------------------------------------
(* The invariant, and the properties that follow from it.                  *)

LEMMA InitSerial == Init => SerialInv /\ OneAtATime
<1> SUFFICES ASSUME Init PROVE SerialInv /\ OneAtATime
  OBVIOUS
<1>1. /\ \A r \in Releases : row[r].status = "ABSENT" /\ row[r].previous = None
      /\ audit = <<>> /\ \A c \in Callers : call[c] = Idle
  BY DEF Init
<1>2. IsStack(<<>>) /\ <<>> \in Seq(Releases)
  <2>1. <<>> \in Seq(Releases) /\ Len(<<>>) = 0 /\ 1..Len(<<>>) = {}
    OBVIOUS
  <2> QED
    BY <1>1, <2>1 DEF IsStack
<1>3. ActiveIn(row) = {} /\ DOMAIN audit = {}
  BY <1>1 DEF ActiveIn
<1>4. AuditReplays /\ AuditStarts /\ Untouched
  BY <1>1, <1>3 DEF AuditReplays, AuditStarts, Untouched
<1>5. AllCurrent /\ OneAtATime
  BY <1>1 DEF AllCurrent, Current, Idle, OneAtATime, Switching
<1> QED
  BY <1>2, <1>4, <1>5, InitTypeOK DEF SerialInv

\* Whatever a step does, the releases in service stay a stack and the audit
\* trail tells of it.
LEMMA NextSerial ==
    ASSUME SerialInv, OneAtATime, [Next]_vars
    PROVE  SerialInv'
<1> DEFINE Rest == /\ Untouched'
                   /\ \E t \in Seq(Releases) : IsStack(t)'
                   /\ AuditReplays' /\ AuditStarts'
<1>0. TypeOK /\ Untouched /\ AuditReplays /\ AuditStarts
  BY DEF SerialInv
<1> PICK s \in Seq(Releases) : IsStack(s)
  BY DEF SerialInv
<1>1. ASSUME Quiet PROVE Rest
  <2>1. Untouched'
    BY <1>0, <1>1 DEF Quiet, Untouched
  <2>2. IsStack(s)'
    BY <1>1, QuietStack
  <2> QED
    BY <1>0, <1>1, <2>1, <2>2, QuietAudit
<1>2. ASSUME NEW r \in Releases, NEW active \in Releases \cup {None}, Pushes(r, active)
      PROVE  Rest
  <2>1. Untouched'
    BY <1>0, <1>2 DEF Pushes, Untouched
  <2> PICK t : t = Append(s, r)
    OBVIOUS
  <2>2. t \in Seq(Releases)
    OBVIOUS
  <2>3. IsStack(t)'
    BY <1>0, <1>2, PushStack
  <2> QED
    BY <1>0, <1>2, <2>1, <2>2, <2>3, PushAudit
<1>3. ASSUME NEW active \in Releases, NEW previous \in Releases, NEW k \in Keys,
             Pops(active, previous, k)
      PROVE  Rest
  <2>1. Untouched'
    BY <1>0, <1>3 DEF Pops, Untouched
  <2> PICK t : t = SubSeq(s, 1, Len(s) - 1)
    OBVIOUS
  <2>2. IsStack(t)'
    BY <1>3, PopStack
  <2>3. t \in Seq(Releases)
    BY <2>2 DEF IsStack
  <2>4. \A x \in Releases : row[x].status = "ACTIVE" => x = active
    BY <1>3, Below DEF Pops
  <2> QED
    BY <1>0, <1>3, <2>1, <2>2, <2>3, <2>4, PopAudit
<1>4. Rest /\ AllCurrent' /\ TypeOK'
  <2>1. Switches /\ AllCurrent'
    BY SerialSteps
  <2>2. Rest
    BY <1>1, <1>2, <1>3, <2>1 DEF Switches
  <2> QED
    BY <1>0, <2>1, <2>2, NextTypeOK
<1> QED
  BY <1>4 DEF SerialInv

THEOREM SerialInvariance == SerialSpec => [](SerialInv /\ OneAtATime)
<1>1. SerialInv /\ OneAtATime /\ [Next /\ OneAtATime']_vars => (SerialInv /\ OneAtATime)'
  <2> SUFFICES ASSUME SerialInv, OneAtATime, [Next /\ OneAtATime']_vars
               PROVE  SerialInv' /\ OneAtATime'
    OBVIOUS
  <2>1. [Next]_vars
    OBVIOUS
  <2>2. OneAtATime'
    BY DEF vars, OneAtATime, Switching
  <2> QED
    BY <2>1, <2>2, NextSerial
<1> QED
  BY <1>1, InitSerial, PTL DEF SerialSpec

\* As long as operators take turns the audit trail can be replayed, whatever
\* else happens in between: model_release.py:298-304 and 362-369.
THEOREM AuditTrailReplays == SerialSpec => []AuditReplays
<1>1. SerialInv => AuditReplays
  BY DEF SerialInv
<1> QED
  BY <1>1, SerialInvariance, PTL

\* Nobody is refused by a constraint of the database: each commit acts on the
\* rows as it read them, and the flush keeps its own two ACTIVE rows apart.
THEOREM NobodyIsRefused == SerialSpec => []NoSpuriousFailure
<1>1. SerialInv => NoSpuriousFailure
  BY DEF SerialInv, AllCurrent, Current, NoSpuriousFailure
<1> QED
  BY <1>1, SerialInvariance, PTL

-----------------------------------------------------------------------------
(* The cache of the one process.                                           *)

OneServer == \A p, q \in Processes : p = q

\* What a process should serve, without the order of GetActiveRow's query.
Serves(x) == x \in ActiveIn(row) \/ (x = Bootstrap /\ ActiveIn(row) = {})

CacheFollows ==
    \A p \in Processes :
        (\A c \in Callers : ProcessOf[c] = p => ~At(c, "sync")) => Serves(cache[p])

\* There is one thing to serve.
LEMMA ServesTheActiveRow ==
    ASSUME SerialInv, NEW x, Serves(x)
    PROVE  x = IF GetActiveRow = None THEN Bootstrap ELSE GetActiveRow
<1>1. \A r, s \in ActiveIn(row) : r = s
  BY DEF SerialInv, IsStack, ActiveIn
<1>2. GetActiveRow # None => GetActiveRow \in ActiveIn(row)
  BY GetActiveRowIsActive DEF ActiveIn
<1> QED
  BY <1>1, <1>2, GetActiveRowIsActive DEF Serves

LEMMA FollowsIsMirrors == SerialInv /\ CacheFollows => CacheMirrorsDatabase
BY ServesTheActiveRow DEF CacheFollows, CacheMirrorsDatabase

LEMMA InitFollows == Init => CacheFollows
BY DEF Init, CacheFollows, Serves, ActiveIn

\* A step of a call that neither switches the release nor synchronises.
LEMMA CallFollows ==
    ASSUME TypeOK, CacheFollows, ActiveIn(row') = ActiveIn(row), cache' = cache,
           NEW c \in Callers, call[c].step # "sync", NEW m, Proceed(c, m)
    PROVE  CacheFollows'
<1>1. \A d \in Callers : At(d, "sync") => At(d, "sync")'
  BY Proceeded DEF At
<1> QED
  BY <1>1 DEF CacheFollows, Serves

\* A step that changes no call.
LEMMA NoCallFollows ==
    ASSUME CacheFollows, ActiveIn(row') = ActiveIn(row), cache' = cache, call' = call
    PROVE  CacheFollows'
BY DEF CacheFollows, Serves, At

\* The process whose call has committed owes its cache an update.
LEMMA CommitFollows ==
    ASSUME OneServer, TypeOK, NEW c \in Callers, Proceed(c, [call[c] EXCEPT !.step = "sync"])
    PROVE  CacheFollows'
<1>1. call'[c].step = "sync"
  BY DEF TypeOK, Typed, Calls, Proceed
<1>2. \A p \in Processes : ProcessOf[c] = p
  BY ConstantsAssumption DEF OneServer, ConstantsAssumption
<1> QED
  BY <1>1, <1>2 DEF CacheFollows, At

LEMMA SyncFollows ==
    ASSUME OneServer, SerialInv, NEW c \in Callers, SyncCache(c)
    PROVE  CacheFollows'
<1>1. call[c].release \in Releases /\ row[call[c].release].status = "ACTIVE"
  BY DEF SerialInv, TypeOK, CallShape, WellFormed, AllCurrent, Current, SyncCache, At
<1>2. \A p \in Processes : cache'[p] = call[c].release
  BY ConstantsAssumption DEF OneServer, ConstantsAssumption, SyncCache, SerialInv, TypeOK, Typed
<1>3. row' = row
  BY DEF SyncCache
<1> QED
  BY <1>1, <1>2, <1>3 DEF CacheFollows, Serves, ActiveIn

LEMMA RestartFollows ==
    ASSUME OneServer, SerialInv, NEW p \in Processes, Restart(p)
    PROVE  CacheFollows'
<1>1. \A q \in Processes :
         cache'[q] = IF GetActiveRow = None THEN Bootstrap ELSE GetActiveRow
  BY DEF OneServer, Restart, SerialInv, TypeOK, Typed
<1>2. row' = row
  BY DEF Restart
<1> QED
  BY <1>1, <1>2, GetActiveRowIsActive DEF CacheFollows, Serves, ActiveIn

LEMMA NextFollows ==
    ASSUME OneServer, SerialInv, OneAtATime, CacheFollows, [Next]_vars
    PROVE  CacheFollows'
<1>0. TypeOK
  BY DEF SerialInv
<1>1. Quiet => ActiveIn(row') = ActiveIn(row)
  BY DEF Quiet, ActiveIn
<1>2. ASSUME NEW r \in Releases, RegisterCandidate(r) PROVE CacheFollows'
  BY <1>1, <1>2, RegisterSerial, NoCallFollows DEF RegisterCandidate
<1>3. ASSUME NEW c \in Callers,
             \/ \E r \in Releases : GateStart(c, r)
             \/ \E verdict \in {"passed", "failed"} : GateRecord(c, verdict)
      PROVE  CacheFollows'
  <2>1. Quiet
    BY <1>3, GateSerial
  <2>2. cache' = cache /\ call[c].step # "sync"
    BY <1>3 DEF GateStart, GateRecord, Free, At
  <2> QED
    BY <1>0, <1>1, <1>3, <2>1, <2>2, CallFollows DEF GateStart, GateRecord, Reply
<1>4. ASSUME NEW c \in Callers,
             ApproveRecord(c) \/ \E r \in Releases : ApproveCheck(c, r)
      PROVE  CacheFollows'
  <2>1. Quiet
    BY <1>4, ApproveSerial
  <2>2. cache' = cache /\ call[c].step # "sync"
    BY <1>4 DEF ApproveRecord, ApproveCheck, Free, At
  <2> QED
    BY <1>0, <1>1, <1>4, <2>1, <2>2, CallFollows
       DEF ApproveRecord, ApproveCheck, Reply, ReplyAtOnce
<1>5. ASSUME NEW c \in Callers,
             ActivateRead(c) \/ \E r \in Releases : ActivateCheck(c, r)
      PROVE  CacheFollows'
  <2>1. Quiet
    BY <1>5, ActivateReadsSerial
  <2>2. cache' = cache /\ call[c].step # "sync"
    BY <1>5 DEF ActivateRead, ActivateCheck, Free, At
  <2> QED
    BY <1>0, <1>1, <1>5, <2>1, <2>2, CallFollows DEF ActivateRead, ActivateCheck, ReplyAtOnce
<1>6. ASSUME NEW c \in Callers,
             RollbackRead(c) \/ RollbackLoad(c) \/ \E k \in Keys : RollbackFind(c, k)
      PROVE  CacheFollows'
  <2>1. Quiet
    BY <1>6, RollbackReadsSerial
  <2>2. cache' = cache /\ call[c].step # "sync"
    BY <1>6 DEF RollbackRead, RollbackLoad, RollbackFind, Free, At
  <2>3. \E m : Proceed(c, m)
    BY <1>6 DEF RollbackRead, RollbackLoad, RollbackFind, Reply, ReplyAtOnce
  <2> QED
    BY <1>0, <1>1, <2>1, <2>2, <2>3, CallFollows
<1>7. ASSUME NEW c \in Callers, ActivateCommit(c) PROVE CacheFollows'
  <2>1. AllCurrent'
    BY <1>7, ActivateCommitSerial
  <2>2. call'[c].outcome # "conflict"
    BY <2>1 DEF AllCurrent, Current
  <2>3. Reply(c, "conflict") => FALSE
    BY <1>0, <2>2 DEF Reply, Proceed, TypeOK, Typed, Calls
  <2> QED
    BY <1>0, <1>7, <2>3, CommitFollows DEF ActivateCommit
<1>8. ASSUME NEW c \in Callers, RollbackCommit(c) PROVE CacheFollows'
  <2>1. AllCurrent'
    BY <1>8, RollbackCommitSerial
  <2>2. call'[c].step # "rollbackReconcile"
    BY <2>1 DEF AllCurrent, Current
  <2>3. Proceed(c, [call[c] EXCEPT !.step = "rollbackReconcile"]) => FALSE
    BY <1>0, <2>2 DEF Proceed, TypeOK, Typed, Calls
  <2> QED
    BY <1>0, <1>8, <2>3, CommitFollows DEF RollbackCommit
<1>9. ASSUME NEW c \in Callers, RollbackReconcile(c)
      PROVE  FALSE
  BY <1>9 DEF SerialInv, AllCurrent, Current, RollbackReconcile, At
<1>10. CASE UNCHANGED vars
  BY <1>10, NoCallFollows DEF vars
<1> QED
  BY <1>2, <1>3, <1>4, <1>5, <1>6, <1>7, <1>8, <1>9, <1>10, SyncFollows, RestartFollows DEF Next

\* Where all callers share a process, as this deployment's do, what it serves
\* is what the database says once the last switch has synchronised, however
\* often the process restarts (_sync_cache, hydrate_active_cache_from_db).
THEOREM CacheIsTheActiveRow ==
    ASSUME OneServer
    PROVE  SerialSpec => []CacheMirrorsDatabase
<1>1. SerialInv /\ OneAtATime /\ CacheFollows /\ [Next /\ OneAtATime']_vars => CacheFollows'
  <2> SUFFICES ASSUME SerialInv, OneAtATime, CacheFollows, [Next /\ OneAtATime']_vars
               PROVE  CacheFollows'
    OBVIOUS
  <2>1. [Next]_vars
    OBVIOUS
  <2> QED
    BY <2>1, NextFollows
<1> QED
  BY <1>1, InitFollows, FollowsIsMirrors, SerialInvariance, PTL DEF SerialSpec

-----------------------------------------------------------------------------
(* Natural numbers: the library's induction theorems take an operator as a *)
(* parameter, so induction is stated here of a set of numbers.             *)

LEMMA LeastElement ==
    ASSUME NEW T, T \subseteq Nat, T # {}
    PROVE  \E m \in T : \A k \in T : m <= k
<1>1. PICK below : below = OpToRel(<, Nat)
  OBVIOUS
<1>2. \A j, k \in Nat : j < k => <<j, k>> \in below
  BY <1>1 DEF OpToRel
<1>3. IsWellFoundedOn(below, Nat)
  BY <1>1, NatLessThanWellFounded
<1>4. PICK m \in T : \A k \in T : ~ (<<k, m>> \in below)
  BY <1>3, WFMin
<1>5. ASSUME NEW k \in T
      PROVE  m <= k
  <2>1. k \in Nat /\ m \in Nat
    OBVIOUS
  <2>2. ~ (k < m)
    BY <1>2, <1>4, <2>1
  <2> QED
    BY <2>1, <2>2
<1> QED
  BY <1>5

LEMMA Induct ==
    ASSUME NEW S, 0 \in S, \A n \in Nat : n \in S => n + 1 \in S
    PROVE  Nat \subseteq S
<1> SUFFICES ASSUME Nat \ S # {} PROVE FALSE
  OBVIOUS
<1>1. PICK m \in Nat \ S : \A k \in Nat \ S : m <= k
  <2>1. Nat \ S \subseteq Nat
    OBVIOUS
  <2> QED
    BY <2>1, LeastElement
<1>2. m - 1 \in Nat /\ m - 1 \notin Nat \ S
  BY <1>1
<1>3. (m - 1) + 1 = m
  OBVIOUS
<1> QED
  BY <1>1, <1>2, <1>3

-----------------------------------------------------------------------------
(* The chain that hangs from the ACTIVE row is the stack, from the top.    *)

N == Cardinality(Releases)

\* Its releases are distinct, so it is no longer than there are releases.
LEMMA StackFits ==
    ASSUME NEW s, IsStack(s)
    PROVE  N \in Nat /\ Len(s) \in Nat /\ Len(s) <= N
<1>1. s \in Seq(Releases) /\ Len(s) \in Nat /\ DOMAIN s = 1..Len(s)
  BY DEF IsStack
<1>2. s \in [1..Len(s) -> Releases]
  BY <1>1
<1>3. s \in Injection(1..Len(s), Releases)
  BY <1>2 DEF IsStack, Injection, IsInjective
<1>4. Cardinality(1..Len(s)) <= N
  BY <1>3, FS_Injection, RefinementAssumption DEF RefinementAssumption, N
<1>5. Cardinality(1..Len(s)) = Len(s)
  <2>1. PICK n \in Nat : n = Len(s)
    BY <1>1
  <2>2. Cardinality(1..n) = n
    BY FS_Interval
  <2> QED
    BY <2>1, <2>2
<1>6. N \in Nat
  BY FS_CardinalityType, RefinementAssumption DEF RefinementAssumption, N
<1> QED
  BY <1>1, <1>4, <1>5, <1>6

Chain(s) == [i \in 0..N |-> IF i < Len(s) THEN s[Len(s) - i] ELSE None]

Above(up) ==
    [i \in 0..N |-> IF i = 0 THEN GetActiveRow
                    ELSE IF up[i - 1] = None THEN None ELSE row[up[i - 1]].previous]

LEMMA ChainIsAbove ==
    ASSUME NEW s, IsStack(s)
    PROVE  Chain(s) = Above(Chain(s))
<1>1. /\ N \in Nat /\ Len(s) \in Nat /\ Len(s) <= N
      /\ \A i \in 1..Len(s) : s[i] \in Releases /\ s[i] # None
  BY StackFits, ConstantsAssumption DEF IsStack, ConstantsAssumption
<1> PICK n \in Nat : n = Len(s)
  BY <1>1
<1> PICK g : g = Chain(s)
  OBVIOUS
<1>2. \A i \in 0..N : g[i] = IF i < n THEN s[n - i] ELSE None
  BY DEF Chain
<1>3. g[0] = GetActiveRow
  <2>1. CASE n = 0
    <3>1. s = <<>>
      <4>1. s \in Seq(Releases)
        BY DEF IsStack
      <4>2. Len(s) = 0
        BY <2>1
      <4> QED
        BY <4>1, <4>2
    <3>2. ActiveIn(row) = {}
      BY <3>1 DEF IsStack, ActiveIn
    <3> QED
      BY <1>1, <1>2, <2>1, <3>2 DEF GetActiveRow
  <2>2. CASE n > 0
    <3>1. n \in 1..n /\ s # <<>>
      BY <2>2
    <3>2. s[n] \in ActiveIn(row)
      BY <1>1, <3>1 DEF IsStack, ActiveIn
    <3>3. \A r \in ActiveIn(row) : r = s[n]
      BY DEF IsStack, ActiveIn
    <3>4. GetActiveRow = s[n]
      BY <3>2, <3>3, GetActiveRowIsActive DEF ActiveIn
    <3> QED
      BY <1>1, <1>2, <2>2, <3>4
  <2> QED
    BY <2>1, <2>2
<1>4. ASSUME NEW i \in 1..N
      PROVE  g[i] = IF g[i - 1] = None THEN None ELSE row[g[i - 1]].previous
  <2>1. i \in 0..N /\ i - 1 \in 0..N
    BY <1>1
  <2>2. CASE i - 1 < n
    <3>1. n - (i - 1) \in 1..n /\ n - (i - 1) - 1 = n - i
      BY <2>1, <2>2
    <3>2. g[i - 1] = s[n - (i - 1)] /\ g[i - 1] # None
      BY <1>1, <1>2, <2>1, <2>2, <3>1
    <3>3. row[g[i - 1]].previous = IF n - (i - 1) = 1 THEN None ELSE s[n - i]
      BY <3>1, <3>2 DEF IsStack
    <3>4. n - (i - 1) = 1 <=> ~(i < n)
      BY <2>1, <2>2
    <3> QED
      BY <1>2, <2>1, <3>2, <3>3, <3>4
  <2>3. CASE ~(i - 1 < n)
    <3>1. ~(i < n)
      BY <2>1, <2>3
    <3> QED
      BY <1>2, <2>1, <2>3, <3>1
  <2> QED
    BY <2>2, <2>3
<1>5. g = [i \in 0..N |-> g[i]]
  BY DEF Chain
<1>6. \A i \in 0..N : i # 0 => i \in 1..N
  BY <1>1
<1>7. \A i \in 0..N : g[i] = IF i = 0 THEN GetActiveRow
                      ELSE IF g[i - 1] = None THEN None ELSE row[g[i - 1]].previous
  BY <1>3, <1>4, <1>6
<1> QED
  BY <1>5, <1>7 DEF Above

\* The equation that defines Lineage has one solution.
LEMMA AboveIsUnique ==
    ASSUME N \in Nat, NEW f, NEW g, f = Above(f), g = Above(g)
    PROVE  f = g
<1> DEFINE S == {n \in Nat : n \in 0..N => f[n] = g[n]}
<1>1. 0 \in S
  BY DEF Above
<1>2. ASSUME NEW n \in Nat, n \in S
      PROVE  n + 1 \in S
  <2> SUFFICES ASSUME n + 1 \in 0..N PROVE f[n + 1] = g[n + 1]
    OBVIOUS
  <2>1. n \in 0..N /\ n + 1 # 0 /\ (n + 1) - 1 = n
    OBVIOUS
  <2>2. f[n] = g[n]
    BY <1>2, <2>1
  <2>3. ASSUME NEW h, h = Above(h)
        PROVE  h[n + 1] = IF h[n] = None THEN None ELSE row[h[n]].previous
    BY <2>1, <2>3 DEF Above
  <2> QED
    BY <2>2, <2>3
<1> HIDE DEF S
<1>3. Nat \subseteq S
  BY <1>1, <1>2, Induct
<1>4. \A n \in 0..N : f[n] = g[n]
  BY <1>3 DEF S
<1>5. f = [n \in 0..N |-> f[n]] /\ g = [n \in 0..N |-> g[n]]
  BY DEF Above
<1> QED
  BY <1>4, <1>5

LEMMA LineageIsChain ==
    ASSUME NEW s, IsStack(s)
    PROVE  Lineage = Chain(s)
<1>1. Lineage = CHOOSE up : up = Above(up)
  BY DEF Lineage, Above, N
<1>2. Chain(s) = Above(Chain(s)) /\ N \in Nat
  BY ChainIsAbove, StackFits
<1>3. Lineage = Above(Lineage)
  BY <1>1, <1>2
<1> QED
  BY <1>2, <1>3, AboveIsUnique

LEMMA StackIsRead ==
    ASSUME NEW s, IsStack(s)
    PROVE  Stack = s
<1>1. /\ N \in Nat /\ Len(s) \in Nat /\ Len(s) <= N
      /\ s \in Seq(Releases) /\ \A i \in 1..Len(s) : s[i] \in Releases /\ s[i] # None
  BY StackFits, ConstantsAssumption DEF IsStack, ConstantsAssumption
<1> PICK n \in Nat : n = Len(s)
  BY <1>1
<1> PICK up : up = Lineage
  OBVIOUS
<1>2. /\ DOMAIN up = 0..N
      /\ \A i \in 0..N : up[i] = IF i < n THEN s[n - i] ELSE None
  BY LineageIsChain DEF Chain
<1>3. \A i \in 0..N : i < n => n - i \in 1..n
  OBVIOUS
<1>4. {i \in DOMAIN up : up[i] # None} = 0..(n - 1)
  <2>1. \A i \in 0..N : up[i] # None <=> i < n
    BY <1>1, <1>2, <1>3
  <2> QED
    BY <1>1, <1>2, <2>1
<1>5. Depth = n
  <2>1. PICK m \in Int : m = n - 1
    OBVIOUS
  <2>2. Cardinality(0..m) = IF 0 > m THEN 0 ELSE m - 0 + 1
    BY FS_Interval
  <2>3. Cardinality(0..m) = n
    BY <2>1, <2>2
  <2> QED
    BY <1>4, <2>1, <2>3 DEF Depth
<1>6. Stack = [i \in 1..n |-> up[n - i]]
  BY <1>5 DEF Stack
<1>7. \A i \in 1..n : up[n - i] = s[i]
  <2>1. ASSUME NEW i \in 1..n
        PROVE  n - i \in 0..N /\ n - i < n /\ n - (n - i) = i
    BY <1>1
  <2> QED
    BY <1>2, <2>1
<1>8. s = [i \in 1..n |-> s[i]]
  BY <1>1
<1> QED
  BY <1>6, <1>7, <1>8

\* Every chain read upwards from the ACTIVE row ends, and passes exactly the
\* releases a rollback can still return to.
LEMMA StackIsSound ==
    ASSUME NEW s, IsStack(s)
    PROVE  LineageSound
<1>1. /\ N \in Nat /\ Len(s) \in Nat /\ Len(s) <= N
      /\ s \in Seq(Releases) /\ \A i \in 1..Len(s) : s[i] \in Releases /\ s[i] # None
  BY StackFits, ConstantsAssumption DEF IsStack, ConstantsAssumption
<1> PICK n \in Nat : n = Len(s)
  BY <1>1
<1> PICK up : up = Lineage
  OBVIOUS
<1>2. /\ DOMAIN up = 0..N
      /\ \A i \in 0..N : up[i] = IF i < n THEN s[n - i] ELSE None
  BY LineageIsChain DEF Chain
<1>3. up[N] = None
  BY <1>1, <1>2
<1>4. {r \in Releases : row[r].status = "SUPERSEDED"} = {s[i] : i \in 1..(n - 1)}
  <2>1. \A r \in Releases :
          row[r].status = "SUPERSEDED" <=> \E i \in 1..n : i # n /\ r = s[i]
    BY DEF IsStack
  <2>2. \A i : i \in 1..(n - 1) <=> i \in 1..n /\ i # n
    OBVIOUS
  <2> QED
    BY <1>1, <2>1, <2>2
<1>5. {up[i] : i \in DOMAIN up \ {0}} \ {None} = {s[i] : i \in 1..(n - 1)}
  <2>1. ASSUME NEW i \in DOMAIN up \ {0}, up[i] # None
        PROVE  up[i] \in {s[j] : j \in 1..(n - 1)}
    <3>1. i \in 0..N /\ i < n /\ up[i] = s[n - i]
      BY <1>2, <2>1
    <3>2. n - i \in 1..(n - 1)
      BY <2>1, <3>1
    <3> QED
      BY <3>1, <3>2
  <2>2. ASSUME NEW j \in 1..(n - 1)
        PROVE  s[j] \in {up[i] : i \in DOMAIN up \ {0}} \ {None}
    <3>1. n - j \in 0..N /\ n - j # 0 /\ n - j < n /\ n - (n - j) = j /\ j \in 1..n
      BY <1>1
    <3>2. up[n - j] = s[j] /\ n - j \in DOMAIN up \ {0}
      BY <1>2, <3>1
    <3>3. s[j] # None
      BY <1>1, <3>1
    <3> QED
      BY <3>2, <3>3
  <2> QED
    BY <2>1, <2>2
<1>6. Lineage[Cardinality(Releases)] = None
  BY <1>3 DEF N
<1>7. {r \in Releases : row[r].status = "SUPERSEDED"}
        = {Lineage[i] : i \in DOMAIN Lineage \ {0}} \ {None}
  BY <1>4, <1>5
<1> QED
  BY <1>6, <1>7 DEF LineageSound

\* However the calls of different operators follow each other, the chain of
\* previous_release_id never loses a release or runs in a circle.
THEOREM LineageIsSound == SerialSpec => []LineageSound
<1>1. SerialInv => LineageSound
  BY StackIsSound DEF SerialInv
<1> QED
  BY <1>1, SerialInvariance, PTL

-----------------------------------------------------------------------------
(* The refinement of ReleaseStack.                                         *)

\* What the mapping reads, in this state and in the next one.
StackReads == \A s \in Seq(Releases) : IsStack(s) => Stack = s

AnswerReads ==
    OneEventPerKey =>
        /\ Answer = [k \in Keys |-> Answer[k]]
        /\ \A k \in Keys :
              /\ RollbackEvents(k) = {} => Answer[k] = None
              /\ \A i \in RollbackEvents(k) : Answer[k] = audit[i].release

LEMMA StackReading == StackReads
BY StackIsRead DEF StackReads

LEMMA StackReadingNext == StackReads'
BY StackReading, PTL

LEMMA AnswerReading == AnswerReads
<1> SUFFICES ASSUME OneEventPerKey
             PROVE  /\ Answer = [k \in Keys |-> Answer[k]]
                    /\ \A k \in Keys :
                          /\ RollbackEvents(k) = {} => Answer[k] = None
                          /\ \A i \in RollbackEvents(k) : Answer[k] = audit[i].release
  BY DEF AnswerReads
<1>1. Answer = [k \in Keys |-> Answer[k]]
  BY DEF Answer
<1>2. ASSUME NEW k \in Keys, RollbackEvents(k) = {}
      PROVE  Answer[k] = None
  BY <1>2 DEF Answer, IdempotencyKeyFree
<1>3. ASSUME NEW k \in Keys, NEW i \in RollbackEvents(k)
      PROVE  Answer[k] = audit[i].release
  <2>1. ~IdempotencyKeyFree(k)
    BY <1>3 DEF IdempotencyKeyFree
  <2>2. PICK j \in RollbackEvents(k) : audit[j].release = AnswerTo(k)
    BY <2>1, AnswerToIsAnEvent
  <2>3. i = j
    BY <1>3, <2>2 DEF OneEventPerKey, RollbackEvents
  <2> QED
    BY <2>1, <2>2, <2>3 DEF Answer
<1> QED
  BY <1>1, <1>2, <1>3

LEMMA AnswerReadingNext == AnswerReads'
BY AnswerReading, PTL

\* An event that is no rollback leaves every answer as it was.
LEMMA SameAnswers ==
    ASSUME TypeOK, OneEventPerKey, OneEventPerKey',
           audit' = audit \/ \E r \in Releases : audit' = Append(audit, ActivatedEvent(r))
    PROVE  Answer' = Answer
<1>1. ASSUME NEW k \in Keys
      PROVE  /\ RollbackEvents(k)' = RollbackEvents(k)
             /\ \A i \in RollbackEvents(k) : audit'[i] = audit[i]
  <2>1. CASE audit' = audit
    BY <2>1 DEF RollbackEvents
  <2>2. ASSUME NEW r \in Releases, audit' = Append(audit, ActivatedEvent(r))
        PROVE  /\ RollbackEvents(k)' = RollbackEvents(k)
               /\ \A i \in RollbackEvents(k) : audit'[i] = audit[i]
    <3> PICK e : e = ActivatedEvent(r)
      OBVIOUS
    <3>1. e \in Events /\ e.type # "ROLLED_BACK"
      BY DEF ActivatedEvent, Events
    <3>2. audit \in Seq(Events) /\ audit' = Append(audit, e)
      BY <2>2 DEF TypeOK, Typed
    <3> QED
      BY <3>1, <3>2, AppendedEvent DEF RollbackEvents
  <2> QED
    BY <2>1, <2>2
<1>2. ASSUME NEW k \in Keys
      PROVE  Answer'[k] = Answer[k]
  <2>1. CASE RollbackEvents(k) = {}
    BY <1>1, <2>1, AnswerReading, AnswerReadingNext DEF AnswerReads
  <2>2. CASE RollbackEvents(k) # {}
    <3>1. PICK i : i \in RollbackEvents(k)
      BY <2>2
    <3>2. i \in RollbackEvents(k)' /\ audit'[i] = audit[i]
      BY <1>1, <3>1
    <3>3. Answer[k] = audit[i].release
      BY <3>1, AnswerReading DEF AnswerReads
    <3>4. Answer'[k] = audit'[i].release
      BY <3>2, AnswerReadingNext DEF AnswerReads
    <3> QED
      BY <3>2, <3>3, <3>4
  <2> QED
    BY <2>1, <2>2
<1>3. Answer = [k \in Keys |-> Answer[k]] /\ Answer' = [k \in Keys |-> Answer'[k]]
  BY AnswerReading, AnswerReadingNext DEF AnswerReads
<1> QED
  BY <1>2, <1>3

\* A rollback answers its key, which had no answer, and no other.
LEMMA OneMoreAnswer ==
    ASSUME TypeOK, OneEventPerKey, OneEventPerKey', NEW k \in Keys, IdempotencyKeyFree(k),
           NEW active \in Releases, NEW previous \in Releases,
           audit' = Append(audit, RolledBackEvent(previous, active, k))
    PROVE  Answer[k] = None /\ Answer' = [Answer EXCEPT ![k] = previous]
<1> PICK e : e = RolledBackEvent(previous, active, k)
  OBVIOUS
<1>1. /\ e \in Events /\ e.type = "ROLLED_BACK" /\ e.key = k /\ e.release = previous
      /\ audit \in Seq(Events) /\ audit' = Append(audit, e)
  BY DEF RolledBackEvent, Events, TypeOK, Typed
<1> PICK n : n = Len(audit) + 1
  OBVIOUS
<1>2. /\ DOMAIN audit' = DOMAIN audit \cup {n} /\ n \notin DOMAIN audit /\ audit'[n] = e
      /\ \A i \in DOMAIN audit : audit'[i] = audit[i]
  BY <1>1, AppendedEvent
<1>3. Answer[k] = None
  BY AnswerReading DEF AnswerReads, IdempotencyKeyFree
<1>4. Answer'[k] = previous
  <2>1. n \in RollbackEvents(k)'
    BY <1>1, <1>2 DEF RollbackEvents
  <2> QED
    BY <1>1, <1>2, <2>1, AnswerReadingNext DEF AnswerReads
<1>5. ASSUME NEW j \in Keys, j # k
      PROVE  Answer'[j] = Answer[j]
  <2>1. /\ RollbackEvents(j)' = RollbackEvents(j)
        /\ \A i \in RollbackEvents(j) : audit'[i] = audit[i]
    BY <1>1, <1>2, <1>5 DEF RollbackEvents
  <2>2. CASE RollbackEvents(j) = {}
    BY <2>1, <2>2, AnswerReading, AnswerReadingNext DEF AnswerReads
  <2>3. CASE RollbackEvents(j) # {}
    <3>1. PICK i : i \in RollbackEvents(j)
      BY <2>3
    <3>2. i \in RollbackEvents(j)' /\ audit'[i] = audit[i]
      BY <2>1, <3>1
    <3>3. Answer[j] = audit[i].release
      BY <3>1, AnswerReading DEF AnswerReads
    <3>4. Answer'[j] = audit'[i].release
      BY <3>2, AnswerReadingNext DEF AnswerReads
    <3> QED
      BY <3>2, <3>3, <3>4
  <2> QED
    BY <2>2, <2>3
<1>6. Answer = [j \in Keys |-> Answer[j]] /\ Answer' = [j \in Keys |-> Answer'[j]]
  BY AnswerReading, AnswerReadingNext DEF AnswerReads
<1> QED
  BY <1>3, <1>4, <1>5, <1>6

LEMMA InitRefines == Init => RS!Init
<1> SUFFICES ASSUME Init PROVE RS!Init
  OBVIOUS
<1>1. \A r \in Releases : row[r].status = "ABSENT"
  BY DEF Init
<1>2. <<>> \in Seq(Releases) /\ Len(<<>>) = 0 /\ 1..Len(<<>>) = {}
  OBVIOUS
<1>3. IsStack(<<>>)
  BY <1>1, <1>2 DEF IsStack
<1>4. Stack = <<>>
  BY <1>3, StackIsRead
<1>5. Retired = {}
  BY <1>1 DEF Retired
<1>6. \A k \in Keys : IdempotencyKeyFree(k)
  BY DEF Init, IdempotencyKeyFree, RollbackEvents
<1>7. Answer = [k \in Keys |-> None]
  BY <1>6 DEF Answer
<1> QED
  BY <1>4, <1>5, <1>7 DEF RS!Init

LEMMA QuietRefines ==
    ASSUME SerialInv, OneEventPerKey, OneEventPerKey', Quiet
    PROVE  UNCHANGED <<Stack, Retired, Answer>>
<1> PICK s \in Seq(Releases) : IsStack(s)
  BY DEF SerialInv
<1>1. Stack = s
  BY StackReading DEF StackReads
<1>2. Stack' = s
  BY QuietStack, StackReadingNext DEF StackReads
<1>3. Retired' = Retired
  BY DEF Quiet, Retired
<1>4. Answer' = Answer
  BY SameAnswers DEF Quiet, SerialInv
<1> QED
  BY <1>1, <1>2, <1>3, <1>4

\* An activation puts a release on the stack that was never in service.
LEMMA PushRefines ==
    ASSUME SerialInv, OneEventPerKey, OneEventPerKey', NEW r \in Releases,
           NEW active \in Releases \cup {None}, Pushes(r, active)
    PROVE  RS!Activate(r)
<1> PICK s \in Seq(Releases) : IsStack(s)
  BY DEF SerialInv
<1> PICK t : t = Append(s, r)
  OBVIOUS
<1>1. t \in Seq(Releases)
  OBVIOUS
<1>2. IsStack(t)'
  BY PushStack DEF SerialInv
<1>3. Stack = s /\ Stack' = t
  BY <1>1, <1>2, StackReading, StackReadingNext DEF StackReads
<1>4. r \notin RS!InUse
  <2>1. \A i \in 1..Len(s) : row[s[i]].status \in {"ACTIVE", "SUPERSEDED"}
    <3>1. ASSUME NEW i \in 1..Len(s)
          PROVE  s[i] \in Releases /\ (i = Len(s) => s # <<>>)
      OBVIOUS
    <3> QED
      BY <3>1 DEF IsStack
  <2>2. DOMAIN s = 1..Len(s)
    OBVIOUS
  <2> QED
    BY <1>3, <2>1, <2>2 DEF RS!InUse, Pushes
<1>5. r \notin Retired /\ Retired' = Retired
  BY DEF Pushes, Retired
<1>6. Answer' = Answer
  BY SameAnswers DEF Pushes, SerialInv
<1> QED
  BY <1>3, <1>4, <1>5, <1>6 DEF RS!Activate

\* A rollback takes the release in service off the stack for good, and its
\* key is answered with the one below.
LEMMA PopRefines ==
    ASSUME SerialInv, OneEventPerKey, OneEventPerKey', NEW active \in Releases,
           NEW previous \in Releases, NEW k \in Keys, Pops(active, previous, k)
    PROVE  RS!Rollback(k)
<1> PICK s \in Seq(Releases) : IsStack(s)
  BY DEF SerialInv
<1>1. /\ Len(s) > 1 /\ active = s[Len(s)] /\ previous = s[Len(s) - 1]
      /\ active # previous /\ row[previous].status = "SUPERSEDED"
  BY Below DEF Pops
<1> PICK t : t = SubSeq(s, 1, Len(s) - 1)
  OBVIOUS
<1>2. IsStack(t)'
  BY PopStack
<1>3. t \in Seq(Releases)
  BY <1>2 DEF IsStack
<1>4. Stack = s /\ Stack' = t
  BY <1>2, <1>3, StackReading, StackReadingNext DEF StackReads
<1>5. Retired' = Retired \cup {active}
  BY <1>1 DEF Pops, Retired
<1>6. Answer[k] = None /\ Answer' = [Answer EXCEPT ![k] = previous]
  BY OneMoreAnswer DEF Pops, SerialInv
<1> QED
  BY <1>1, <1>4, <1>5, <1>6 DEF RS!Rollback

LEMMA NextRefines ==
    ASSUME SerialInv, OneAtATime, OneEventPerKey, [Next]_vars
    PROVE  [RS!Next]_(RS!vars)
<1>1. OneEventPerKey'
  BY NextOneEventPerKey DEF SerialInv
<1>2. CASE Quiet
  BY <1>1, <1>2, QuietRefines DEF RS!vars
<1>3. ASSUME NEW r \in Releases, NEW active \in Releases \cup {None}, Pushes(r, active)
      PROVE  RS!Next
  BY <1>1, <1>3, PushRefines DEF RS!Next
<1>4. ASSUME NEW active \in Releases, NEW previous \in Releases, NEW k \in Keys,
             Pops(active, previous, k)
      PROVE  RS!Next
  BY <1>1, <1>4, PopRefines DEF RS!Next
<1> QED
  BY <1>2, <1>3, <1>4, SerialSteps DEF Switches

\* Turn-taking operators see a stack of releases, whatever rows, sessions and
\* restarts make of it: an activation pushes a fresh release, a rollback under
\* an unused key returns to the release below and never again to the one left.
THEOREM ImplementsReleaseStack == SerialSpec => RefinesReleaseStack
<1>1. SerialSpec => Spec
  <2>1. [Next /\ OneAtATime']_vars => [Next]_vars
    OBVIOUS
  <2> QED
    BY <2>1, PTL DEF SerialSpec, Spec
<1>2. RollbackIdempotent => OneEventPerKey
  BY DEF RollbackIdempotent
<1>3. SerialInv /\ OneAtATime /\ OneEventPerKey /\ [Next /\ OneAtATime']_vars
        => [RS!Next]_(RS!vars)
  <2> SUFFICES ASSUME SerialInv, OneAtATime, OneEventPerKey, [Next /\ OneAtATime']_vars
               PROVE  [RS!Next]_(RS!vars)
    OBVIOUS
  <2>1. [Next]_vars
    OBVIOUS
  <2> QED
    BY <2>1, NextRefines
<1> QED
  BY <1>1, <1>2, <1>3, InitRefines, SerialInvariance, IdempotentRollback, PTL
     DEF SerialSpec, RefinesReleaseStack, RS!Spec
=============================================================================
