-------------------------- MODULE CaseStoreProofs --------------------------
(***************************************************************************)
(* Theorems about CaseStore, for any number of requests, cases, sources,   *)
(* keys and runs: whatever overlaps, a stored case is one run and whole,   *)
(* its review is one decision and whole, and only cases that cite a common *)
(* source get in each other's way.                                         *)
(***************************************************************************)
EXTENDS CaseStore, FiniteSetTheorems, SequenceTheorems, TLAPS

-----------------------------------------------------------------------------
(* The inductive invariant.                                                *)

Steps == {"idle", "running", "saved", "deciding", "decided", "reading", "reading_steps"}

\* What a handler has read: reviews, and runs that rows are of.
Found == Review \cup {Nothing} \cup SUBSET Nat

RequestRec ==
    [step : Steps, case : Fixtures \cup {Unlisted, Nothing},
     who : Callers \cup {Stranger, Nothing}, key : Keys \cup {Nothing},
     table : Tables \cup {Nothing}, version : Nat \cup {Nothing},
     found : Seq(Found), answer : Nat \cup {Nothing}]

Stored(c) == cases[c] # Nothing

RowsOf(c) == {x \in rows : x.case = c}

\* The child rows of a case are what its last run wrote, and nothing else.
RowsInv ==
    \A c \in Fixtures : RowsOf(c) = IF Stored(c) THEN Written(c, cases[c].run) ELSE {}

\* What the rows of a case refer to is there.
Linked(c) ==
    /\ Stored(c) => /\ Cites[c] \subseteq snapshots /\ agents
                    /\ cases[c].run <= runs
                    /\ c \in NeedReview => reviews[c] # Nothing /\ reviews[c].run = cases[c].run
    /\ ~Stored(c) \/ c \notin NeedReview => reviews[c] = Nothing

\* A stored case other than c has evidence of a source c cites.
Blamed(c) == \E d \in Fixtures \ {c} : Stored(d) /\ Cites[d] \cap Cites[c] # {}

\* What the queries of a read have found up to now is whole, and no newer
\* than what is stored.
FoundUpTo(found, n) ==
    /\ found \in Seq(SUBSET Nat) /\ OneRunEach(found) /\ NeverOlder(found)
    /\ \A i \in 1 .. Len(found) : \A m \in found[i] : m <= n

\* What a handler holds agrees with the database, however old it is.
Fits(rec) ==
    /\ rec \in RequestRec
    /\ rec.step # "idle" => rec.case \in Fixtures
    /\ rec.step = "running" /\ rec.version # Nothing => Stored(rec.case)
    /\ rec.step \in {"saved", "reading", "reading_steps", "deciding", "decided"} => Stored(rec.case)
    /\ rec.step \in {"deciding", "decided"} => rec.case \in NeedReview /\ rec.table = Nothing
    /\ rec.step = "deciding" =>
          /\ rec.key \in Keys /\ Asks[rec.key].case = rec.case
          /\ Asks[rec.key].who = rec.who /\ rec.who \in Operators
          /\ rec.found[1].status = "PENDING"
    /\ rec.step \in {"running", "saved"} => rec.table = Nothing
    /\ rec.step \in {"reading", "reading_steps"} => rec.table \in Tables
    /\ rec.step = "reading_steps" => FoundUpTo(rec.found, cases[rec.case].run)
    /\ rec.step # "idle" => rec.answer = Nothing
    /\ rec.answer = 500 => rec.case \in Fixtures /\ Blamed(rec.case)
    /\ rec.table # Nothing /\ rec.answer = 200 =>
          OneRunEach(rec.found) /\ NeverOlder(rec.found)

DbInv ==
    /\ StoreTypeOK
    /\ RowsInv
    /\ \A c \in Fixtures : Linked(c)
    /\ DecisionWhole

StoreInv ==
    /\ DbInv
    /\ request \in [Requests -> RequestRec]
    /\ \A r \in Requests : Fits(request[r])

-----------------------------------------------------------------------------
(* Rows.                                                                   *)

LEMMA NothingIsNone ==
    /\ Nothing \notin Nat /\ Nothing \notin Fixtures /\ Nothing \notin Callers
    /\ Nothing \notin Keys /\ Nothing \notin Tables /\ Nothing \notin Review
BY StoreAssumption

LEMMA FoundLists ==
    ASSUME NEW S, NEW x \in S
    PROVE  <<x>> \in Seq(S)
OBVIOUS

LEMMA FoundKinds == Nothing \in Found /\ Review \subseteq Found /\ SUBSET Nat \subseteq Found
BY DEF Found

\* What a run writes: rows of its case, one table's after the other.
LEMMA WrittenRows ==
    ASSUME NEW c \in Fixtures, NEW n \in Nat
    PROVE  /\ Written(c, n) \subseteq Row
           /\ \A x \in Written(c, n) :
                 /\ x.case = c /\ x.run = n
                 /\ x.table # "evidence" => x.key = c
                 /\ x.table = "evidence" => x.key \in Cites[c]
           /\ \A t \in Tables : \E x \in Written(c, n) : x.table = t /\ (t # "evidence" => x.key = c)
           /\ \A s \in Cites[c] : \E x \in Written(c, n) : x.table = "evidence" /\ x.key = s
<1>1. Cites[c] \in SUBSET Sources /\ Cites[c] # {}
  BY StoreAssumption
<1>2. "evidence" \in Tables
  BY DEF Tables, CascadeTables
<1>3. Written(c, n) \subseteq Row
  BY <1>1, <1>2 DEF Written, Row
<1>4. \A x \in Written(c, n) :
         /\ x.case = c /\ x.run = n
         /\ x.table # "evidence" => x.key = c
         /\ x.table = "evidence" => x.key \in Cites[c]
  BY DEF Written
<1>5. \A s \in Cites[c] : \E x \in Written(c, n) : x.table = "evidence" /\ x.key = s
  <2> SUFFICES ASSUME NEW s \in Cites[c]
               PROVE  \E x \in Written(c, n) : x.table = "evidence" /\ x.key = s
    OBVIOUS
  <2> PICK x : x = [table |-> "evidence", key |-> s, case |-> c, run |-> n]
    OBVIOUS
  <2>1. x \in Written(c, n)
    BY DEF Written
  <2> QED  BY <2>1
<1>6. \A t \in Tables : \E x \in Written(c, n) : x.table = t /\ (t # "evidence" => x.key = c)
  <2> SUFFICES ASSUME NEW t \in Tables
               PROVE  \E x \in Written(c, n) : x.table = t /\ (t # "evidence" => x.key = c)
    OBVIOUS
  <2>1. CASE t = "evidence"
    BY <1>1, <1>5, <2>1
  <2>2. CASE t # "evidence"
    <3> PICK x : x = [table |-> t, key |-> c, case |-> c, run |-> n]
      OBVIOUS
    <3>1. x \in Written(c, n)
      BY <2>2 DEF Written
    <3> QED  BY <3>1
  <2> QED  BY <2>1, <2>2
<1> QED  BY <1>3, <1>4, <1>5, <1>6

\* Deleting the prior run of a case leaves none of its rows, the handoffs its
\* cascade does not reach included, and all of the other cases'.
LEMMA KeptRows ==
    ASSUME StoreTypeOK, RowsInv, NEW c \in Fixtures
    PROVE  /\ Kept(c) \subseteq rows
           /\ \A x \in Kept(c) : x.case # c
           /\ \A x \in rows : x.case # c => x \in Kept(c)
<1>1. Kept(c) \subseteq rows
  BY DEF Kept
<1>2. ASSUME NEW x \in rows, x.case = c, x \in Kept(c)
      PROVE  FALSE
  <2>1. x \in RowsOf(c)
    BY <1>2 DEF RowsOf
  <2>2. Stored(c) /\ RowsOf(c) = Written(c, cases[c].run)
    BY <2>1 DEF RowsInv
  <2> PICK n \in Nat : n = cases[c].run
    BY <2>2 DEF StoreTypeOK, Stored
  <2>3. x.table \in Tables /\ (x.table # "evidence" => x.key = c)
    BY <2>1, <2>2, WrittenRows DEF Row
  <2>4. x.table = "handoff"
    BY <1>2, <2>3 DEF Kept, Tables
  <2> PICK run \in Written(c, n) : run.table = "agent_run" /\ run.key = c
    <3>1. "agent_run" \in Tables
      BY DEF Tables, CascadeTables
    <3> QED  BY <3>1, WrittenRows
  <2>5. run \in rows /\ run.case = c
    BY <2>2, WrittenRows DEF RowsOf
  <2>6. x.key = run.key
    BY <2>3, <2>4
  <2> QED  BY <1>2, <2>4, <2>5, <2>6 DEF Kept
<1>3. ASSUME NEW x \in rows, x.case # c
      PROVE  x \in Kept(c)
  <2> PICK d \in Fixtures : d = x.case
    BY DEF StoreTypeOK, Row
  <2>1. x \in RowsOf(d)
    BY DEF RowsOf
  <2>2. Stored(d) /\ RowsOf(d) = Written(d, cases[d].run)
    BY <2>1 DEF RowsInv
  <2>3. cases[d].run \in Nat
    BY <2>2 DEF StoreTypeOK, Stored
  <2>4. x.table # "evidence" => x.key = d
    BY <2>1, <2>2, <2>3, WrittenRows
  <2>5. ASSUME NEW run \in rows, run.case = c, run.table = "agent_run"
        PROVE  run.key = c
    <3>1. run \in RowsOf(c)
      BY <2>5 DEF RowsOf
    <3>2. Stored(c) /\ RowsOf(c) = Written(c, cases[c].run)
      BY <3>1 DEF RowsInv
    <3>3. cases[c].run \in Nat
      BY <3>2 DEF StoreTypeOK, Stored
    <3> QED  BY <2>5, <3>1, <3>2, <3>3, WrittenRows
  <2> QED  BY <1>3, <2>4, <2>5 DEF Kept
<1> QED  BY <1>1, <1>2, <1>3

\* Every table of a stored case holds the rows of one run.
LEMMA OneRunIn ==
    ASSUME StoreTypeOK, RowsInv, NEW c \in Fixtures, Stored(c), NEW t \in Tables
    PROVE  RunsIn(t, c) = {cases[c].run} /\ RunsIn(t, c) \in SUBSET Nat
<1> PICK n \in Nat : n = cases[c].run
  BY DEF StoreTypeOK, Stored
<1>1. RowsOf(c) = Written(c, n)
  BY DEF RowsInv
<1>2. \A x \in rows : x.case = c => x.run = n
  BY <1>1, WrittenRows DEF RowsOf
<1>3. PICK x \in rows : x.case = c /\ x.table = t
  BY <1>1, WrittenRows DEF RowsOf
<1> QED  BY <1>2, <1>3 DEF RunsIn

LEMMA OneRunIsSingle ==
    ASSUME StoreTypeOK, RowsInv, NEW c \in Fixtures, Stored(c), NEW t \in Tables
    PROVE  Cardinality(RunsIn(t, c)) = 1
BY OneRunIn, FS_Singleton

\* A run that cannot be stored meets the evidence of another case.
LEMMA CollisionIsBlamed ==
    ASSUME DbInv, NEW c \in Fixtures, Collides(c)
    PROVE  Blamed(c)
<1> PICK n \in Nat : n = runs + 1
  BY DEF DbInv, StoreTypeOK
<1>1. PICK new \in Written(c, n), old \in Kept(c) : new.table = old.table /\ new.key = old.key
  BY DEF Collides
<1>2. old \in rows /\ old.case # c
  BY KeptRows DEF DbInv
<1> PICK d \in Fixtures : d = old.case
  BY <1>2 DEF DbInv, StoreTypeOK, Row
<1>3. old \in RowsOf(d)
  BY <1>2 DEF RowsOf
<1>4. Stored(d) /\ RowsOf(d) = Written(d, cases[d].run)
  BY <1>3 DEF DbInv, RowsInv
<1> PICK m \in Nat : m = cases[d].run
  BY <1>4 DEF DbInv, StoreTypeOK, Stored
<1>5. /\ old.table # "evidence" => old.key = d
      /\ old.table = "evidence" => old.key \in Cites[d]
  BY <1>3, <1>4, WrittenRows
<1>6. /\ new.table # "evidence" => new.key = c
      /\ new.table = "evidence" => new.key \in Cites[c]
  BY <1>1, WrittenRows
<1>7. old.key \in Cites[d] /\ old.key \in Cites[c]
  BY <1>1, <1>2, <1>5, <1>6
<1> QED  BY <1>2, <1>4, <1>7 DEF Blamed

-----------------------------------------------------------------------------
(* Steps that leave the database alone: all but two.                       *)

LEMMA StoreInitInv == StoreInit => StoreInv
<1> SUFFICES ASSUME StoreInit PROVE StoreInv
  OBVIOUS
<1> USE NothingIsNone
<1>1. StoreTypeOK
  BY DEF StoreInit, StoreTypeOK
<1>2. RowsInv
  BY DEF StoreInit, RowsInv, RowsOf, Stored
<1>3. \A c \in Fixtures : Linked(c)
  BY DEF StoreInit, Linked, Stored
<1>4. DecisionWhole
  BY DEF StoreInit, DecisionWhole
<1> PICK rec : rec = Idle
  OBVIOUS
<1>5. rec \in RequestRec
  BY DEF Idle, RequestRec, Steps
<1>6. Fits(rec)
  BY <1>5 DEF Fits, Idle
<1>7. request = [r \in Requests |-> rec]
  BY DEF StoreInit
<1> QED  BY <1>1, <1>2, <1>3, <1>4, <1>5, <1>6, <1>7 DEF StoreInv, DbInv

LEMMA DbKeeps ==
    ASSUME DbInv, UNCHANGED <<db, runs>>
    PROVE  DbInv'
<1> USE DEF db
<1>1. StoreTypeOK'
  BY DEF DbInv, StoreTypeOK
<1>2. RowsInv'
  BY DEF DbInv, RowsInv, RowsOf, Stored
<1>3. ASSUME NEW c \in Fixtures PROVE (Linked(c))'
  <2>1. Linked(c)
    BY DEF DbInv
  <2> QED  BY <2>1 DEF Linked, Stored
<1>4. DecisionWhole'
  BY DEF DbInv, DecisionWhole
<1> QED  BY <1>1, <1>2, <1>3, <1>4 DEF DbInv

\* No step removes a case or takes a run of it back, so what other handlers
\* hold stays as true as it was.
Grows ==
    \A c \in Fixtures : Stored(c) =>
        /\ (Stored(c))'
        /\ cases[c].run \in Nat /\ cases'[c].run \in Nat /\ cases[c].run <= cases'[c].run

LEMMA FoundStaysOld ==
    ASSUME NEW found, NEW n \in Nat, NEW m \in Nat, n <= m, FoundUpTo(found, n)
    PROVE  FoundUpTo(found, m)
<1>1. \A i \in 1 .. Len(found) : found[i] \in SUBSET Nat
  BY DEF FoundUpTo
<1> QED  BY <1>1 DEF FoundUpTo

LEMMA FitsLasts ==
    ASSUME Grows, NEW rec, Fits(rec)
    PROVE  (Fits(rec))'
<1>1. rec \in RequestRec
  BY DEF Fits
<1>2. rec.answer = 500 => rec.case \in Fixtures /\ (Blamed(rec.case))'
  <2> SUFFICES ASSUME rec.answer = 500
               PROVE  rec.case \in Fixtures /\ (Blamed(rec.case))'
    OBVIOUS
  <2>1. rec.case \in Fixtures
    BY DEF Fits
  <2>2. PICK d \in Fixtures \ {rec.case} : Stored(d) /\ Cites[d] \cap Cites[rec.case] # {}
    BY DEF Fits, Blamed
  <2>3. (Stored(d))'
    BY <2>2 DEF Grows
  <2> QED  BY <2>1, <2>2, <2>3 DEF Blamed
<1>3. /\ rec.step = "running" /\ rec.version # Nothing => (Stored(rec.case))'
      /\ rec.step = "reading_steps" => FoundUpTo(rec.found, cases'[rec.case].run)
  <2>1. rec.step = "running" /\ rec.version # Nothing => (Stored(rec.case))'
    BY DEF Fits, Grows
  <2>2. ASSUME rec.step = "reading_steps"
        PROVE  FoundUpTo(rec.found, cases'[rec.case].run)
    <3>1. rec.case \in Fixtures /\ Stored(rec.case) /\ FoundUpTo(rec.found, cases[rec.case].run)
      BY <2>2 DEF Fits
    <3> PICK n \in Nat, m \in Nat : n = cases[rec.case].run /\ m = cases'[rec.case].run /\ n <= m
      BY <3>1 DEF Grows
    <3> QED  BY <3>1, FoundStaysOld
  <2> QED  BY <2>1, <2>2
<1>4. rec.step \in {"saved", "reading", "reading_steps", "deciding", "decided"} =>
          (Stored(rec.case))'
  BY DEF Fits, Grows
<1> QED  BY <1>1, <1>2, <1>3, <1>4 DEF Fits

LEMMA SteadyGrows ==
    ASSUME DbInv, UNCHANGED <<db, runs>>
    PROVE  Grows
BY DEF DbInv, StoreTypeOK, Grows, Stored, db

\* One handler moves on; the others' records stay, and still fit.
LEMMA Moves ==
    ASSUME StoreInv, Grows, (DbInv)', NEW r \in Requests, NEW rec, (Fits(rec))',
           request' = [request EXCEPT ![r] = rec]
    PROVE  StoreInv'
<1>1. rec \in RequestRec
  BY DEF Fits
<1>2. request' \in [Requests -> RequestRec]
  BY <1>1 DEF StoreInv
<1>3. ASSUME NEW q \in Requests PROVE (Fits(request[q]))'
  <2> PICK old : old = request[q]
    OBVIOUS
  <2>1. (Fits(old))'
    BY FitsLasts DEF StoreInv
  <2>2. request'[q] = IF q = r THEN rec ELSE old
    BY DEF StoreInv
  <2> PICK new : new = request'[q]
    OBVIOUS
  <2>3. (Fits(new))'
    BY <2>1, <2>2
  <2> QED  BY <2>3 DEF Fits
<1> QED  BY <1>2, <1>3 DEF StoreInv

LEMMA MovesSteadily ==
    ASSUME StoreInv, UNCHANGED <<db, runs>>, NEW r \in Requests, NEW rec, Fits(rec),
           request' = [request EXCEPT ![r] = rec]
    PROVE  StoreInv'
<1>1. DbInv
  BY DEF StoreInv
<1>2. Grows
  BY <1>1, SteadyGrows
<1>3. (DbInv)'
  BY <1>1, DbKeeps
<1>4. (Fits(rec))'
  BY <1>2, FitsLasts
<1> QED  BY <1>2, <1>3, <1>4, Moves

\* A record after an answer, a move, or a read, and that of a new request.
Ended(old, code) == [old EXCEPT !.step = "idle", !.answer = code]

Moved(old, step) == [old EXCEPT !.step = step]

Reading(old, found) == [old EXCEPT !.found = found]

Fresh(c, who, k, t, found) ==
    [step |-> "idle", case |-> c, who |-> who, key |-> k, table |-> t,
     version |-> Nothing, found |-> found, answer |-> Nothing]

Versioned(old, version) == [old EXCEPT !.version = version]

\* A list of one item.
Lists(found, x) == found = <<x>>

LEMMA Answered ==
    ASSUME NEW old \in RequestRec, NEW code \in Nat, NEW rec, rec = Ended(old, code)
    PROVE  /\ rec \in RequestRec /\ rec.step = "idle" /\ rec.answer = code
           /\ rec.case = old.case /\ rec.table = old.table /\ rec.found = old.found
<1>1. "idle" \in Steps
  BY DEF Steps
<1> QED  BY <1>1 DEF RequestRec, Ended

LEMMA Gone ==
    ASSUME NEW old \in RequestRec, NEW step \in Steps, NEW rec, rec = Moved(old, step)
    PROVE  /\ rec \in RequestRec /\ rec.step = step
           /\ rec.case = old.case /\ rec.who = old.who /\ rec.key = old.key
           /\ rec.table = old.table /\ rec.version = old.version
           /\ rec.found = old.found /\ rec.answer = old.answer
BY DEF RequestRec, Moved

LEMMA Read ==
    ASSUME NEW old \in RequestRec, NEW found \in Seq(Found), NEW rec, rec = Reading(old, found)
    PROVE  /\ rec \in RequestRec /\ rec.step = old.step /\ rec.case = old.case
           /\ rec.table = old.table /\ rec.found = found /\ rec.answer = old.answer
BY DEF RequestRec, Reading

LEMMA NothingRead == <<>> \in Seq(Found)
OBVIOUS

LEMMA OneFound ==
    ASSUME NEW x \in Found
    PROVE  \E found \in Seq(Found) : Lists(found, x)
BY FoundLists DEF Lists

\* An answer that is neither a failure nor a read tells nothing of the rows.
Plain(old, code) == code # 500 /\ (code # 200 \/ old.table = Nothing)

LEMMA AnswersPlainly ==
    ASSUME StoreInv, UNCHANGED <<db, runs>>, NEW r \in Requests, NEW old \in RequestRec,
           NEW code \in Nat, Plain(old, code), Answer(r, old, code)
    PROVE  StoreInv'
<1> PICK rec : rec = Ended(old, code)
  OBVIOUS
<1>1. rec \in RequestRec /\ rec.step = "idle" /\ rec.answer = code /\ rec.table = old.table
  BY Answered
<1>2. Fits(rec)
  BY <1>1 DEF Fits, Plain
<1>3. request' = [request EXCEPT ![r] = rec]
  BY DEF Answer, Ended
<1> QED  BY <1>2, <1>3, MovesSteadily

LEMMA GoesOn ==
    ASSUME StoreInv, UNCHANGED <<db, runs>>, NEW r \in Requests, NEW old, NEW step,
           Goes(r, old, step), NEW rec, rec = Moved(old, step), Fits(rec)
    PROVE  StoreInv'
<1>1. request' = [request EXCEPT ![r] = rec]
  BY DEF Goes, Moved
<1> QED  BY <1>1, MovesSteadily

LEMMA StartRunKeeps ==
    ASSUME StoreInv, NEW r \in Requests, NEW who \in Callers \cup {Stranger},
           NEW c \in Fixtures \cup {Unlisted}, StartRun(r, who, c)
    PROVE  StoreInv'
<1> USE NothingIsNone
<1>1. UNCHANGED <<db, runs>>
  BY DEF StartRun
<1> PICK none \in Seq(Found) : none = <<>>
  BY NothingRead
<1> PICK base : base = Fresh(c, who, Nothing, Nothing, none)
  OBVIOUS
<1>2. base = [Idle EXCEPT !.case = c, !.who = who]
  <2> PICK b : b = [Idle EXCEPT !.case = c, !.who = who]
    OBVIOUS
  <2>1. b = Fresh(c, who, Nothing, Nothing, <<>>)
    BY DEF Idle, Fresh
  <2> QED  BY <2>1
<1>3. /\ base \in RequestRec /\ base.case = c /\ base.table = Nothing
      /\ base.version = Nothing /\ base.answer = Nothing
  BY DEF Fresh, RequestRec, Steps
<1>4. \/ Answer(r, base, 401) \/ Answer(r, base, 404)
      \/ c \in Fixtures /\ Goes(r, base, "running")
  BY <1>2 DEF StartRun
<1>5. CASE Answer(r, base, 401)
  BY <1>1, <1>3, <1>5, AnswersPlainly DEF Plain
<1>6. CASE Answer(r, base, 404)
  BY <1>1, <1>3, <1>6, AnswersPlainly DEF Plain
<1>7. CASE c \in Fixtures /\ Goes(r, base, "running")
  <2> PICK rec : rec = Moved(base, "running")
    OBVIOUS
  <2>1. /\ rec \in RequestRec /\ rec.step = "running" /\ rec.case = c /\ rec.table = Nothing
        /\ rec.version = Nothing /\ rec.answer = Nothing
    BY <1>3, Gone DEF Steps
  <2>2. Fits(rec)
    BY <1>7, <2>1 DEF Fits
  <2> QED  BY <1>1, <1>7, <2>2, GoesOn
<1> QED  BY <1>4, <1>5, <1>6, <1>7

LEMMA StartReplayKeeps ==
    ASSUME StoreInv, NEW r \in Requests, NEW who \in Callers \cup {Stranger},
           NEW c \in Fixtures, StartReplay(r, who, c)
    PROVE  StoreInv'
<1> USE NothingIsNone
<1>1. UNCHANGED <<db, runs>>
  BY DEF StartReplay
<1> PICK none \in Seq(Found) : none = <<>>
  BY NothingRead
<1> PICK base : base = Fresh(c, who, Nothing, Nothing, none)
  OBVIOUS
<1>2. base = [Idle EXCEPT !.case = c, !.who = who]
  <2> PICK b : b = [Idle EXCEPT !.case = c, !.who = who]
    OBVIOUS
  <2>1. b = Fresh(c, who, Nothing, Nothing, <<>>)
    BY DEF Idle, Fresh
  <2> QED  BY <2>1
<1>3. base \in RequestRec /\ base.case = c /\ base.table = Nothing /\ base.answer = Nothing
  BY DEF Fresh, RequestRec, Steps
<1>4. \/ Answer(r, base, 401) \/ Answer(r, base, 404)
      \/ Stored(c) /\ Goes(r, Versioned(base, cases[c].version), "running")
  <2>1. Versioned(base, cases[c].version) =
          [[Idle EXCEPT !.case = c, !.who = who] EXCEPT !.version = cases[c].version]
    BY <1>2 DEF Versioned
  <2> QED  BY <1>2, <2>1 DEF StartReplay, Stored
<1>5. CASE Answer(r, base, 401)
  BY <1>1, <1>3, <1>5, AnswersPlainly DEF Plain
<1>6. CASE Answer(r, base, 404)
  BY <1>1, <1>3, <1>6, AnswersPlainly DEF Plain
<1>7. CASE Stored(c) /\ Goes(r, Versioned(base, cases[c].version), "running")
  <2>1. cases[c].version \in Nat
    BY <1>7 DEF StoreInv, DbInv, StoreTypeOK, Stored
  <2> PICK version \in Nat : version = cases[c].version
    BY <2>1
  <2> PICK loaded : loaded = Versioned(base, version)
    OBVIOUS
  <2>2. /\ loaded \in RequestRec /\ loaded.case = c /\ loaded.table = Nothing
        /\ loaded.version = version /\ loaded.answer = Nothing
    BY <1>3 DEF Versioned, RequestRec
  <2> PICK rec : rec = Moved(loaded, "running")
    OBVIOUS
  <2>4. /\ rec \in RequestRec /\ rec.step = "running" /\ rec.case = c /\ rec.table = Nothing
        /\ rec.version = version /\ rec.answer = Nothing
    BY <2>2, Gone DEF Steps
  <2>5. Fits(rec)
    BY <1>7, <2>4 DEF Fits
  <2> QED  BY <1>1, <1>7, <2>5, GoesOn
<1> QED  BY <1>4, <1>5, <1>6, <1>7

LEMMA SaveFailsKeeps ==
    ASSUME StoreInv, NEW r \in Requests, SaveFails(r)
    PROVE  StoreInv'
<1> USE NothingIsNone
<1>1. UNCHANGED <<db, runs>>
  BY DEF SaveFails
<1> PICK old : old = request[r]
  OBVIOUS
<1>2. Fits(old) /\ old \in RequestRec
  BY DEF StoreInv
<1>3. old.case \in Fixtures /\ Collides(old.case) /\ old.table = Nothing
  BY <1>2 DEF SaveFails, Fits
<1> PICK rec : rec = Ended(old, 500)
  OBVIOUS
<1>4. /\ rec \in RequestRec /\ rec.step = "idle" /\ rec.answer = 500
      /\ rec.case = old.case /\ rec.table = Nothing
  BY <1>2, <1>3, Answered
<1>5. Blamed(old.case)
  BY <1>3, CollisionIsBlamed DEF StoreInv
<1>6. Fits(rec)
  BY <1>3, <1>4, <1>5 DEF Fits
<1>7. request' = [request EXCEPT ![r] = rec]
  BY DEF SaveFails, Answer, Ended
<1> QED  BY <1>1, <1>6, <1>7, MovesSteadily

LEMMA AnswerRunKeeps ==
    ASSUME StoreInv, NEW r \in Requests, AnswerRun(r)
    PROVE  StoreInv'
<1> USE NothingIsNone
<1>1. UNCHANGED <<db, runs>>
  BY DEF AnswerRun
<1> PICK old : old = request[r]
  OBVIOUS
<1>2. Fits(old) /\ old \in RequestRec
  BY DEF StoreInv
<1>3. old.case \in Fixtures /\ Stored(old.case) /\ old.table = Nothing
  BY <1>2 DEF AnswerRun, Fits
<1> PICK version \in Nat : version = cases[old.case].version
  BY <1>3 DEF StoreInv, DbInv, StoreTypeOK, Stored
<1> PICK base : base = Versioned(old, version)
  OBVIOUS
<1>4. base \in RequestRec /\ base.table = Nothing
  BY <1>2, <1>3 DEF RequestRec, Versioned
<1>5. Answer(r, base, 200)
  BY DEF AnswerRun, Versioned
<1> QED  BY <1>1, <1>4, <1>5, AnswersPlainly DEF Plain

LEMMA StartDecisionKeeps ==
    ASSUME StoreInv, NEW r \in Requests, NEW k \in Keys, StartDecision(r, k)
    PROVE  StoreInv'
<1> USE NothingIsNone
<1>1. UNCHANGED <<db, runs>>
  BY DEF StartDecision
<1> PICK c \in Fixtures : c = Asks[k].case
  BY StoreAssumption
<1> PICK who \in Callers \cup {Stranger} : who = Asks[k].who
  BY StoreAssumption
<1> PICK review \in Review \cup {Nothing} : review = reviews[c]
  BY DEF StoreInv, DbInv, StoreTypeOK
<1> PICK found \in Seq(Found) : Lists(found, review)
  BY OneFound, FoundKinds
<1> PICK base : base = Fresh(c, who, k, Nothing, found)
  OBVIOUS
<1>2. base = [Idle EXCEPT !.case = c, !.who = who, !.key = k, !.found = <<review>>]
  <2> PICK b : b = [Idle EXCEPT !.case = c, !.who = who, !.key = k, !.found = <<review>>]
    OBVIOUS
  <2>1. b = Fresh(c, who, k, Nothing, <<review>>)
    BY DEF Idle, Fresh
  <2> QED  BY <2>1 DEF Lists
<1>4. /\ base \in RequestRec /\ base.case = c /\ base.who = who /\ base.key = k
      /\ base.table = Nothing /\ base.found = found /\ base.answer = Nothing
  BY DEF Fresh, RequestRec, Steps
<1>5. \/ Answer(r, base, 401) \/ Answer(r, base, 403) \/ Answer(r, base, 404)
      \/ Answer(r, base, 409)
      \/ review # Nothing /\ who \in Operators /\ review.status = "PENDING" /\ Goes(r, base, "deciding")
      \/ review # Nothing /\ Goes(r, base, "decided")
  BY <1>2 DEF StartDecision, MayDecide
<1>6. review # Nothing => Stored(c) /\ c \in NeedReview
  BY DEF StoreInv, DbInv, Linked
<1>7. ASSUME NEW code \in {401, 403, 404, 409}, Answer(r, base, code) PROVE StoreInv'
  BY <1>1, <1>4, <1>7, AnswersPlainly DEF Plain
<1>8. CASE review # Nothing /\ who \in Operators /\ review.status = "PENDING" /\ Goes(r, base, "deciding")
  <2> PICK rec : rec = Moved(base, "deciding")
    OBVIOUS
  <2>1. /\ rec \in RequestRec /\ rec.step = "deciding" /\ rec.case = c /\ rec.who = who
        /\ rec.key = k /\ rec.table = Nothing /\ rec.found = found /\ rec.answer = Nothing
    BY <1>4, Gone DEF Steps
  <2>2. rec.found[1] = review
    <3>1. found[1] = review
      BY DEF Lists
    <3> QED  BY <2>1, <3>1
  <2>3. Fits(rec)
    BY <1>6, <1>8, <2>1, <2>2 DEF Fits
  <2> QED  BY <1>1, <1>8, <2>3, GoesOn
<1>9. CASE review # Nothing /\ Goes(r, base, "decided")
  <2> PICK rec : rec = Moved(base, "decided")
    OBVIOUS
  <2>1. /\ rec \in RequestRec /\ rec.step = "decided" /\ rec.case = c
        /\ rec.table = Nothing /\ rec.answer = Nothing
    BY <1>4, Gone DEF Steps
  <2>2. Fits(rec)
    BY <1>6, <1>9, <2>1 DEF Fits
  <2> QED  BY <1>1, <1>9, <2>2, GoesOn
<1> QED  BY <1>5, <1>7, <1>8, <1>9

LEMMA AnswerDecisionKeeps ==
    ASSUME StoreInv, NEW r \in Requests, AnswerDecision(r)
    PROVE  StoreInv'
<1> USE NothingIsNone
<1>1. UNCHANGED <<db, runs>>
  BY DEF AnswerDecision
<1> PICK old : old = request[r]
  OBVIOUS
<1>2. Fits(old) /\ old \in RequestRec
  BY DEF StoreInv
<1>3. old.case \in Fixtures /\ old.table = Nothing
  BY <1>2 DEF AnswerDecision, Fits
<1> PICK found \in Seq(Found) : Lists(found, reviews[old.case])
  <2>1. reviews[old.case] \in Review \cup {Nothing}
    BY <1>3 DEF StoreInv, DbInv, StoreTypeOK
  <2> QED  BY <2>1, OneFound, FoundKinds
<1> PICK base : base = Reading(old, found)
  OBVIOUS
<1>4. base \in RequestRec /\ base.table = Nothing
  BY <1>2, <1>3, Read
<1>5. Answer(r, base, 200)
  BY DEF AnswerDecision, Reading, Lists
<1> QED  BY <1>1, <1>4, <1>5, AnswersPlainly DEF Plain

LEMMA StartReadKeeps ==
    ASSUME StoreInv, NEW r \in Requests, NEW c \in Fixtures, NEW t \in Tables, StartRead(r, c, t)
    PROVE  StoreInv'
<1> USE NothingIsNone
<1>1. UNCHANGED <<db, runs>>
  BY DEF StartRead
<1> PICK none \in Seq(Found) : none = <<>>
  BY NothingRead
<1> PICK base : base = Fresh(c, Nothing, Nothing, t, none)
  OBVIOUS
<1>2. base = [Idle EXCEPT !.case = c, !.table = t]
  <2> PICK b : b = [Idle EXCEPT !.case = c, !.table = t]
    OBVIOUS
  <2>1. b = Fresh(c, Nothing, Nothing, t, <<>>)
    BY DEF Idle, Fresh
  <2> QED  BY <2>1
<1>3. base \in RequestRec /\ base.case = c /\ base.table = t /\ base.answer = Nothing
  BY DEF Fresh, RequestRec, Steps
<1>4. Answer(r, base, 404) \/ (Stored(c) /\ Goes(r, base, "reading"))
  BY <1>2 DEF StartRead, Stored
<1>5. CASE Answer(r, base, 404)
  BY <1>1, <1>3, <1>5, AnswersPlainly DEF Plain
<1>6. CASE Stored(c) /\ Goes(r, base, "reading")
  <2> PICK rec : rec = Moved(base, "reading")
    OBVIOUS
  <2>1. /\ rec \in RequestRec /\ rec.step = "reading" /\ rec.case = c
        /\ rec.table = t /\ rec.answer = Nothing
    BY <1>3, Gone DEF Steps
  <2>2. Fits(rec)
    BY <1>6, <2>1 DEF Fits
  <2> QED  BY <1>1, <1>6, <2>2, GoesOn
<1> QED  BY <1>4, <1>5, <1>6

\* A read that ends with whole lists.
LEMMA ReadEnds ==
    ASSUME StoreInv, UNCHANGED <<db, runs>>, NEW r \in Requests, NEW old \in RequestRec,
           NEW found \in Seq(Found), OneRunEach(found), NeverOlder(found), NEW base,
           base = Reading(old, found), Answer(r, base, 200)
    PROVE  StoreInv'
<1>1. base \in RequestRec /\ base.found = found
  BY Read
<1> PICK rec : rec = Ended(base, 200)
  OBVIOUS
<1>2. rec \in RequestRec /\ rec.step = "idle" /\ rec.answer = 200 /\ rec.found = found
  <2>1. base \in RequestRec /\ 200 \in Nat
    BY <1>1
  <2>2. /\ rec \in RequestRec /\ rec.step = "idle" /\ rec.answer = 200 /\ rec.found = base.found
    BY ONLY <2>1, Answered, rec = Ended(base, 200), SMTT(30)
  <2> QED  BY <1>1, <2>2
<1>3. Fits(rec)
  BY <1>2 DEF Fits
<1>4. request' = [request EXCEPT ![r] = rec]
  BY DEF Answer, Ended
<1> QED  BY <1>3, <1>4, MovesSteadily

LEMMA FinishReadKeeps ==
    ASSUME StoreInv, NEW r \in Requests, FinishRead(r)
    PROVE  StoreInv'
<1> USE NothingIsNone
<1>1. UNCHANGED <<db, runs>>
  BY DEF FinishRead
<1> PICK old : old = request[r]
  OBVIOUS
<1>2. Fits(old) /\ old \in RequestRec
  BY DEF StoreInv
<1>3. old.case \in Fixtures /\ Stored(old.case) /\ old.table \in Tables
  BY <1>2 DEF FinishRead, Fits
<1> PICK S \in SUBSET Nat : S = RunsIn(old.table, old.case)
  BY <1>3, OneRunIn DEF StoreInv, DbInv
<1>4. Cardinality(S) = 1
  BY <1>3, OneRunIsSingle DEF StoreInv, DbInv
<1> PICK found \in Seq(Found) : Lists(found, S)
  BY OneFound, FoundKinds
<1>5. OneRunEach(found) /\ NeverOlder(found)
  BY <1>4 DEF OneRunEach, NeverOlder, Lists
<1> PICK base : base = Reading(old, found)
  OBVIOUS
<1>6. Answer(r, base, 200)
  BY DEF FinishRead, Reading, Lists
<1> QED  BY <1>1, <1>2, <1>5, <1>6, ReadEnds

\* The next query of a read finds the run that is stored, and no newer one
\* was found before.
LEMMA FoundNext ==
    ASSUME NEW found, NEW n \in Nat, FoundUpTo(found, n), NEW next, next = Append(found, {n})
    PROVE  FoundUpTo(next, n)
<1>1. {n} \in SUBSET Nat /\ Cardinality({n}) = 1
  BY FS_Singleton
<1>2. found \in Seq(SUBSET Nat) /\ Len(found) \in Nat
  BY DEF FoundUpTo
<1>3. /\ next \in Seq(SUBSET Nat) /\ Len(next) = Len(found) + 1
      /\ \A i \in 1 .. Len(found) : next[i] = found[i]
      /\ next[Len(found) + 1] = {n}
  BY <1>1, <1>2, AppendProperties
<1>4. OneRunEach(next)
  <2> SUFFICES ASSUME NEW i \in 1 .. Len(next) PROVE Cardinality(next[i]) = 1
    BY DEF OneRunEach
  <2>1. i \in 1 .. Len(found) \/ i = Len(found) + 1
    BY <1>2, <1>3
  <2>2. \A j \in 1 .. Len(found) : Cardinality(found[j]) = 1
    BY DEF FoundUpTo, OneRunEach
  <2> QED  BY <1>1, <1>3, <2>1, <2>2
<1>5. \A i \in 1 .. Len(next) : \A m \in next[i] : m <= n
  <2> SUFFICES ASSUME NEW i \in 1 .. Len(next), NEW m \in next[i] PROVE m <= n
    OBVIOUS
  <2>1. i \in 1 .. Len(found) \/ i = Len(found) + 1
    BY <1>2, <1>3
  <2> QED  BY <1>3, <2>1 DEF FoundUpTo
<1>6. NeverOlder(next)
  <2> SUFFICES ASSUME NEW i \in 1 .. Len(next), NEW j \in 1 .. Len(next), i < j,
                      NEW k \in next[i], NEW m \in next[j]
               PROVE  k <= m
    BY DEF NeverOlder
  <2>1. i \in 1 .. Len(found) /\ (j \in 1 .. Len(found) \/ j = Len(found) + 1)
    BY <1>2, <1>3
  <2>2. CASE j \in 1 .. Len(found)
    BY <1>3, <2>1, <2>2 DEF FoundUpTo, NeverOlder
  <2>3. CASE j = Len(found) + 1
    BY <1>3, <1>5, <2>3
  <2> QED  BY <2>1, <2>2, <2>3
<1> QED  BY <1>3, <1>4, <1>5, <1>6 DEF FoundUpTo

LEMMA RunsAreFound == Seq(SUBSET Nat) \subseteq Seq(Found)
<1>1. SUBSET Nat \subseteq Found
  BY FoundKinds
<1> QED  BY <1>1, SeqDef

LEMMA FoundFirst ==
    ASSUME NEW n \in Nat, NEW found, Lists(found, {n})
    PROVE  FoundUpTo(found, n)
<1>1. Cardinality({n}) = 1
  BY FS_Singleton
<1>2. Len(found) = 1 /\ found[1] = {n} /\ found \in Seq(SUBSET Nat)
  BY DEF Lists
<1>3. \A i \in 1 .. Len(found) : i = 1 /\ found[i] = {n}
  BY <1>2
<1>4. OneRunEach(found)
  BY <1>1, <1>3 DEF OneRunEach
<1>5. NeverOlder(found)
  BY <1>3 DEF NeverOlder
<1>6. \A i \in 1 .. Len(found) : \A m \in found[i] : m <= n
  BY <1>3
<1> QED  BY <1>2, <1>4, <1>5, <1>6 DEF FoundUpTo

\* A handler that goes on with the next agent run.
LEMMA ReadGoesOn ==
    ASSUME StoreInv, UNCHANGED <<db, runs>>, NEW r \in Requests, NEW old, Fits(old),
           old.case \in Fixtures, Stored(old.case), old.table \in Tables, old.answer = Nothing,
           NEW found \in Seq(Found), FoundUpTo(found, cases[old.case].run), NEW base,
           base = Reading(old, found), Goes(r, base, "reading_steps")
    PROVE  StoreInv'
<1> USE NothingIsNone
<1>0. old \in RequestRec
  BY DEF Fits
<1>1. /\ base \in RequestRec /\ base.case = old.case /\ base.table = old.table
      /\ base.found = found /\ base.answer = Nothing
  BY <1>0, Read
<1> PICK rec : rec = Moved(base, "reading_steps")
  OBVIOUS
<1>2. /\ rec \in RequestRec /\ rec.step = "reading_steps" /\ rec.answer = Nothing
      /\ rec.found = found /\ rec.case = old.case /\ rec.table = old.table
  BY <1>1, Gone DEF Steps
<1>3. Fits(rec)
  BY <1>2 DEF Fits
<1> QED  BY <1>3, GoesOn

LEMMA ReadAgentRunsKeeps ==
    ASSUME StoreInv, NEW r \in Requests, ReadAgentRuns(r)
    PROVE  StoreInv'
<1>1. UNCHANGED <<db, runs>>
  BY DEF ReadAgentRuns
<1> PICK old : old = request[r]
  OBVIOUS
<1>2. Fits(old) /\ old \in RequestRec
  BY DEF StoreInv
<1>3. /\ old.case \in Fixtures /\ Stored(old.case) /\ old.table \in Tables
      /\ old.table = "agent_run" /\ old.answer = Nothing
  BY <1>2 DEF ReadAgentRuns, Fits
<1> PICK n \in Nat : n = cases[old.case].run
  BY <1>3 DEF StoreInv, DbInv, StoreTypeOK, Stored
<1>4. RunsIn("agent_run", old.case) = {n}
  BY <1>3, OneRunIn DEF StoreInv, DbInv
<1> PICK found \in Seq(Found) : Lists(found, {n})
  <2>1. {n} \in Found
    BY FoundKinds
  <2> QED  BY <2>1, OneFound
<1>5. FoundUpTo(found, cases[old.case].run)
  BY FoundFirst
<1> PICK base : base = Reading(old, found)
  OBVIOUS
<1>6. Goes(r, base, "reading_steps")
  BY <1>4 DEF ReadAgentRuns, Reading, Lists
<1> QED  BY <1>1, <1>2, <1>3, <1>5, <1>6, ReadGoesOn

LEMMA ReadAgentStepsKeeps ==
    ASSUME StoreInv, NEW r \in Requests, ReadAgentSteps(r)
    PROVE  StoreInv'
<1>1. UNCHANGED <<db, runs>>
  BY DEF ReadAgentSteps
<1> PICK old : old = request[r]
  OBVIOUS
<1>2. Fits(old) /\ old \in RequestRec
  BY DEF StoreInv
<1>3. /\ old.case \in Fixtures /\ Stored(old.case) /\ old.table \in Tables /\ old.answer = Nothing
      /\ FoundUpTo(old.found, cases[old.case].run)
  BY <1>2 DEF ReadAgentSteps, Fits
<1> PICK n \in Nat : n = cases[old.case].run
  BY <1>3 DEF StoreInv, DbInv, StoreTypeOK, Stored
<1>4. RunsIn("agent_step", old.case) = {n}
  <2>1. "agent_step" \in Tables
    BY DEF Tables, CascadeTables
  <2> QED  BY <1>3, <2>1, OneRunIn DEF StoreInv, DbInv
<1> PICK found : found = Append(old.found, {n})
  OBVIOUS
<1>5. FoundUpTo(found, n)
  BY <1>3, FoundNext
<1>6. found \in Seq(Found) /\ OneRunEach(found) /\ NeverOlder(found)
  BY <1>5, RunsAreFound DEF FoundUpTo
<1> PICK base : base = Reading(old, found)
  OBVIOUS
<1>7. Answer(r, base, 200) \/ Goes(r, base, "reading_steps")
  BY <1>4 DEF ReadAgentSteps, Reading
<1>8. CASE Answer(r, base, 200)
  BY <1>1, <1>2, <1>6, <1>8, ReadEnds
<1>9. CASE Goes(r, base, "reading_steps")
  BY <1>1, <1>2, <1>3, <1>5, <1>6, <1>9, ReadGoesOn
<1> QED  BY <1>7, <1>8, <1>9

-----------------------------------------------------------------------------
(* The two steps that write: a run commits, a decision commits.            *)

LEMMA VersionsAreNat ==
    ASSUME StoreInv, NEW r \in Requests, request[r].step = "running"
    PROVE  NextVersion(request[r].case, request[r].version) \in Nat
<1> PICK old : old = request[r]
  OBVIOUS
<1>1. Fits(old) /\ old.case \in Fixtures /\ old.version \in Nat \cup {Nothing}
  BY DEF StoreInv, Fits, RequestRec
<1>2. cases[old.case] # Nothing => cases[old.case].version \in Nat
  BY <1>1 DEF StoreInv, DbInv, StoreTypeOK
<1> QED  BY <1>1, <1>2 DEF NextVersion

LEMMA SaveKeeps ==
    ASSUME StoreInv, NEW r \in Requests, Save(r)
    PROVE  StoreInv'
<1> USE NothingIsNone
<1> PICK old : old = request[r]
  OBVIOUS
<1>1. Fits(old) /\ old \in RequestRec /\ DbInv /\ old.step = "running"
  BY DEF StoreInv, Save
<1> PICK c \in Fixtures : c = old.case
  BY <1>1 DEF Fits
<1> PICK n \in Nat : n = runs + 1
  BY <1>1 DEF DbInv, StoreTypeOK
<1>2. /\ runs \in Nat
      /\ cases \in [Fixtures -> [version : Nat \ {0}, run : Nat] \cup {Nothing}]
  BY <1>1 DEF DbInv, StoreTypeOK
<1> PICK version : version = NextVersion(c, old.version)
  OBVIOUS
<1>3. old.version \in Nat \cup {Nothing}
  BY <1>1 DEF RequestRec
<1>4. version \in Nat \ {0}
  <2>1. Stored(c) => cases[c].version \in Nat
    BY <1>2 DEF Stored
  <2> QED  BY <1>3, <2>1 DEF NextVersion, Stored
<1>5. /\ cases' = [cases EXCEPT ![c] = [version |-> version, run |-> n]]
      /\ rows' = Kept(c) \cup Written(c, n)
      /\ reviews' = [reviews EXCEPT ![c] = IF c \in NeedReview THEN Pending(n) ELSE Nothing]
      /\ snapshots' = snapshots \cup Cites[c] /\ agents' = TRUE /\ runs' = n
      /\ request' = [request EXCEPT ![r] = [old EXCEPT !.step = "saved"]]
  BY <1>2 DEF Save, Upserted, Goes
<1>6. Pending(n) \in Review
  BY DEF Pending, Review
<1> PICK row : row = [version |-> version, run |-> n]
  OBVIOUS
<1>7. row \in [version : Nat \ {0}, run : Nat] /\ row # Nothing
  <2>1. row \in [version : Nat, run : Nat]
    BY <1>4
  <2> QED  BY <1>4, <2>1, StoreAssumption
<1>8. cases'[c] = row /\ \A d \in Fixtures : d # c => cases'[d] = cases[d]
  BY <1>2, <1>5
<1>9. Grows
  <2> SUFFICES ASSUME NEW d \in Fixtures, Stored(d)
               PROVE  /\ (Stored(d))' /\ cases[d].run \in Nat
                      /\ cases'[d].run \in Nat /\ cases[d].run <= cases'[d].run
    BY DEF Grows
  <2>1. cases[d].run \in Nat /\ cases[d].run <= runs
    BY <1>1, <1>2 DEF DbInv, Linked, Stored
  <2> QED  BY <1>2, <1>7, <1>8, <2>1 DEF Stored
<1>10. StoreTypeOK'
  <2>1. cases' \in [Fixtures -> [version : Nat \ {0}, run : Nat] \cup {Nothing}]
    BY <1>2, <1>5, <1>7
  <2>2. rows' \subseteq Row
    BY <1>1, <1>5, KeptRows, WrittenRows DEF DbInv, StoreTypeOK
  <2>3. reviews' \in [Fixtures -> Review \cup {Nothing}]
    BY <1>1, <1>5, <1>6 DEF DbInv, StoreTypeOK
  <2>4. snapshots' \subseteq Sources /\ agents' \in BOOLEAN
    BY <1>1, <1>5, StoreAssumption DEF DbInv, StoreTypeOK
  <2> QED  BY <1>5, <2>1, <2>2, <2>3, <2>4 DEF StoreTypeOK
<1>11. RowsInv'
  <2> SUFFICES ASSUME NEW d \in Fixtures
               PROVE  {x \in rows' : x.case = d} =
                        IF cases'[d] # Nothing THEN Written(d, cases'[d].run) ELSE {}
    BY DEF RowsInv, RowsOf, Stored
  <2>0. StoreTypeOK /\ RowsInv
    BY <1>1 DEF DbInv
  <2>1. CASE d = c
    <3>1. cases'[d] # Nothing /\ cases'[d].run = n
      BY <1>7, <1>8, <2>1
    <3>2. \A x \in Kept(c) : x.case # c
      BY <2>0, KeptRows
    <3>3. \A x \in Written(c, n) : x.case = c
      BY WrittenRows
    <3>4. {x \in rows' : x.case = c} = Written(c, n)
      BY <1>5, <3>2, <3>3
    <3> QED  BY <2>1, <3>1, <3>4
  <2>2. CASE d # c
    <3>1. cases'[d] = cases[d]
      BY <1>8, <2>2
    <3>2. \A x \in Written(c, n) : x.case # d
      BY <2>2, WrittenRows
    <3>3. {x \in rows' : x.case = d} = {x \in rows : x.case = d}
      BY <1>5, <2>0, <2>2, <3>2, KeptRows
    <3>4. RowsOf(d) = IF Stored(d) THEN Written(d, cases[d].run) ELSE {}
      BY <2>0 DEF RowsInv
    <3> QED  BY <3>1, <3>3, <3>4 DEF RowsOf, Stored
  <2> QED  BY <2>1, <2>2
<1>12. ASSUME NEW d \in Fixtures PROVE (Linked(d))'
  <2>1. Linked(d)
    BY <1>1 DEF DbInv
  <2>2. Cites[c] \subseteq snapshots' /\ snapshots \subseteq snapshots' /\ agents'
    BY <1>5
  <2>3. CASE d = c
    <3>1. cases'[d] # Nothing /\ cases'[d].run = n
      BY <1>7, <1>8, <2>3
    <3>2. reviews'[d] = IF c \in NeedReview THEN Pending(n) ELSE Nothing
      BY <1>1, <1>5, <2>3 DEF DbInv, StoreTypeOK
    <3>3. Pending(n) # Nothing /\ Pending(n).run = n
      BY <1>6 DEF Pending
    <3> QED  BY <1>5, <2>2, <2>3, <3>1, <3>2, <3>3 DEF Linked, Stored
  <2>4. CASE d # c
    <3>1. cases'[d] = cases[d] /\ reviews'[d] = reviews[d]
      BY <1>1, <1>5, <2>4 DEF DbInv, StoreTypeOK
    <3>2. Stored(d) => cases[d].run \in Nat
      BY <1>2 DEF Stored
    <3> QED  BY <1>2, <1>5, <2>1, <2>2, <3>1, <3>2 DEF Linked, Stored
  <2> QED  BY <2>3, <2>4
<1>13. DecisionWhole'
  <2> SUFFICES ASSUME NEW d \in Fixtures, reviews'[d] # Nothing
               PROVE  IF reviews'[d].status = "PENDING"
                      THEN reviews'[d] = Pending(reviews'[d].run)
                      ELSE /\ reviews'[d].by \in Operators
                           /\ Asks[reviews'[d].key] =
                                [case |-> d, who |-> reviews'[d].by, verdict |-> reviews'[d].verdict]
    BY DEF DecisionWhole
  <2>1. reviews \in [Fixtures -> Review \cup {Nothing}]
    BY <1>1 DEF DbInv, StoreTypeOK
  <2>2. CASE d = c
    <3>1. reviews'[d] = Pending(n)
      BY <1>5, <2>1, <2>2
    <3> QED  BY <3>1 DEF Pending
  <2>3. CASE d # c
    <3>1. reviews'[d] = reviews[d]
      BY <1>5, <2>1, <2>3
    <3> QED  BY <1>1, <3>1 DEF DbInv, DecisionWhole
  <2> QED  BY <2>2, <2>3
<1>14. (DbInv)'
  BY <1>10, <1>11, <1>12, <1>13 DEF DbInv
<1> PICK rec : rec = [old EXCEPT !.step = "saved"]
  OBVIOUS
<1>15. rec \in RequestRec
  BY <1>1 DEF RequestRec, Steps
<1>16. /\ rec.step = "saved" /\ rec.case = c /\ rec.table = Nothing /\ rec.answer = Nothing
  BY <1>1 DEF RequestRec, Fits
<1>17. (Stored(c))'
  BY <1>7, <1>8 DEF Stored
<1>18. (Fits(rec))'
  BY <1>15, <1>16, <1>17 DEF Fits
<1>19. request' = [request EXCEPT ![r] = rec]
  BY <1>5
<1> QED  BY <1>9, <1>14, <1>18, <1>19, Moves

LEMMA CommitDecisionKeeps ==
    ASSUME StoreInv, NEW r \in Requests, CommitDecision(r)
    PROVE  StoreInv'
<1> USE NothingIsNone
<1> PICK old : old = request[r]
  OBVIOUS
<1>1. Fits(old) /\ old \in RequestRec /\ DbInv /\ old.step = "deciding"
  BY DEF StoreInv, CommitDecision
<1> PICK c \in Fixtures : c = old.case
  BY <1>1 DEF Fits
<1> PICK k \in Keys : k = old.key
  BY <1>1 DEF Fits
<1>2. /\ Asks[k].case = c /\ Asks[k].who = old.who /\ old.who \in Operators
      /\ Stored(c) /\ c \in NeedReview
  BY <1>1 DEF Fits
<1>3. reviews \in [Fixtures -> Review \cup {Nothing}]
  BY <1>1 DEF DbInv, StoreTypeOK
<1> PICK review \in Review : review = reviews[c]
  BY <1>1, <1>2, <1>3 DEF DbInv, Linked
<1> PICK new : new = Decided(review, old.who, k)
  OBVIOUS
<1>4. /\ new \in Review /\ new.status = "DECIDED" /\ new.by = old.who /\ new.key = k
      /\ new.verdict = Asks[k].verdict /\ new.run = review.run
  <2>1. /\ new.status = "DECIDED" /\ new.by = old.who /\ new.key = k
        /\ new.verdict = Asks[k].verdict /\ new.run = review.run
    BY DEF Decided, Review
  <2>2. old.who \in Callers /\ Asks[k].verdict \in {Asks[j].verdict : j \in Keys}
    BY <1>2, StoreAssumption
  <2>3. new \in Review
    BY ONLY <2>2, review \in Review, k \in Keys, new = Decided(review, old.who, k) DEF Decided, Review
  <2> QED  BY <2>1, <2>3
<1>5. /\ reviews' = [reviews EXCEPT ![c] = new]
      /\ request' = [request EXCEPT ![r] = [old EXCEPT !.step = "decided"]]
      /\ UNCHANGED <<cases, rows, snapshots, agents, runs>>
  BY DEF CommitDecision, Goes
<1>6. reviews'[c] = new /\ \A d \in Fixtures : d # c => reviews'[d] = reviews[d]
  BY <1>3, <1>5
<1>7. Grows
  BY <1>1, <1>5 DEF Grows, Stored, DbInv, StoreTypeOK
<1>8. StoreTypeOK'
  <2>1. reviews' \in [Fixtures -> Review \cup {Nothing}]
    BY <1>3, <1>4, <1>5
  <2> QED  BY <1>1, <1>5, <2>1 DEF DbInv, StoreTypeOK
<1>9. RowsInv'
  BY <1>1, <1>5 DEF DbInv, RowsInv, RowsOf, Stored
<1>10. ASSUME NEW d \in Fixtures PROVE (Linked(d))'
  <2>1. Linked(d)
    BY <1>1 DEF DbInv
  <2>3. CASE d = c
    <3>1. new # Nothing
      BY <1>4
    <3> QED  BY <1>2, <1>4, <1>5, <1>6, <2>1, <2>3, <3>1 DEF Linked, Stored
  <2>4. CASE d # c
    BY <1>5, <1>6, <2>1, <2>4 DEF Linked, Stored
  <2> QED  BY <2>3, <2>4
<1>11. DecisionWhole'
  <2> SUFFICES ASSUME NEW d \in Fixtures, reviews'[d] # Nothing
               PROVE  IF reviews'[d].status = "PENDING"
                      THEN reviews'[d] = Pending(reviews'[d].run)
                      ELSE /\ reviews'[d].by \in Operators
                           /\ Asks[reviews'[d].key] =
                                [case |-> d, who |-> reviews'[d].by, verdict |-> reviews'[d].verdict]
    BY DEF DecisionWhole
  <2>1. CASE d = c
    <3>1. Asks[k] = [case |-> Asks[k].case, who |-> Asks[k].who, verdict |-> Asks[k].verdict]
      BY StoreAssumption
    <3> QED  BY <1>2, <1>4, <1>6, <2>1, <3>1
  <2>2. CASE d # c
    <3>1. reviews'[d] = reviews[d]
      BY <1>6, <2>2
    <3> QED  BY <1>1, <3>1 DEF DbInv, DecisionWhole
  <2> QED  BY <2>1, <2>2
<1>12. (DbInv)'
  BY <1>8, <1>9, <1>10, <1>11 DEF DbInv
<1> PICK rec : rec = [old EXCEPT !.step = "decided"]
  OBVIOUS
<1>13. rec \in RequestRec
  BY <1>1 DEF RequestRec, Steps
<1>14. /\ rec.step = "decided" /\ rec.case = c /\ rec.table = Nothing /\ rec.answer = Nothing
  BY <1>1 DEF RequestRec, Fits
<1>15. (Stored(c))'
  BY <1>2, <1>5 DEF Stored
<1>16. (Fits(rec))'
  BY <1>2, <1>13, <1>14, <1>15 DEF Fits
<1>17. request' = [request EXCEPT ![r] = rec]
  BY <1>5
<1> QED  BY <1>7, <1>12, <1>16, <1>17, Moves

LEMMA StutterKeeps == StoreInv /\ UNCHANGED storeVars => StoreInv'
<1> SUFFICES ASSUME StoreInv, UNCHANGED storeVars PROVE StoreInv'
  OBVIOUS
<1>1. UNCHANGED <<db, runs>> /\ request' = request
  BY DEF storeVars
<1>2. DbInv
  BY DEF StoreInv
<1>3. (DbInv)'
  BY <1>1, <1>2, DbKeeps
<1>4. Grows
  BY <1>1, <1>2, SteadyGrows
<1>5. ASSUME NEW q \in Requests PROVE (Fits(request[q]))'
  <2> PICK old : old = request[q]
    OBVIOUS
  <2>1. (Fits(old))'
    BY <1>4, FitsLasts DEF StoreInv
  <2>2. request'[q] = old
    BY <1>1
  <2> QED  BY <2>1, <2>2 DEF Fits
<1> QED  BY <1>1, <1>3, <1>5 DEF StoreInv

THEOREM StoreInvariance == StoreSpec => []StoreInv
<1>1. StoreInv /\ [StoreNext]_storeVars => StoreInv'
  <2> SUFFICES ASSUME StoreInv, [StoreNext]_storeVars PROVE StoreInv'
    OBVIOUS
  <2>1. CASE UNCHANGED storeVars
    BY <2>1, StutterKeeps
  <2>2. CASE StoreNext
    <3>1. PICK r \in Requests :
             \/ \E who \in Callers \cup {Stranger} :
                   \/ \E c \in Fixtures \cup {Unlisted} : StartRun(r, who, c)
                   \/ \E c \in Fixtures : StartReplay(r, who, c)
             \/ \E k \in Keys : StartDecision(r, k)
             \/ \E c \in Fixtures, t \in Tables \ {"agent_step", "handoff"} : StartRead(r, c, t)
             \/ Save(r) \/ SaveFails(r) \/ AnswerRun(r)
             \/ CommitDecision(r) \/ AnswerDecision(r)
             \/ FinishRead(r) \/ ReadAgentRuns(r) \/ ReadAgentSteps(r)
      BY <2>2 DEF StoreNext
    <3>2. CASE \E who \in Callers \cup {Stranger}, c \in Fixtures \cup {Unlisted} : StartRun(r, who, c)
      BY <3>2, StartRunKeeps
    <3>3. CASE \E who \in Callers \cup {Stranger}, c \in Fixtures : StartReplay(r, who, c)
      BY <3>3, StartReplayKeeps
    <3>4. CASE \E k \in Keys : StartDecision(r, k)
      BY <3>4, StartDecisionKeeps
    <3>5. CASE \E c \in Fixtures, t \in Tables \ {"agent_step", "handoff"} : StartRead(r, c, t)
      BY <3>5, StartReadKeeps
    <3>6. CASE Save(r)
      BY <3>6, SaveKeeps
    <3>7. CASE SaveFails(r)
      BY <3>7, SaveFailsKeeps
    <3>8. CASE AnswerRun(r)
      BY <3>8, AnswerRunKeeps
    <3>9. CASE CommitDecision(r)
      BY <3>9, CommitDecisionKeeps
    <3>10. CASE AnswerDecision(r)
      BY <3>10, AnswerDecisionKeeps
    <3>11. CASE FinishRead(r) \/ ReadAgentRuns(r) \/ ReadAgentSteps(r)
      BY <3>11, FinishReadKeeps, ReadAgentRunsKeeps, ReadAgentStepsKeeps
    <3> QED  BY <3>1, <3>2, <3>3, <3>4, <3>5, <3>6, <3>7, <3>8, <3>9, <3>10, <3>11
  <2> QED  BY <2>1, <2>2
<1> QED  BY StoreInitInv, <1>1, PTL DEF StoreSpec

-----------------------------------------------------------------------------
(* What follows.                                                           *)

\* Types of the tables and counters, for any constants.
THEOREM StoreTypeCorrect == StoreSpec => []StoreTypeOK
<1>1. StoreInv => StoreTypeOK
  BY DEF StoreInv, DbInv
<1> QED  BY <1>1, StoreInvariance, PTL

\* However first runs, reruns and replays of any cases overlap, what is stored
\* of a case is one of its runs and all of it (persist_case_run).
THEOREM StoredRunsWhole == StoreSpec => []RunIsWhole
<1>1. StoreInv => RunIsWhole
  <2> SUFFICES ASSUME StoreInv, NEW c \in Fixtures
               PROVE  IF cases[c] = Nothing
                      THEN reviews[c] = Nothing /\ \A x \in rows : x.case # c
                      ELSE /\ \A t \in Tables : RunsIn(t, c) = {cases[c].run}
                           /\ {x.key : x \in {y \in rows : y.table = "evidence" /\ y.case = c}} = Cites[c]
                           /\ Cites[c] \subseteq snapshots /\ agents
                           /\ IF c \in NeedReview
                              THEN reviews[c] # Nothing /\ reviews[c].run = cases[c].run
                              ELSE reviews[c] = Nothing
    BY DEF RunIsWhole
  <2>1. StoreTypeOK /\ RowsInv /\ Linked(c)
    BY DEF StoreInv, DbInv
  <2>2. CASE ~Stored(c)
    <3>1. RowsOf(c) = {}
      BY <2>1, <2>2 DEF RowsInv
    <3> QED  BY <2>1, <2>2, <3>1 DEF RowsOf, Linked, Stored
  <2>3. CASE Stored(c)
    <3>1. \A t \in Tables : RunsIn(t, c) = {cases[c].run}
      BY <2>1, <2>3, OneRunIn
    <3> PICK n \in Nat : n = cases[c].run
      BY <2>1, <2>3 DEF StoreTypeOK, Stored
    <3>2. RowsOf(c) = Written(c, n)
      BY <2>1, <2>3 DEF RowsInv
    <3>3. {x.key : x \in {y \in rows : y.table = "evidence" /\ y.case = c}} = Cites[c]
      <4>1. \A y \in rows : y.table = "evidence" /\ y.case = c => y.key \in Cites[c]
        BY <3>2, WrittenRows DEF RowsOf
      <4>2. \A s \in Cites[c] : \E y \in rows : y.table = "evidence" /\ y.case = c /\ y.key = s
        BY <3>2, WrittenRows DEF RowsOf
      <4> QED  BY <4>1, <4>2
    <3> QED  BY <2>1, <2>3, <3>1, <3>3 DEF Linked, Stored
  <2> QED  BY <2>2, <2>3 DEF Stored
<1> QED  BY <1>1, StoreInvariance, PTL

\* A run is refused only beside another case with evidence of the same source
\* (IntegrityError on EVID-<source>), never because of its own earlier runs.
THEOREM FailuresAreCollisions == StoreSpec => []FailureIsCollision
<1>1. StoreInv => FailureIsCollision
  <2> SUFFICES ASSUME StoreInv, NEW r \in Requests, request[r].answer = 500
               PROVE  \E x \in rows : /\ x.table = "evidence" /\ x.key \in Cites[request[r].case]
                                      /\ x.case # request[r].case
    BY DEF FailureIsCollision
  <2> PICK rec : rec = request[r]
    OBVIOUS
  <2>1. rec.case \in Fixtures /\ Blamed(rec.case)
    BY DEF StoreInv, Fits
  <2>2. PICK d \in Fixtures \ {rec.case} : Stored(d) /\ Cites[d] \cap Cites[rec.case] # {}
    BY <2>1 DEF Blamed
  <2> PICK n \in Nat : n = cases[d].run
    BY <2>2 DEF StoreInv, DbInv, StoreTypeOK, Stored
  <2>3. RowsOf(d) = Written(d, n)
    BY <2>2 DEF StoreInv, DbInv, RowsInv
  <2>4. PICK s \in Cites[d] : s \in Cites[rec.case]
    BY <2>2
  <2>5. PICK x \in Written(d, n) : x.table = "evidence" /\ x.key = s
    BY WrittenRows
  <2>6. x \in rows /\ x.case = d
    BY <2>3 DEF RowsOf
  <2> QED  BY <2>2, <2>4, <2>5, <2>6
<1> QED  BY <1>1, StoreInvariance, PTL

\* A decided row is never put together from two decisions (decide_review).
THEOREM DecisionsWhole == StoreSpec => []DecisionWhole
<1>1. StoreInv => DecisionWhole
  BY DEF StoreInv, DbInv
<1> QED  BY <1>1, StoreInvariance, PTL

\* Every query of a read finds one run of the case, none an older one than the
\* query before it, for any number of agent runs (the GET handlers).
THEOREM ReadsWhole == StoreSpec => []ReadWhole
<1>1. StoreInv => ReadWhole
  BY DEF StoreInv, Fits, ReadWhole
<1> QED  BY <1>1, StoreInvariance, PTL

\* A decision is overwritten by a run of its case, or by a request that loaded
\* the review while it was pending, and by nothing else (reviews.py).
THEOREM DecisionsKept == StoreSpec => DecisionKept
<1> DEFINE Kept1 ==
      \A c \in Fixtures :
          /\ reviews[c] # Nothing
          /\ reviews[c].status = "DECIDED"
          /\ cases'[c] = cases[c]
          /\ \A r \in Requests :
                request[r].step = "deciding" /\ request[r].case = c
                => request[r].found[1].status = "DECIDED"
          => reviews'[c] = reviews[c]
<1>1. StoreInv /\ [StoreNext]_storeVars => [Kept1]_storeVars
  <2> SUFFICES ASSUME StoreInv, StoreNext, NEW c \in Fixtures, cases'[c] = cases[c],
                      \A r \in Requests :
                          request[r].step = "deciding" /\ request[r].case = c
                          => request[r].found[1].status = "DECIDED"
               PROVE  reviews'[c] = reviews[c]
    OBVIOUS
  <2>1. reviews \in [Fixtures -> Review \cup {Nothing}]
    BY DEF StoreInv, DbInv, StoreTypeOK
  <2>2. ASSUME NEW r \in Requests, Save(r)
        PROVE  reviews'[c] = reviews[c]
    <3>1. request[r].case # c
      <4> SUFFICES ASSUME request[r].case = c PROVE FALSE
        OBVIOUS
      <4> PICK n \in Nat : n = runs + 1
        BY DEF StoreInv, DbInv, StoreTypeOK
      <4>1. cases \in [Fixtures -> [version : Nat \ {0}, run : Nat] \cup {Nothing}]
        BY DEF StoreInv, DbInv, StoreTypeOK
      <4> PICK row : row = [version |-> NextVersion(c, request[r].version), run |-> n]
        OBVIOUS
      <4>2. cases'[c] = row
        BY <2>2, <4>1 DEF Save
      <4>3. row = cases[c] /\ row.run = n
        BY <4>2
      <4>4. Stored(c)
        <5>1. row \in [version : Nat, run : Nat]
          <6>1. NextVersion(c, request[r].version) \in Nat
            BY <2>2, VersionsAreNat DEF Save
          <6> QED  BY <6>1
        <5> QED  BY <4>3, <5>1, StoreAssumption DEF Stored
      <4>5. cases[c].run \in Nat /\ cases[c].run <= runs /\ runs \in Nat
        BY <4>1, <4>4 DEF StoreInv, DbInv, Linked, Stored, StoreTypeOK
      <4> QED  BY <4>3, <4>5
    <3> QED  BY <2>1, <2>2, <3>1 DEF Save
  <2>3. ASSUME NEW r \in Requests, CommitDecision(r)
        PROVE  reviews'[c] = reviews[c]
    <3>1. request[r].step = "deciding" /\ request[r].found[1].status = "PENDING"
      BY <2>3 DEF CommitDecision, StoreInv, Fits
    <3>2. request[r].case # c
      BY <3>1
    <3> QED  BY <2>1, <2>3, <3>2 DEF CommitDecision
  <2>4. CASE \E r \in Requests : Save(r) \/ CommitDecision(r)
    BY <2>2, <2>3, <2>4
  <2>5. CASE ~ \E r \in Requests : Save(r) \/ CommitDecision(r)
    <3>1. PICK r \in Requests :
             \/ \E who \in Callers \cup {Stranger} :
                   \/ \E d \in Fixtures \cup {Unlisted} : StartRun(r, who, d)
                   \/ \E d \in Fixtures : StartReplay(r, who, d)
             \/ \E k \in Keys : StartDecision(r, k)
             \/ \E d \in Fixtures, t \in Tables \ {"agent_step", "handoff"} : StartRead(r, d, t)
             \/ SaveFails(r) \/ AnswerRun(r) \/ AnswerDecision(r)
             \/ FinishRead(r) \/ ReadAgentRuns(r) \/ ReadAgentSteps(r)
      BY <2>5 DEF StoreNext
    <3>2. UNCHANGED <<db, runs>>
      BY <3>1 DEF StartRun, StartReplay, StartDecision, StartRead, SaveFails, AnswerRun,
                  AnswerDecision, FinishRead, ReadAgentRuns, ReadAgentSteps
    <3> QED  BY <3>2 DEF db
  <2> QED  BY <2>4, <2>5
<1> QED  BY <1>1, StoreInvariance, PTL DEF StoreSpec, DecisionKept
=============================================================================
