-------------------------- MODULE MigrationsProofs --------------------------
(***************************************************************************)
(* Proofs that Migrations keeps schema_migrations and the schema in step,  *)
(* for any number of processes and files.                                  *)
(***************************************************************************)
EXTENDS Migrations, TLAPS

\* Two processes never hold the same file in an open transaction.
PendingApart == \A p, q \in Process :
    Pending(p, nextVersion(p)) /\ Pending(q, nextVersion(p)) => p = q

\* No process is ahead of the schema; one that has recorded its file is level with it.
CurrentKnown == \A p \in Process :
    /\ current[p] <= Len(schema)
    /\ phase[p] \in {"executed", "recorded"} => current[p] < Files
    /\ phase[p] = "recorded" => current[p] = Len(schema)

MigrationInv ==
    /\ MigrationTypeOK /\ SchemaRecorded
    /\ PendingApart /\ CurrentKnown
    /\ ServesFullSchema /\ OneServer

-----------------------------------------------------------------------------

\* The last version of a recorded schema is its length.
LEMMA MaxVersionIsLength ==
    ASSUME SchemaRecorded, MigrationTypeOK
    PROVE  MaxVersion(versions) = Len(schema)
<1>1. Len(schema) \in Nat
    BY DEF MigrationTypeOK
<1>2. CASE Len(schema) = 0
    BY <1>1, <1>2 DEF SchemaRecorded, MaxVersion
<1>3. CASE Len(schema) # 0
    <2>1. versions # {} /\ Len(schema) \in versions
        BY <1>1, <1>3 DEF SchemaRecorded
    <2>2. \A m \in versions : m <= Len(schema)
        BY <1>1 DEF SchemaRecorded
    <2>3. ASSUME NEW n \in versions, \A m \in versions : m <= n
          PROVE  n = Len(schema)
        <3>1. n \in Nat /\ n <= Len(schema) /\ Len(schema) <= n
            BY <1>1, <2>1, <2>2, <2>3 DEF SchemaRecorded
        <3>2. QED
            BY <1>1, <3>1
    <2>4. QED
        BY <2>1, <2>2, <2>3 DEF MaxVersion
<1>4. QED
    BY <1>2, <1>3

\* The schema is never longer than there are files.
LEMMA LengthBounded ==
    ASSUME SchemaRecorded, MigrationTypeOK
    PROVE  Len(schema) \in 0..Files
<1>1. Len(schema) \in Nat
    BY DEF MigrationTypeOK
<1>2. CASE Len(schema) = 0
    BY <1>1, <1>2, MigrationsAssumption
<1>3. CASE Len(schema) # 0
    <2>1. Len(schema) \in versions
        BY <1>1, <1>3 DEF SchemaRecorded
    <2>2. QED
        BY <1>1, <2>1, MigrationsAssumption DEF MigrationTypeOK
<1>4. QED
    BY <1>2, <1>3

\* Both starting points satisfy the invariant.
LEMMA MigrationInitInv == MigrationInit => MigrationInv
<1>1. SUFFICES ASSUME MigrationInit PROVE MigrationInv
    OBVIOUS
<1>2. PICK v \in {0, OldVersion} : versions = 1..v /\ schema = [n \in 1..v |-> n]
    BY <1>1 DEF MigrationInit
<1>3. v \in 0..Files
    BY MigrationsAssumption
<1>4. schema \in Seq(1..Files) /\ Len(schema) = v
    BY <1>2, <1>3, MigrationsAssumption
<1>5. MigrationTypeOK
    BY <1>1, <1>2, <1>3, <1>4, MigrationsAssumption DEF MigrationInit, MigrationTypeOK, Phase
<1>6. SchemaRecorded
    BY <1>2, <1>4 DEF SchemaRecorded
<1>7. PendingApart /\ ServesFullSchema /\ OneServer
    BY <1>1 DEF MigrationInit, PendingApart, Pending, ServesFullSchema, OneServer, Listening
<1>8. CurrentKnown
    <2>1. \A p \in Process : current[p] = 0 /\ phase[p] = "off"
        BY <1>1 DEF MigrationInit
    <2>2. 0 <= Len(schema)
        BY <1>3, <1>4, MigrationsAssumption
    <2>3. QED
        BY <2>1, <2>2 DEF CurrentKnown
<1>9. QED
    BY <1>5, <1>6, <1>7, <1>8 DEF MigrationInv
-----------------------------------------------------------------------------
(* The steps of one process. *)

\* A step that moves one process and commits nothing keeps the invariant, if what
\* is asked of its new phase holds.
LEMMA MoveKeeps ==
    ASSUME MigrationInv, NEW p \in Process, NEW where \in Phase, NEW n \in 0..Files,
           UNCHANGED <<versions, schema>>,
           Enter(p, where), current' = [current EXCEPT ![p] = n],
           n <= Len(schema),
           where \in {"executed", "recorded"} =>
               /\ n < Files
               /\ \A q \in Process \ {p} : ~Pending(q, n + 1),
           where = "recorded" => n = Len(schema),
           where \in {"serving", "cut off"} =>
               Len(schema) = Files /\ \A q \in Process \ {p} : ~Listening(q)
    PROVE  MigrationInv'
<1>1. MigrationTypeOK'
    BY DEF MigrationInv, MigrationTypeOK, Enter
<1>2. SchemaRecorded'
    BY DEF MigrationInv, SchemaRecorded
<1>3. /\ phase'[p] = where /\ current'[p] = n
      /\ \A q \in Process \ {p} : phase'[q] = phase[q] /\ current'[q] = current[q]
    BY DEF MigrationInv, MigrationTypeOK, Enter
<1>4. CurrentKnown'
    BY <1>3 DEF MigrationInv, CurrentKnown
<1>5. PendingApart'
    <2>1. SUFFICES ASSUME NEW q \in Process, NEW r \in Process, q # r,
                          Pending(q, nextVersion(q))', Pending(r, nextVersion(q))'
                   PROVE  FALSE
        BY DEF PendingApart
    <2>2. CASE q = p
        BY <1>3, <2>1, <2>2 DEF Pending, nextVersion
    <2>3. CASE r = p
        BY <1>3, <2>1, <2>3 DEF Pending, nextVersion
    <2>4. CASE q # p /\ r # p
        BY <1>3, <2>1, <2>4 DEF MigrationInv, PendingApart, Pending, nextVersion
    <2>5. QED
        BY <2>2, <2>3, <2>4
<1>6. ServesFullSchema'
    BY <1>3 DEF MigrationInv, ServesFullSchema, Listening
<1>7. OneServer'
    BY <1>3 DEF MigrationInv, OneServer, Listening
<1>8. QED
    BY <1>1, <1>2, <1>4, <1>5, <1>6, <1>7 DEF MigrationInv

\* A commit appends the next file: its process is level with the schema, and so
\* was every other that has recorded a file, which can then only be the same one.
LEMMA CommitKeeps ==
    ASSUME MigrationInv, NEW p \in Process, NEW where \in {"migrating", "off"},
           Committed(p), Enter(p, where),
           \E n \in {0, nextVersion(p)} : current' = [current EXCEPT ![p] = n]
    PROVE  MigrationInv'
<1> DEFINE len == Len(schema)
<1>1. len \in 0..Files /\ len \in Nat
    BY LengthBounded DEF MigrationInv, MigrationTypeOK
<1>2. current[p] = len /\ len < Files /\ nextVersion(p) = len + 1
    BY DEF MigrationInv, CurrentKnown, Committed, nextVersion
<1>3. len + 1 \in 1..Files /\ schema \in Seq(1..Files)
    BY <1>1, <1>2, MigrationsAssumption DEF MigrationInv, MigrationTypeOK
<1>4. /\ schema' = Append(schema, len + 1) /\ Len(schema') = len + 1
      /\ schema' \in Seq(1..Files)
    BY <1>2, <1>3 DEF Committed
<1>5. PICK n \in {0, len + 1} : current' = [current EXCEPT ![p] = n]
    BY <1>2
<1>6. /\ phase'[p] = where /\ current'[p] = n
      /\ \A q \in Process \ {p} : phase'[q] = phase[q] /\ current'[q] = current[q]
    BY <1>5 DEF MigrationInv, MigrationTypeOK, Enter
<1>7. MigrationTypeOK'
    <2>1. versions' \subseteq 1..Files
        BY <1>2, <1>3 DEF MigrationInv, MigrationTypeOK, Committed
    <2>2. n \in 0..Files
        BY <1>1, <1>2, MigrationsAssumption
    <2>3. current' \in [Process -> 0..Files]
        BY <1>5, <2>2 DEF MigrationInv, MigrationTypeOK
    <2>4. phase' \in [Process -> Phase]
        BY DEF MigrationInv, MigrationTypeOK, Enter, Phase
    <2>5. QED
        BY <1>4, <2>1, <2>3, <2>4 DEF MigrationTypeOK
<1>8. SchemaRecorded'
    <2>1. versions' = 1..(len + 1)
        BY <1>1, <1>2 DEF MigrationInv, SchemaRecorded, Committed
    <2>2. \A i \in 1..(len + 1) : schema'[i] = i
        BY <1>1, <1>3, <1>4 DEF MigrationInv, SchemaRecorded
    <2>3. schema' = [i \in 1..(len + 1) |-> i]
        BY <1>4, <2>2
    <2>4. QED
        BY <1>4, <2>1, <2>3 DEF SchemaRecorded
<1>9. \A q \in Process \ {p} : phase[q] # "recorded"
    BY <1>2 DEF MigrationInv, PendingApart, CurrentKnown, Pending, nextVersion, Committed
<1>10. CurrentKnown'
    <2>1. SUFFICES ASSUME NEW q \in Process
                   PROVE  /\ current'[q] <= len + 1
                          /\ phase'[q] \in {"executed", "recorded"} => current'[q] < Files
                          /\ phase'[q] # "recorded"
        BY <1>4 DEF CurrentKnown
    <2>2. CASE q = p
        BY <1>1, <1>5, <1>6, <2>2
    <2>3. CASE q # p
        <3>1. current[q] \in 0..Files /\ current[q] <= len
            BY DEF MigrationInv, MigrationTypeOK, CurrentKnown
        <3>2. current[q] <= len + 1
            BY <1>1, <3>1, MigrationsAssumption
        <3>3. QED
            BY <1>6, <1>9, <2>3, <3>2 DEF MigrationInv, CurrentKnown
    <2>4. QED
        BY <2>2, <2>3
<1>11. PendingApart'
    BY <1>6 DEF MigrationInv, PendingApart, Pending, nextVersion
<1>12. ServesFullSchema' /\ OneServer'
    <2>1. len # Files
        BY <1>1, <1>2, MigrationsAssumption
    <2>2. \A q \in Process : phase[q] \notin {"serving", "cut off"}
        BY <2>1 DEF MigrationInv, ServesFullSchema, Listening
    <2>3. \A q \in Process : ~Listening(q)'
        BY <1>6, <2>2 DEF Listening
    <2>4. QED
        BY <2>3 DEF ServesFullSchema, OneServer
<1>13. QED
    BY <1>7, <1>8, <1>10, <1>11, <1>12 DEF MigrationInv

\* A step of the migrations, or none, keeps the invariant.
LEMMA MigrationStep ==
    ASSUME MigrationInv, [MigrationNext]_migrationVars
    PROVE  MigrationInv'
<1> DEFINE Same(p) == current' = [current EXCEPT ![p] = current[p]]
<1>1. ASSUME UNCHANGED migrationVars
      PROVE  MigrationInv'
    BY <1>1 DEF migrationVars, MigrationInv, MigrationTypeOK, SchemaRecorded, PendingApart,
                CurrentKnown, ServesFullSchema, OneServer, Pending, nextVersion, Listening
<1>2. ASSUME NEW p \in Process
      PROVE  /\ current[p] \in 0..Files /\ current[p] <= Len(schema)
             /\ 0 \in 0..Files /\ 0 <= Len(schema)
             /\ UNCHANGED current => Same(p)
             /\ Len(schema) \in 0..Files
    BY LengthBounded, MigrationsAssumption
       DEF MigrationInv, MigrationTypeOK, CurrentKnown
<1>3. ASSUME NEW p \in Process, connect(p)
      PROVE  MigrationInv'
    BY <1>2, <1>3, MoveKeeps DEF connect, Phase
<1>4. ASSUME NEW p \in Process, readVersion(p)
      PROVE  MigrationInv'
    <2>1. MaxVersion(versions) = Len(schema)
        BY MaxVersionIsLength DEF MigrationInv
    <2>2. Len(schema) \in 0..Files /\ Len(schema) <= Len(schema)
        BY <1>2, MigrationsAssumption
    <2>3. current' = [current EXCEPT ![p] = Len(schema)] /\ Enter(p, "migrating")
        BY <1>4, <2>1 DEF readVersion
    <2>4. QED
        BY <1>4, <2>2, <2>3, MoveKeeps DEF readVersion, Phase
<1>5. ASSUME NEW p \in Process, executeMigration(p)
      PROVE  MigrationInv'
    BY <1>2, <1>5, MoveKeeps DEF executeMigration, Phase, Blocked, nextVersion
<1>6. ASSUME NEW p \in Process, recordMigration(p)
      PROVE  MigrationInv'
    <2>1. current[p] < Files /\ current[p] = Len(schema)
        BY <1>2, <1>6 DEF recordMigration, MayRecord, nextVersion, MigrationInv,
                          CurrentKnown, SchemaRecorded
    <2>2. \A q \in Process \ {p} : ~Pending(q, current[p] + 1)
        BY <1>6 DEF recordMigration, MigrationInv, PendingApart, Pending, nextVersion
    <2>3. QED
        BY <1>2, <1>6, <2>1, <2>2, MoveKeeps DEF recordMigration, Phase
<1>7. ASSUME NEW p \in Process, commitMigration(p) \/ commitUnanswered(p)
      PROVE  MigrationInv'
    BY <1>7, CommitKeeps DEF commitMigration, commitUnanswered, Leave, Enter
<1>8. ASSUME NEW p \in Process, migrationRefused(p) \/ startFails(p) \/ stop(p)
      PROVE  MigrationInv'
    BY <1>2, <1>8, MoveKeeps DEF migrationRefused, startFails, stop, Leave, Phase
<1>9. ASSUME NEW p \in Process, start(p)
      PROVE  MigrationInv'
    <2>1. Len(schema) = Files
        BY <1>2, <1>9, MigrationsAssumption DEF start, Finished
    <2>2. QED
        BY <1>2, <1>9, <2>1, MoveKeeps DEF start, Finished, Leave, Phase
<1>10. ASSUME NEW p \in Process, connectionLost(p)
      PROVE  MigrationInv'
    <2>1. Len(schema) = Files /\ \A q \in Process \ {p} : ~Listening(q)
        BY <1>10 DEF connectionLost, Serving, MigrationInv, ServesFullSchema, OneServer, Listening
    <2>2. QED
        BY <1>2, <1>10, <2>1, MoveKeeps DEF connectionLost, Phase
<1>11. QED
    BY <1>1, <1>3, <1>4, <1>5, <1>6, <1>7, <1>8, <1>9, <1>10
       DEF MigrationNext, StartNext, Progress

-----------------------------------------------------------------------------

\* schema_migrations and the schema stay in step (Database::init), a server serves
\* on the full schema only, and one at a time (main.cpp).
THEOREM SchemaStaysRecorded ==
    MigrationSpec => [](SchemaRecorded /\ ServesFullSchema /\ OneServer)
<1>1. MigrationInv => SchemaRecorded /\ ServesFullSchema /\ OneServer
    BY DEF MigrationInv
<1>2. QED
    BY MigrationInitInv, MigrationStep, <1>1, PTL DEF MigrationSpec

=============================================================================
