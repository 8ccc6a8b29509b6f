-------------------------- MODULE DataLimitProofs ---------------------------
(***************************************************************************)
(* Proofs about DataLimit, for any number of SIMs and interfaces, any      *)
(* period, any limits and any bounds on time, traffic and events:          *)
(* mdcollectd never counts too much for a day, and limit_guard can always  *)
(* give back what it has cut.                                              *)
(***************************************************************************)
EXTENDS DataLimit, FiniteSetTheorems, TLAPS

\* An interface for each day.
Picks == [Days -> Ifaces]

\* What database D has, or will have, in the row of today under f's interface:
\* the row, or the samples of today that a pass writes to it.
TopRow(D, s, f) ==
    LET sampled == IF D.today = today THEN D.cur[s] ELSE 0
        row == Rows(D, s, f)[today]
    IN  IF row > sampled THEN row ELSE sampled

\* The data the next pass of mdcollectd will find.
Unsampled(s) == IF s = gpio THEN Sampled(counter, col.prev) ELSE 0

\* A database has nothing from the future.
Dated(D) ==
    /\ D.today <= today
    /\ \A s \in Sims, i \in Ifaces, d \in Days : d > today => D.days[s][i][d] = NoRow

\* The rows up to any day are covered by real use up to that day.
Covered(D) ==
    \A s \in Sims, f \in Picks, d \in Days :
        Total(Rows(D, s, f), 0 .. d) <= Used(s, 0 .. d)

\* So are the rows before today, today's samples and what is still to sample.
Accounted ==
    \A s \in Sims, f \in Picks :
        Total(Rows(db, s, f), 0 .. today - 1) + TopRow(db, s, f) + Unsampled(s)
            <= Used(s, 0 .. today)

\* After a reboot there is nothing to sample, and the backup is the database.
Restorable ==
    \A s \in Sims, f \in Picks :
        Total(Rows(backup, s, f), 0 .. today - 1) + TopRow(backup, s, f)
            <= Used(s, 0 .. today)

SavedInv == Dated(backup) /\ Covered(backup) /\ Restorable

CountInv == Dated(db) /\ Covered(db) /\ Accounted /\ SavedInv

\* limit_guard counts in every pass: it is not past a cut of this period.
Counting ==
    \/ db.row[gpio].time <= WindowStart
    \/ guard.lim > db.row[gpio].lmt

\* A process that has made the connection legal before its first pass past a
\* cut has no such pass.
Legal == ~owed /\ guard.legalized /\ guard.first => Counting

GuardInv == GivenBack /\ Legal

-----------------------------------------------------------------------------
(* Sums over days.                                                         *)

Table == [Days -> Nat \cup {NoRow}]

Units(f, D) == UNION {{d} \X (1 .. f[d]) : d \in D}

Positive(n) == IF n > 0 THEN n ELSE 0

LEMMA DaysType == Days = 0 .. MaxDay /\ MaxDay \in Nat /\ Days \subseteq Nat
                  /\ IsFiniteSet(Days)
  BY LimitAssumption, FS_Interval DEF Days

\* A total is a number.
LEMMA TotalType ==
    ASSUME NEW f \in Table, NEW D \in SUBSET Days
    PROVE  IsFiniteSet(Units(f, D)) /\ Total(f, D) \in Nat
           /\ Total(f, D) = Cardinality(Units(f, D))
<1>1. IsFiniteSet(D)
  BY DaysType, FS_Subset
<1> DEFINE F == {{d} \X (1 .. f[d]) : d \in D}
           g == [d \in D |-> {d} \X (1 .. f[d])]
<1>2. g \in Surjection(D, F)
  BY DEF Surjection
<1>3. IsFiniteSet(F)
  <2> HIDE DEF F, g
  <2> QED BY <1>1, <1>2, FS_Surjection
<1>4. ASSUME NEW T \in F PROVE IsFiniteSet(T)
  <2>1. PICK d \in D : T = {d} \X (1 .. f[d])
    BY <1>4
  <2>2. f[d] \in Int
    BY DEF Table, NoRow
  <2>3. IsFiniteSet(1 .. f[d])
    BY <2>2, FS_Interval
  <2>4. IsFiniteSet({d})
    BY FS_Singleton
  <2> QED
    BY <2>1, <2>3, <2>4, FS_Product
<1>5. IsFiniteSet(UNION F)
  <2> HIDE DEF F
  <2> QED BY <1>3, <1>4, FS_UNION
<1>6. UNION F = Units(f, D)
  BY DEF Units
<1>7. Total(f, D) = Cardinality(Units(f, D))
  BY DEF Total, Units
<1> HIDE DEF F
<1> QED
  BY <1>5, <1>6, <1>7, FS_CardinalityType

\* More days have no less data.
LEMMA TotalMonotone ==
    ASSUME NEW f \in Table, NEW E \in SUBSET Days, NEW D \in SUBSET E
    PROVE  Total(f, D) <= Total(f, E)
<1>1. IsFiniteSet(Units(f, E)) /\ Total(f, E) = Cardinality(Units(f, E))
      /\ Total(f, D) = Cardinality(Units(f, D))
  BY TotalType
<1>2. Units(f, D) \in SUBSET Units(f, E)
  BY DEF Units
<1> QED
  BY <1>1, <1>2, FS_Subset

\* A total depends on the days it is taken over only.
LEMMA TotalAgree ==
    ASSUME NEW f \in Table, NEW g \in Table, NEW D \in SUBSET Days,
           \A d \in D : f[d] = g[d]
    PROVE  Total(f, D) = Total(g, D)
<1>1. {{d} \X (1 .. f[d]) : d \in D} = {{d} \X (1 .. g[d]) : d \in D}
  OBVIOUS
<1> QED
  BY <1>1 DEF Total

\* One day more.
LEMMA TotalStep ==
    ASSUME NEW f \in Table, NEW d \in Days
    PROVE  Total(f, 0 .. d) = Total(f, 0 .. d - 1) + Positive(f[d])
<1>1. 0 .. d \in SUBSET Days /\ 0 .. d - 1 \in SUBSET Days /\ d \in Nat
  BY DaysType
<1>2. f[d] \in Int
  BY DEF Table, NoRow
<1> DEFINE A == Units(f, 0 .. d - 1)
           B == {d} \X (1 .. f[d])
<1>3. IsFiniteSet(A) /\ Total(f, 0 .. d - 1) = Cardinality(A) /\ Cardinality(A) \in Nat
  BY <1>1, TotalType
<1>4. IsFiniteSet(B) /\ Cardinality(B) = Positive(f[d])
  <2>1. IsFiniteSet(1 .. f[d]) /\ Cardinality(1 .. f[d]) = Positive(f[d])
    <3>1. /\ IsFiniteSet(1 .. f[d])
          /\ Cardinality(1 .. f[d]) = IF 1 > f[d] THEN 0 ELSE f[d] - 1 + 1
      BY <1>2, FS_Interval
    <3> QED
      BY <1>2, <3>1 DEF Positive
  <2>2. IsFiniteSet({d}) /\ Cardinality({d}) = 1
    BY FS_Singleton
  <2>3. IsFiniteSet(B) /\ Cardinality(B) = 1 * Cardinality(1 .. f[d])
    BY <2>1, <2>2, FS_Product
  <2>4. Positive(f[d]) \in Int
    BY <1>2 DEF Positive
  <2> QED
    BY <2>1, <2>3, <2>4
<1>5. Units(f, 0 .. d) = A \cup B
  <2>1. 0 .. d = (0 .. d - 1) \cup {d}
    BY <1>1
  <2> QED
    BY <2>1 DEF Units
<1>6. A \cap B = {}
  <2>1. d \notin 0 .. d - 1
    BY <1>1
  <2> QED
    BY <2>1 DEF Units
<1>7. Total(f, 0 .. d) = Cardinality(A \cup B)
  BY <1>1, <1>5, TotalType
<1> HIDE DEF A, B
<1>8. Cardinality(A \cup B) = Cardinality(A) + Cardinality(B) - 0
  BY <1>3, <1>4, <1>6, FS_Union, FS_EmptySet
<1>9. Cardinality(B) \in Int
  BY <1>2, <1>4 DEF Positive
<1> QED
  BY <1>3, <1>4, <1>7, <1>8, <1>9

\* Days without a row add nothing.
LEMMA TotalBeyond ==
    ASSUME NEW f \in Table, NEW e \in Days, NEW d \in Days, e <= d,
           \A x \in Days : x > e => f[x] = NoRow
    PROVE  Total(f, 0 .. d) = Total(f, 0 .. e)
<1>1. 0 .. d \in SUBSET Days /\ 0 .. e \in SUBSET 0 .. d
  BY DaysType
<1>2. ASSUME NEW x \in 0 .. d, x \notin 0 .. e PROVE 1 .. f[x] = {}
  <2>1. x \in Days /\ x > e
    BY <1>1, <1>2, DaysType
  <2> QED
    BY <2>1 DEF NoRow
<1>3. UNION {{x} \X (1 .. f[x]) : x \in 0 .. d}
        = UNION {{x} \X (1 .. f[x]) : x \in 0 .. e}
  BY <1>1, <1>2
<1> QED
  BY <1>3 DEF Total

\* More data on each day is more data.
LEMMA TotalPointwise ==
    ASSUME NEW f \in Table, NEW g \in Table, NEW D \in SUBSET Days,
           \A d \in D : f[d] <= g[d]
    PROVE  Total(f, D) <= Total(g, D)
<1>1. IsFiniteSet(Units(g, D)) /\ Total(g, D) = Cardinality(Units(g, D))
      /\ Total(f, D) = Cardinality(Units(f, D))
  BY TotalType
<1>2. ASSUME NEW d \in D PROVE 1 .. f[d] \subseteq 1 .. g[d]
  <2>1. f[d] \in Int /\ g[d] \in Int
    BY DEF Table, NoRow
  <2> QED
    BY <2>1
<1>3. Units(f, D) \in SUBSET Units(g, D)
  BY <1>2 DEF Units
<1> QED
  BY <1>1, <1>3, FS_Subset

-----------------------------------------------------------------------------
(* Types.                                                                  *)

\* The rows of all interfaces add up to a number.
LEMMA SummedType ==
    ASSUME LimitTypeOK, NEW s \in Sims, NEW D \in SUBSET Days
    PROVE  Summed(s, D) \in Nat
<1>1. IsFiniteSet(D) /\ IsFiniteSet(Ifaces)
  BY DaysType, FS_Subset, LimitAssumption
<1>2. IsFiniteSet(Ifaces \X D)
  BY <1>1, FS_Product
<1> DEFINE F == {{i} \X {d} \X (1 .. db.days[s][i][d]) : i \in Ifaces, d \in D}
           g == [x \in Ifaces \X D |-> {x[1]} \X {x[2]} \X (1 .. db.days[s][x[1]][x[2]])]
<1>3. g \in Surjection(Ifaces \X D, F)
  <2>1. g \in [Ifaces \X D -> F]
    OBVIOUS
  <2>2. ASSUME NEW T \in F PROVE \E x \in Ifaces \X D : g[x] = T
    <3>1. PICK i \in Ifaces, d \in D : T = {i} \X {d} \X (1 .. db.days[s][i][d])
      BY <2>2
    <3>2. <<i, d>> \in Ifaces \X D /\ g[<<i, d>>] = T
      BY <3>1
    <3> QED
      BY <3>2
  <2> HIDE DEF F, g
  <2> QED
    BY <2>1, <2>2 DEF Surjection
<1>4. IsFiniteSet(F)
  <2> HIDE DEF F, g
  <2> QED BY <1>2, <1>3, FS_Surjection
<1>5. ASSUME NEW T \in F PROVE IsFiniteSet(T)
  <2>1. PICK i \in Ifaces, d \in D : T = {i} \X {d} \X (1 .. db.days[s][i][d])
    BY <1>5
  <2>2. db.days[s][i][d] \in Int
    BY DEF LimitTypeOK, Database, NoRow
  <2> DEFINE U == 1 .. db.days[s][i][d]
  <2>3. IsFiniteSet(U)
    BY <2>2, FS_Interval
  <2> DEFINE h == [u \in U |-> <<i, d, u>>]
  <2>4. h \in Surjection(U, T)
    <3>1. ASSUME NEW t \in T PROVE \E u \in U : h[u] = t
      BY <2>1, <3>1
    <3>2. h \in [U -> T]
      BY <2>1
    <3> HIDE DEF h, U
    <3> QED
      BY <3>1, <3>2 DEF Surjection
  <2> HIDE DEF h, U
  <2> QED
    BY <2>3, <2>4, FS_Surjection
<1>6. IsFiniteSet(UNION F)
  <2> HIDE DEF F
  <2> QED BY <1>4, <1>5, FS_UNION
<1>7. Summed(s, D) = Cardinality(UNION F)
  BY DEF Summed
<1> HIDE DEF F
<1> QED
  BY <1>6, <1>7, FS_CardinalityType

\* The day and the tables.
LEMMA TablesType ==
    ASSUME LimitTypeOK
    PROVE  /\ today \in Days /\ today \in Nat
           /\ \A s \in Sims : real[s] \in Table
           /\ \A s \in Sims : Counted(s) \in Nat
<1>1. today \in Days
  BY DEF LimitTypeOK
<1>2. \A s \in Sims : real[s] \in Table
  BY DEF LimitTypeOK, Table
<1>3. ASSUME NEW s \in Sims PROVE Counted(s) \in Nat
  BY SummedType DEF Counted
<1> QED
  BY <1>1, <1>2, <1>3, DaysType

\* One row for each day is a table, and its row of day d is the one of f[d].
LEMMA RowsType ==
    ASSUME NEW D \in Database, NEW s \in Sims, NEW f \in Picks
    PROVE  /\ Rows(D, s, f) \in Table
           /\ \A d \in Days : /\ Rows(D, s, f)[d] = D.days[s][f[d]][d]
                              /\ Rows(D, s, f)[d] \in Nat \cup {-1}
                              /\ f[d] \in Ifaces
<1>1. \A d \in Days : f[d] \in Ifaces /\ D.days[s][f[d]][d] \in Nat \cup {-1}
  BY DEF Picks, Database, NoRow
<1> QED
  BY <1>1 DEF Rows, Table, NoRow

\* A sample is a number: counters that went down count from zero.
LEMMA SampledType ==
    ASSUME NEW c \in Nat, NEW prev \in Nat \cup {-1}
    PROVE  Sampled(c, prev) \in Nat /\ Sampled(c, prev) <= c
BY DEF Sampled

LEMMA FreshType ==
    /\ NoDb \in Database
    /\ \A i \in Ifaces : FreshCol(i) \in [iface : Ifaces, prev : Nat \cup {-1},
                                         day : Days \cup {-1}, saving : BOOLEAN]
    /\ \A l \in Limits : FreshGuard(l) \in [lim : Limits, first : BOOLEAN,
                                           legalized : BOOLEAN]
<1>1. 0 \in Days
  BY DaysType
<1> QED
  BY <1>1 DEF NoDb, Database, FreshCol, FreshGuard, NoRow

\* The environment and sim_switch keep the types.
LEMMA EnvironmentType ==
    ASSUME LimitTypeOK,
           Midnight \/ Traffic \/ Reconnect \/ SwitchSim \/ Services \/ Reboot
    PROVE  LimitTypeOK'
<1> USE LimitAssumption DEF LimitTypeOK
<1>1. CASE Midnight
  BY <1>1, DaysType DEF Midnight
<1>2. CASE Traffic
  <2>1. today \in Days
    BY TablesType
  <2> QED
    BY <1>2, <2>1 DEF Traffic
<1>3. CASE Reconnect
  BY <1>3 DEF Reconnect, Event
<1>4. CASE SwitchSim
  BY <1>4 DEF SwitchSim, Event
<1>5. CASE Services
  BY <1>5, FreshType DEF Services
<1>6. CASE Reboot
  <2>1. limit[gpio] \in Limits
    OBVIOUS
  <2>2. guard' \in [lim : Limits, first : BOOLEAN, legalized : BOOLEAN]
    BY <1>6, <2>1, FreshType DEF Reboot
  <2>3. events' \in 0 .. MaxEvents
    BY <1>6 DEF Reboot, Event
  <2> QED
    BY <1>6, <2>2, <2>3, FreshType DEF Reboot
<1> QED
  BY <1>1, <1>2, <1>3, <1>4, <1>5, <1>6

LEMMA SetLimitType ==
    ASSUME LimitTypeOK, NEW s \in Sims, NEW l \in Limits, SetLimit(s, l)
    PROVE  LimitTypeOK'
<1>1. limit' \in [Sims -> Limits] /\ gpio \in Sims
  BY DEF SetLimit, LimitTypeOK
<1>2. guard' \in [lim : Limits, first : BOOLEAN, legalized : BOOLEAN]
  BY <1>1, FreshType DEF SetLimit
<1>3. events' \in 0 .. MaxEvents
  BY LimitAssumption DEF SetLimit, Event, LimitTypeOK
<1> QED
  BY <1>1, <1>2, <1>3 DEF SetLimit, LimitTypeOK

\* What a pass of mdcollectd writes: the row of today is the old one or the
\* sum of the samples so far, and the sample of this pass is added to them.
LEMMA Collected ==
    ASSUME LimitTypeOK, Collect
    PROVE  \E cur \in [Sims -> Nat], new \in Nat \cup {NoRow} :
             /\ cur = IF db.today = today THEN db.cur ELSE [t \in Sims |-> 0]
             /\ new \in {cur[gpio], db.days[gpio][iface][today]}
             /\ db'.days = [db.days EXCEPT ![gpio][iface][today] = new]
             /\ db'.today = today /\ db'.row = db.row /\ db'.on = TRUE
             /\ db'.cur = [cur EXCEPT ![gpio] = @ + Sampled(counter, col.prev)]
             /\ db' \in Database
             /\ col'.prev = counter
             /\ col' \in [iface : Ifaces, prev : Nat \cup {-1},
                          day : Days \cup {-1}, saving : BOOLEAN]
             /\ backup' \in {NoDb, backup}
             /\ UNCHANGED <<today, real, gpio, iface, up, over, counter, limit,
                            guard, owed, events>>
<1> DEFINE cur == IF db.today = today THEN db.cur ELSE [t \in Sims |-> 0]
           old == db.days[gpio][iface][today]
           new == IF (today # col.day) = (old = NoRow) THEN cur[gpio] ELSE old
           save == col.prev # -1 \/ (today # col.day /\ old = NoRow /\ col.day # -1)
<1>1. /\ db' = [db EXCEPT !.on = TRUE, !.days[gpio][iface][today] = new,
                          !.today = today,
                          !.cur = [cur EXCEPT ![gpio] =
                                      @ + Sampled(counter, col.prev)]]
      /\ col' = [iface |-> iface, prev |-> counter, day |-> today, saving |-> save]
      /\ backup' = IF save THEN NoDb ELSE backup
      /\ UNCHANGED <<today, real, gpio, iface, up, over, counter, limit, guard,
                     owed, events>>
  BY DEF Collect
<1>2. /\ today \in Days /\ gpio \in Sims /\ iface \in Ifaces /\ counter \in Nat /\ db \in Database
      /\ Sampled(counter, col.prev) \in Nat
  BY TablesType, SampledType DEF LimitTypeOK
<1>3. cur \in [Sims -> Nat] /\ old \in Nat \cup {NoRow}
  BY <1>2 DEF Database
<1> HIDE DEF cur, old
<1>4. new \in {cur[gpio], old} /\ new \in Nat \cup {NoRow} /\ save \in BOOLEAN
  BY <1>2, <1>3
<1> HIDE DEF new, save
<1>5. /\ db'.days = [db.days EXCEPT ![gpio][iface][today] = new]
      /\ db'.today = today /\ db'.row = db.row /\ db'.on = TRUE
      /\ db'.cur = [cur EXCEPT ![gpio] = @ + Sampled(counter, col.prev)]
      /\ db' = [on |-> db'.on, days |-> db'.days, row |-> db'.row,
                today |-> db'.today, cur |-> db'.cur]
  BY <1>1, <1>2 DEF Database
<1>6. db'.cur \in [Sims -> Nat]
  BY <1>2, <1>3, <1>5
<1>7. db'.days \in [Sims -> [Ifaces -> [Days -> Nat \cup {NoRow}]]]
  BY <1>2, <1>4, <1>5 DEF Database
<1>8. db' \in Database
  BY <1>2, <1>5, <1>6, <1>7 DEF Database
<1>9. col'.prev = counter /\ backup' \in {NoDb, backup}
      /\ col' \in [iface : Ifaces, prev : Nat \cup {-1}, day : Days \cup {-1},
                   saving : BOOLEAN]
  BY <1>1, <1>2, <1>4
<1> QED
  BY <1>1, <1>3, <1>4, <1>5, <1>8, <1>9 DEF cur, old

LEMMA CollectorType ==
    ASSUME LimitTypeOK, Collect \/ FindIface \/ SaveDone
    PROVE  LimitTypeOK'
<1>1. CASE Collect
  BY <1>1, Collected, FreshType, ZenonT(60) DEF LimitTypeOK
<1>2. CASE SaveDone
  BY <1>2 DEF SaveDone, LimitTypeOK
<1>3. CASE FindIface
  BY <1>3 DEF FindIface, LimitTypeOK
<1> QED
  BY <1>1, <1>2, <1>3

\* limit_guard touches the rows of cuts only, and the counters only where it
\* makes the connection anew.
LEMMA Guarded ==
    ASSUME LimitTypeOK, GuardPass
    PROVE  /\ db'.days = db.days /\ db'.cur = db.cur /\ db'.today = db.today
           /\ db' \in Database
           /\ counter' \in {counter, 0}
           /\ up' \in BOOLEAN /\ over' \in BOOLEAN
           /\ guard' \in [lim : Limits, first : BOOLEAN, legalized : BOOLEAN]
           /\ UNCHANGED <<today, real, gpio, iface, limit, backup, col, owed, events>>
<1>1. Counted(gpio) \in Nat /\ today + 1 \in Nat
  BY TablesType DEF LimitTypeOK
<1>2. PICK n \in Nat : n = Counted(gpio)
  BY <1>1
<1>3. \/ db' = db
      \/ db' = [db EXCEPT !.row[gpio] = [time |-> today + 1, lmt |-> n]]
  BY <1>2 DEF GuardPass
<1>4. /\ db'.days = db.days /\ db'.cur = db.cur /\ db'.today = db.today
      /\ db' \in Database
  <2>1. CASE db' = db
    BY <2>1 DEF LimitTypeOK
  <2>2. CASE db' = [db EXCEPT !.row[gpio] = [time |-> today + 1, lmt |-> n]]
    <3>1. db \in Database /\ gpio \in Sims
      BY DEF LimitTypeOK
    <3> QED
      BY <1>1, <2>2, <3>1 DEF Database
  <2> QED
    BY <1>3, <2>1, <2>2
<1>5. /\ counter' \in {counter, 0} /\ up' \in BOOLEAN /\ over' \in BOOLEAN
      /\ guard' \in [lim : Limits, first : BOOLEAN, legalized : BOOLEAN]
  BY DEF GuardPass, CutIsIllegal, LimitTypeOK
<1>6. UNCHANGED <<today, real, gpio, iface, limit, backup, col, owed, events>>
  BY DEF GuardPass
<1> QED
  BY <1>4, <1>5, <1>6

LEMMA TypeInit == Init => LimitTypeOK
<1> SUFFICES ASSUME Init PROVE LimitTypeOK
  OBVIOUS
<1>1. today \in Days /\ events \in 0 .. MaxEvents
  BY LimitAssumption, DaysType DEF Init
<1>2. limit \in [Sims -> Limits] /\ gpio \in Sims
  BY DEF Init
<1>3. guard \in [lim : Limits, first : BOOLEAN, legalized : BOOLEAN]
  BY <1>2, FreshType DEF Init
<1> QED
  BY <1>1, <1>2, <1>3, FreshType DEF Init, LimitTypeOK

LEMMA TypeNext == LimitTypeOK /\ [Next]_vars => LimitTypeOK'
<1> SUFFICES ASSUME LimitTypeOK, [Next]_vars PROVE LimitTypeOK'
  OBVIOUS
<1>1. CASE GuardPass
  BY <1>1, Guarded DEF LimitTypeOK
<1>2. CASE UNCHANGED vars
  BY <1>2 DEF vars, LimitTypeOK
<1> QED
  BY <1>1, <1>2, EnvironmentType, SetLimitType, CollectorType DEF Next

-----------------------------------------------------------------------------
(* mdcollectd counts nothing twice.                                        *)

\* The numbers the invariant is about.
LEMMA CountType ==
    ASSUME LimitTypeOK, NEW s \in Sims
    PROVE  /\ \A D \in SUBSET Days : Used(s, D) \in Nat
           /\ \A d \in Days : 0 .. d \in SUBSET Days /\ 0 .. d - 1 \in SUBSET Days
           /\ Unsampled(s) \in Nat
<1>1. \A D \in SUBSET Days : Used(s, D) \in Nat
  BY TablesType, TotalType DEF Used
<1>2. \A d \in Days : 0 .. d \in SUBSET Days /\ 0 .. d - 1 \in SUBSET Days
  BY DaysType
<1>3. Unsampled(s) \in Nat
  BY SampledType DEF Unsampled, LimitTypeOK
<1> QED
  BY <1>1, <1>2, <1>3

LEMMA RowsCount ==
    ASSUME LimitTypeOK, NEW s \in Sims, NEW f \in Picks
    PROVE  /\ \A D \in SUBSET Days : /\ Total(Rows(db, s, f), D) \in Nat
                                     /\ Total(Rows(backup, s, f), D) \in Nat
           /\ TopRow(db, s, f) \in Nat /\ TopRow(backup, s, f) \in Nat
<1>1. db \in Database /\ backup \in Database /\ today \in Days
  BY DEF LimitTypeOK
<1>2. \A D \in SUBSET Days : /\ Total(Rows(db, s, f), D) \in Nat
                             /\ Total(Rows(backup, s, f), D) \in Nat
  BY <1>1, RowsType, TotalType
<1>3. /\ Rows(db, s, f)[today] \in Nat \cup {-1} /\ db.cur[s] \in Nat
      /\ Rows(backup, s, f)[today] \in Nat \cup {-1} /\ backup.cur[s] \in Nat
  <2>1. db.cur[s] \in Nat /\ backup.cur[s] \in Nat
    BY <1>1 DEF Database
  <2> QED
    BY <1>1, <2>1, RowsType
<1> QED
  BY <1>2, <1>3 DEF TopRow

\* An empty database counts nothing.
LEMMA NoDbCounts ==
    ASSUME LimitTypeOK
    PROVE  /\ Dated(NoDb)
           /\ \A s \in Sims, f \in Picks, D \in SUBSET Days : Total(Rows(NoDb, s, f), D) = 0
           /\ \A s \in Sims, f \in Picks : TopRow(NoDb, s, f) = 0
<1>0. today \in Days /\ today \in Nat
  BY TablesType
<1>1. Dated(NoDb)
  BY <1>0 DEF Dated, NoDb
<1>2. ASSUME NEW s \in Sims, NEW f \in Picks, NEW D \in SUBSET Days
      PROVE  Total(Rows(NoDb, s, f), D) = 0
  <2>1. \A d \in D : Rows(NoDb, s, f)[d] = -1
    BY DEF NoDb, NoRow, Rows, Picks
  <2>2. UNION {{d} \X (1 .. Rows(NoDb, s, f)[d]) : d \in D} = {}
    BY <2>1
  <2> QED
    BY <2>2, FS_EmptySet DEF Total
<1>3. ASSUME NEW s \in Sims, NEW f \in Picks PROVE TopRow(NoDb, s, f) = 0
  BY <1>0 DEF TopRow, NoDb, NoRow, Rows, Picks
<1> QED
  BY <1>1, <1>2, <1>3

\* The backup is kept, is the database, or is lost.
LEMMA SavedKept ==
    ASSUME LimitTypeOK, CountInv, UNCHANGED <<today, real>>,
           backup' \in {backup, db, NoDb}
    PROVE  SavedInv'
<1>1. today' = today /\ today \in Days /\ today \in Nat
  BY TablesType
<1>2. \A s \in Sims : \A D : Used(s, D)' = Used(s, D)
  BY DEF Used
<1>3. Dated(backup)'
  <2>1. Dated(backup) /\ Dated(db) /\ Dated(NoDb)
    BY NoDbCounts DEF CountInv, SavedInv
  <2>2. CASE backup' = backup
    BY <1>1, <2>1, <2>2 DEF Dated
  <2>3. CASE backup' = db
    BY <1>1, <2>1, <2>3 DEF Dated
  <2>4. CASE backup' = NoDb
    BY <1>1, <2>1, <2>4 DEF Dated
  <2> QED
    BY <2>2, <2>3, <2>4
<1>4. Covered(backup)'
  <2>1. ASSUME NEW s \in Sims, NEW f \in Picks, NEW d \in Days
        PROVE  Total(Rows(NoDb, s, f), 0 .. d) <= Used(s, 0 .. d)
    <3>1. 0 .. d \in SUBSET Days
      BY CountType
    <3>2. Used(s, 0 .. d) \in Nat
      BY <3>1, CountType
    <3>3. Total(Rows(NoDb, s, f), 0 .. d) = 0
      BY <3>1, NoDbCounts
    <3> QED
      BY <3>2, <3>3
  <2> QED
    BY <1>2, <2>1 DEF CountInv, SavedInv, Covered
<1>5. Restorable'
  <2> SUFFICES ASSUME NEW s \in Sims, NEW f \in Picks
               PROVE  Total(Rows(backup', s, f), 0 .. today - 1) + TopRow(backup, s, f)'
                        <= Used(s, 0 .. today)
    BY <1>1, <1>2 DEF Restorable
  <2>1. /\ Total(Rows(db, s, f), 0 .. today - 1) + TopRow(db, s, f) + Unsampled(s)
              <= Used(s, 0 .. today)
        /\ Total(Rows(backup, s, f), 0 .. today - 1) + TopRow(backup, s, f)
              <= Used(s, 0 .. today)
    BY DEF CountInv, SavedInv, Accounted, Restorable
  <2>2. 0 .. today \in SUBSET Days /\ 0 .. today - 1 \in SUBSET Days
    BY <1>1, CountType
  <2>3. /\ Total(Rows(db, s, f), 0 .. today - 1) \in Nat
        /\ Total(Rows(backup, s, f), 0 .. today - 1) \in Nat
        /\ Used(s, 0 .. today) \in Nat
        /\ TopRow(db, s, f) \in Nat /\ Unsampled(s) \in Nat
    BY <2>2, CountType, RowsCount
  <2>4. TopRow(NoDb, s, f) = 0 /\ Total(Rows(NoDb, s, f), 0 .. today - 1) = 0
    BY <2>2, NoDbCounts
  <2>5. \/ TopRow(backup, s, f)' = TopRow(backup, s, f) /\ Rows(backup', s, f) = Rows(backup, s, f)
        \/ TopRow(backup, s, f)' = TopRow(db, s, f) /\ Rows(backup', s, f) = Rows(db, s, f)
        \/ TopRow(backup, s, f)' = TopRow(NoDb, s, f) /\ Rows(backup', s, f) = Rows(NoDb, s, f)
    BY <1>1 DEF TopRow, Rows
  <2> QED
    BY <2>1, <2>3, <2>4, <2>5
<1> QED
  BY <1>3, <1>4, <1>5 DEF SavedInv

\* Steps that change neither the time nor the use: the database is kept, with
\* no more left to sample, or restored with nothing left to sample.
LEMMA CountKept ==
    ASSUME LimitTypeOK, LimitTypeOK', CountInv, UNCHANGED <<today, real>>,
           \/ /\ db'.days = db.days /\ db'.cur = db.cur /\ db'.today = db.today
              /\ \A s \in Sims : Unsampled(s)' <= Unsampled(s)
           \/ db' = backup /\ \A s \in Sims : Unsampled(s)' = 0,
           backup' \in {backup, db, NoDb}
    PROVE  CountInv'
<1>1. today' = today /\ today \in Days /\ today \in Nat
  BY TablesType
<1>2. \A s \in Sims : \A D : Used(s, D)' = Used(s, D)
  BY DEF Used
<1>3. Dated(db)'
  BY <1>1 DEF CountInv, SavedInv, Dated
<1>4. Covered(db)'
  BY <1>2 DEF CountInv, SavedInv, Covered, Rows
<1>5. Accounted'
  <2> SUFFICES ASSUME NEW s \in Sims, NEW f \in Picks
               PROVE  Total(Rows(db', s, f), 0 .. today - 1) + TopRow(db, s, f)' + Unsampled(s)'
                        <= Used(s, 0 .. today)
    BY <1>1, <1>2 DEF Accounted
  <2>1. /\ Total(Rows(db, s, f), 0 .. today - 1) + TopRow(db, s, f) + Unsampled(s)
              <= Used(s, 0 .. today)
        /\ Total(Rows(backup, s, f), 0 .. today - 1) + TopRow(backup, s, f)
              <= Used(s, 0 .. today)
    BY DEF CountInv, SavedInv, Accounted, Restorable
  <2>2. 0 .. today \in SUBSET Days /\ 0 .. today - 1 \in SUBSET Days
    BY <1>1, CountType
  <2>3. /\ Total(Rows(db, s, f), 0 .. today - 1) \in Nat
        /\ Total(Rows(backup, s, f), 0 .. today - 1) \in Nat
        /\ Used(s, 0 .. today) \in Nat /\ TopRow(backup, s, f) \in Nat
        /\ TopRow(db, s, f) \in Nat /\ Unsampled(s) \in Nat
    BY <2>2, CountType, RowsCount
  <2>4. Unsampled(s)' \in Nat
    BY SampledType DEF Unsampled, LimitTypeOK
  <2>5. \/ TopRow(db, s, f)' = TopRow(db, s, f) /\ Rows(db', s, f) = Rows(db, s, f)
           /\ Unsampled(s)' <= Unsampled(s)
        \/ TopRow(db, s, f)' = TopRow(backup, s, f) /\ Rows(db', s, f) = Rows(backup, s, f)
           /\ Unsampled(s)' = 0
    BY <1>1 DEF TopRow, Rows
  <2> QED
    BY <2>1, <2>3, <2>4, <2>5
<1> QED
  BY <1>3, <1>4, <1>5, SavedKept DEF CountInv

\* Midnight: the samples of the day that ended are in its row or forgotten.
LEMMA MidnightCounts ==
    ASSUME LimitTypeOK, LimitTypeOK', CountInv, Midnight
    PROVE  CountInv'
<1>0. db \in Database /\ backup \in Database
  BY DEF LimitTypeOK
<1>1. today' = today + 1 /\ today \in Days /\ today \in Nat /\ today' \in Days
  BY TablesType DEF Midnight, LimitTypeOK
<1>2. /\ UNCHANGED <<real, gpio, counter, db, backup, col>>
      /\ \A s \in Sims : \A D : Used(s, D)' = Used(s, D)
      /\ \A s \in Sims : Unsampled(s)' = Unsampled(s)
  BY DEF Midnight, Used, Unsampled
<1>3. Dated(db)' /\ Dated(backup)'
  <2>1. /\ db.today \in Int /\ backup.today \in Int /\ \A d \in Days : d \in Int
    BY DaysType DEF LimitTypeOK, Database
  <2>2. Dated(db) /\ Dated(backup)
    BY DEF CountInv, SavedInv
  <2>3. \A d \in Days : d > today' => d > today
    BY <1>1, <2>1
  <2>4. db.today <= today' /\ backup.today <= today'
    BY <1>1, <2>1, <2>2 DEF Dated
  <2> QED
    BY <1>2, <2>2, <2>3, <2>4 DEF Dated
<1>4. Covered(db)' /\ Covered(backup)'
  BY <1>2 DEF CountInv, SavedInv, Covered
<1>5. ASSUME NEW s \in Sims, NEW f \in Picks
      PROVE  /\ Total(Rows(db, s, f), 0 .. today) + TopRow(db, s, f)' + Unsampled(s)
                   <= Used(s, 0 .. today + 1)
             /\ Total(Rows(backup, s, f), 0 .. today) + TopRow(backup, s, f)'
                   <= Used(s, 0 .. today + 1)
  <2>1. Used(s, 0 .. today) <= Used(s, 0 .. today + 1)
        /\ Used(s, 0 .. today) \in Nat /\ Used(s, 0 .. today + 1) \in Nat
    <3>1. /\ 0 .. today + 1 \in SUBSET Days
          /\ 0 .. today \in SUBSET (0 .. today + 1)
      BY <1>1, CountType
    <3>2. real[s] \in Table
      BY TablesType
    <3>3. Total(real[s], 0 .. today) <= Total(real[s], 0 .. today + 1)
      BY <3>1, <3>2, TotalMonotone
    <3> QED
      BY <1>1, <3>1, <3>3, CountType DEF Used
  <2>2. TopRow(db, s, f)' = 0 /\ TopRow(backup, s, f)' = 0
    <3>1. /\ Rows(db, s, f)[today + 1] = -1 /\ Rows(backup, s, f)[today + 1] = -1
          /\ db.today # today + 1 /\ backup.today # today + 1
      <4>1. Dated(db) /\ Dated(backup)
        BY DEF CountInv, SavedInv
      <4>2. today + 1 \in Days /\ today + 1 > today
        BY <1>1
      <4>3. Rows(db, s, f)[today + 1] = -1 /\ Rows(backup, s, f)[today + 1] = -1
        BY <1>0, <4>1, <4>2, RowsType DEF Dated, NoRow
      <4>4. db.today \in Int /\ backup.today \in Int
        BY DaysType DEF LimitTypeOK, Database
      <4> QED
        BY <1>1, <4>1, <4>3, <4>4 DEF Dated
    <3> QED
      BY <1>1, <1>2, <3>1 DEF TopRow
  <2>3. /\ Total(Rows(db, s, f), 0 .. today)
              = Total(Rows(db, s, f), 0 .. today - 1) + Positive(Rows(db, s, f)[today])
        /\ Total(Rows(backup, s, f), 0 .. today)
              = Total(Rows(backup, s, f), 0 .. today - 1)
                + Positive(Rows(backup, s, f)[today])
    BY <1>0, <1>1, RowsType, TotalStep
  <2>4. /\ Positive(Rows(db, s, f)[today]) <= TopRow(db, s, f)
        /\ Positive(Rows(backup, s, f)[today]) <= TopRow(backup, s, f)
        /\ Positive(Rows(db, s, f)[today]) \in Nat
        /\ Positive(Rows(backup, s, f)[today]) \in Nat
    <3>1. /\ Rows(db, s, f)[today] \in Int /\ db.cur[s] \in Nat
          /\ Rows(backup, s, f)[today] \in Int /\ backup.cur[s] \in Nat
      <4>1. db.cur[s] \in Nat /\ backup.cur[s] \in Nat
        BY <1>0 DEF Database
      <4> QED
        BY <1>0, <1>1, <4>1, RowsType
    <3> QED
      BY <3>1 DEF Positive, TopRow
  <2>5. /\ Total(Rows(db, s, f), 0 .. today - 1) \in Nat /\ TopRow(db, s, f) \in Nat
        /\ Total(Rows(backup, s, f), 0 .. today - 1) \in Nat
        /\ TopRow(backup, s, f) \in Nat /\ Unsampled(s) \in Nat
    BY <1>1, CountType, RowsCount
  <2>6. /\ Total(Rows(db, s, f), 0 .. today - 1) + TopRow(db, s, f) + Unsampled(s)
              <= Used(s, 0 .. today)
        /\ Total(Rows(backup, s, f), 0 .. today - 1) + TopRow(backup, s, f)
              <= Used(s, 0 .. today)
    BY DEF CountInv, SavedInv, Accounted, Restorable
  <2> QED
    BY <2>1, <2>2, <2>3, <2>4, <2>5, <2>6, SMTT(30)
<1>6. today' - 1 = today
  BY <1>1
<1>7. Accounted' /\ Restorable'
  BY <1>1, <1>2, <1>5, <1>6 DEF Accounted, Restorable
<1> QED
  BY <1>3, <1>4, <1>7 DEF CountInv, SavedInv

\* Data comes over the connection: at most as much more to sample as was used.
LEMMA TrafficCounts ==
    ASSUME LimitTypeOK, LimitTypeOK', CountInv, Traffic
    PROVE  CountInv'
<1>1. /\ today' = today /\ today \in Days /\ today \in Nat /\ gpio \in Sims
      /\ UNCHANGED <<gpio, db, backup, col>>
      /\ counter' = counter + 1
      /\ real' = [real EXCEPT ![gpio][today] = @ + 1]
  BY TablesType DEF Traffic, LimitTypeOK
<1>2. \A s \in Sims : real[s] \in Table /\ real'[s] \in Table
  BY DEF LimitTypeOK, Table
<1>3. /\ 0 .. today \in SUBSET Days /\ 0 .. today - 1 \in SUBSET Days
      /\ \A d \in Days : 0 .. d \in SUBSET Days
  BY <1>1, DaysType
<1>4. ASSUME NEW s \in Sims, NEW D \in SUBSET Days
      PROVE  Used(s, D) <= Total(real'[s], D) /\ Used(s, D) \in Nat /\ Total(real'[s], D) \in Nat
  <2>1. \A d \in D : real[s][d] <= real'[s][d]
    <3>1. \A d \in D : real[s][d] \in Nat
      BY DEF LimitTypeOK
    <3> QED
      BY <1>1, <3>1 DEF LimitTypeOK
  <2> QED
    BY <1>2, <2>1, TotalPointwise, TotalType DEF Used
<1>5. Total(real'[gpio], 0 .. today) = Used(gpio, 0 .. today) + 1
  <2>1. /\ Total(real[gpio], 0 .. today)
             = Total(real[gpio], 0 .. today - 1) + Positive(real[gpio][today])
        /\ Total(real'[gpio], 0 .. today)
             = Total(real'[gpio], 0 .. today - 1) + Positive(real'[gpio][today])
    BY <1>1, <1>2, TotalStep
  <2>2. \A d \in 0 .. today - 1 : real'[gpio][d] = real[gpio][d]
    <3>1. \A d \in 0 .. today - 1 : d # today
      BY <1>1
    <3> QED
      BY <1>1, <3>1 DEF LimitTypeOK
  <2>3. Total(real'[gpio], 0 .. today - 1) = Total(real[gpio], 0 .. today - 1)
    BY <1>1, <1>2, <1>3, <2>2, TotalAgree
  <2>4. Total(real[gpio], 0 .. today - 1) \in Nat
    BY <1>1, <1>2, <1>3, TotalType
  <2>5. real[gpio][today] \in Nat /\ real'[gpio][today] = real[gpio][today] + 1
    BY <1>1 DEF LimitTypeOK
  <2>6. Positive(real'[gpio][today]) = Positive(real[gpio][today]) + 1
        /\ Positive(real[gpio][today]) \in Nat
    BY <2>5 DEF Positive
  <2> QED
    BY <1>1, <2>1, <2>3, <2>4, <2>6 DEF Used
<1>6. \A s \in Sims : /\ s = gpio => Unsampled(s)' <= Unsampled(s) + 1
                      /\ s # gpio => Unsampled(s)' = Unsampled(s)
  <2>1. counter \in Nat /\ col.prev \in Nat \cup {-1}
    BY DEF LimitTypeOK
  <2>2. Sampled(counter + 1, col.prev) <= Sampled(counter, col.prev) + 1
    BY <2>1 DEF Sampled
  <2> QED
    BY <1>1, <2>2 DEF Unsampled
<1>7. ASSUME NEW s \in Sims, NEW f \in Picks
      PROVE  /\ TopRow(db, s, f)' = TopRow(db, s, f) /\ TopRow(db, s, f) \in Nat
             /\ TopRow(backup, s, f)' = TopRow(backup, s, f) /\ TopRow(backup, s, f) \in Nat
             /\ Total(Rows(db, s, f), 0 .. today - 1) \in Nat
             /\ Total(Rows(backup, s, f), 0 .. today - 1) \in Nat
             /\ Unsampled(s) \in Nat /\ Unsampled(s)' \in Nat
  <2>1. Unsampled(s)' \in Nat
    BY SampledType DEF Unsampled, LimitTypeOK
  <2>2. TopRow(db, s, f)' = TopRow(db, s, f) /\ TopRow(backup, s, f)' = TopRow(backup, s, f)
    BY <1>1 DEF TopRow, Rows
  <2> QED
    BY <1>3, <2>1, <2>2, CountType, RowsCount
<1>8. Dated(db)' /\ Dated(backup)'
  BY <1>1 DEF CountInv, SavedInv, Dated
<1>9. Covered(db)' /\ Covered(backup)'
  <2> SUFFICES ASSUME NEW s \in Sims, NEW f \in Picks, NEW d \in Days
               PROVE  /\ Total(Rows(db, s, f), 0 .. d) <= Total(real'[s], 0 .. d)
                      /\ Total(Rows(backup, s, f), 0 .. d) <= Total(real'[s], 0 .. d)
    BY <1>1 DEF Covered, Used
  <2>1. /\ Used(s, 0 .. d) <= Total(real'[s], 0 .. d)
        /\ Used(s, 0 .. d) \in Nat /\ Total(real'[s], 0 .. d) \in Nat
    BY <1>3, <1>4
  <2>2. Total(Rows(db, s, f), 0 .. d) \in Nat /\ Total(Rows(backup, s, f), 0 .. d) \in Nat
    BY <1>3, RowsCount
  <2>3. /\ Total(Rows(db, s, f), 0 .. d) <= Used(s, 0 .. d)
        /\ Total(Rows(backup, s, f), 0 .. d) <= Used(s, 0 .. d)
    BY DEF CountInv, SavedInv, Covered
  <2> QED
    BY <2>1, <2>2, <2>3
<1>10. Accounted' /\ Restorable'
  <2> SUFFICES ASSUME NEW s \in Sims, NEW f \in Picks
               PROVE  /\ Total(Rows(db, s, f), 0 .. today - 1) + TopRow(db, s, f)
                            + Unsampled(s)' <= Total(real'[s], 0 .. today)
                      /\ Total(Rows(backup, s, f), 0 .. today - 1) + TopRow(backup, s, f)
                            <= Total(real'[s], 0 .. today)
    BY <1>1, <1>7 DEF Accounted, Restorable, Used
  <2>1. /\ Total(Rows(db, s, f), 0 .. today - 1) + TopRow(db, s, f) + Unsampled(s)
              <= Used(s, 0 .. today)
        /\ Total(Rows(backup, s, f), 0 .. today - 1) + TopRow(backup, s, f)
              <= Used(s, 0 .. today)
    BY DEF CountInv, SavedInv, Accounted, Restorable
  <2>2. /\ Used(s, 0 .. today) <= Total(real'[s], 0 .. today)
        /\ Used(s, 0 .. today) \in Nat /\ Total(real'[s], 0 .. today) \in Nat
    BY <1>3, <1>4
  <2>3. CASE s = gpio
    BY <1>5, <1>6, <1>7, <2>1, <2>2, <2>3
  <2>4. CASE s # gpio
    BY <1>6, <1>7, <2>1, <2>2, <2>4
  <2> QED
    BY <2>3, <2>4
<1> QED
  BY <1>8, <1>9, <1>10 DEF CountInv, SavedInv

\* A pass of mdcollectd moves what it samples to the samples of today, and
\* them to the row of today.
LEMMA CollectCounts ==
    ASSUME LimitTypeOK, LimitTypeOK', CountInv, Collect
    PROVE  CountInv'
<1>1. PICK cur \in [Sims -> Nat], new \in Nat \cup {NoRow} :
             /\ cur = IF db.today = today THEN db.cur ELSE [t \in Sims |-> 0]
             /\ new \in {cur[gpio], db.days[gpio][iface][today]}
             /\ db'.days = [db.days EXCEPT ![gpio][iface][today] = new]
             /\ db'.today = today
             /\ db'.cur = [cur EXCEPT ![gpio] = @ + Sampled(counter, col.prev)]
             /\ col'.prev = counter
             /\ backup' \in {NoDb, backup}
             /\ UNCHANGED <<today, real, gpio, counter>>
  BY Collected
<1>2. /\ today' = today /\ today \in Days /\ today \in Nat /\ gpio \in Sims
      /\ \A s \in Sims : \A D : Used(s, D)' = Used(s, D)
  BY <1>1, TablesType DEF Used, LimitTypeOK
<1>3. SavedInv'
  BY <1>1, SavedKept
<1>4. /\ 0 .. today \in SUBSET Days /\ 0 .. today - 1 \in SUBSET Days
      /\ \A d \in Days : 0 .. d \in SUBSET Days /\ d \in Nat
  BY <1>2, DaysType
<1>0. db \in Database /\ db' \in Database /\ iface \in Ifaces
  BY DEF LimitTypeOK
<1>5. \A s \in Sims, f \in Picks : Rows(db, s, f) \in Table /\ Rows(db', s, f) \in Table
  BY <1>0, RowsType
<1>6. /\ \A s \in Sims, i \in Ifaces, d \in Days :
            s # gpio \/ i # iface \/ d # today => db'.days[s][i][d] = db.days[s][i][d]
      /\ db'.days[gpio][iface][today] = new
  <2>1. db.days \in [Sims -> [Ifaces -> [Days -> Nat \cup {NoRow}]]]
    BY <1>0 DEF Database
  <2> QED
    BY <1>0, <1>1, <1>2, <2>1
<1>7. ASSUME NEW s \in Sims, NEW f \in Picks
      PROVE  /\ \A d \in Days : s # gpio \/ d # today =>
                    Rows(db', s, f)[d] = Rows(db, s, f)[d]
             /\ Rows(db', s, f)[today] \in {cur[s], Rows(db, s, f)[today]}
  <2>1. \A d \in Days : /\ Rows(db', s, f)[d] = db'.days[s][f[d]][d]
                        /\ Rows(db, s, f)[d] = db.days[s][f[d]][d]
                        /\ f[d] \in Ifaces
    BY <1>0, RowsType
  <2>2. CASE s = gpio /\ f[today] = iface
    <3>1. Rows(db', s, f)[today] = new /\ Rows(db, s, f)[today] = db.days[gpio][iface][today]
      BY <1>2, <1>6, <2>1, <2>2
    <3> QED
      BY <1>1, <1>6, <2>1, <2>2, <3>1
  <2>3. CASE s # gpio \/ f[today] # iface
    BY <1>2, <1>6, <2>1, <2>3
  <2> QED
    BY <2>2, <2>3
<1>8. ASSUME NEW s \in Sims, NEW f \in Picks
      PROVE  Total(Rows(db', s, f), 0 .. today - 1) = Total(Rows(db, s, f), 0 .. today - 1)
  <2>1. \A d \in 0 .. today - 1 : d \in Days /\ d # today
    BY <1>2, <1>4
  <2>2. \A d \in 0 .. today - 1 : Rows(db', s, f)[d] = Rows(db, s, f)[d]
    BY <1>7, <2>1
  <2> QED
    BY <1>4, <1>5, <2>2, TotalAgree
<1>9. ASSUME NEW s \in Sims, NEW f \in Picks
      PROVE  /\ Total(Rows(db, s, f), 0 .. today - 1) + TopRow(db, s, f) + Unsampled(s)
                   <= Used(s, 0 .. today)
             /\ Total(Rows(db, s, f), 0 .. today - 1) \in Nat
             /\ TopRow(db, s, f) \in Nat /\ Unsampled(s) \in Nat
             /\ Used(s, 0 .. today) \in Nat
  <2>1. Total(Rows(db, s, f), 0 .. today - 1) + TopRow(db, s, f) + Unsampled(s)
            <= Used(s, 0 .. today)
    BY DEF CountInv, Accounted
  <2> QED
    BY <1>4, <2>1, CountType, RowsCount
<1>10. ASSUME NEW s \in Sims, NEW f \in Picks
       PROVE  /\ cur[s] \in Nat /\ cur[s] <= TopRow(db, s, f)
              /\ Rows(db, s, f)[today] \in Nat \cup {-1}
              /\ Rows(db, s, f)[today] <= TopRow(db, s, f)
  <2>1. db.cur[s] \in Nat
    BY <1>0 DEF Database
  <2>2. Rows(db, s, f)[today] \in Nat \cup {-1}
    BY <1>0, <1>2, RowsType
  <2>3. cur[s] = IF db.today = today THEN db.cur[s] ELSE 0
    BY <1>1
  <2> QED
    BY <2>1, <2>2, <2>3 DEF TopRow
<1>11. ASSUME NEW s \in Sims, NEW f \in Picks
       PROVE  /\ Rows(db', s, f)[today] \in Nat \cup {-1}
              /\ Rows(db', s, f)[today] <= TopRow(db, s, f)
  BY <1>7, <1>10
<1>12. ASSUME NEW s \in Sims, NEW f \in Picks
       PROVE  TopRow(db, s, f)' \in Nat
              /\ TopRow(db, s, f)' + Unsampled(s)' <= TopRow(db, s, f) + Unsampled(s)
  <2>1. TopRow(db, s, f)' = IF Rows(db', s, f)[today] > db'.cur[s] THEN Rows(db', s, f)[today]
                         ELSE db'.cur[s]
    BY <1>1, <1>2 DEF TopRow, Rows
  <2>2. CASE s = gpio
    <3>1. Sampled(counter, col.prev) \in Nat /\ counter \in Nat
      BY SampledType DEF LimitTypeOK
    <3>2. Unsampled(s) = Sampled(counter, col.prev)
      BY <2>2 DEF Unsampled
    <3>3. Unsampled(s)' = 0
      BY <1>1, <3>1 DEF Unsampled, Sampled
    <3>4. db'.cur[s] = cur[s] + Sampled(counter, col.prev)
      BY <1>1, <2>2
    <3> QED
      BY <1>9, <1>10, <1>11, <2>1, <2>2, <3>1, <3>2, <3>3, <3>4, SMTT(30)
  <2>3. CASE s # gpio
    <3>1. Unsampled(s) = 0 /\ Unsampled(s)' = 0
      BY <1>1, <2>3 DEF Unsampled
    <3>2. db'.cur[s] = cur[s] /\ Rows(db', s, f)[today] = Rows(db, s, f)[today]
      BY <1>1, <1>2, <1>7, <2>3
    <3> QED
      BY <1>9, <1>10, <2>1, <3>1, <3>2
  <2> QED
    BY <2>2, <2>3
<1>13. Accounted'
  <2> SUFFICES ASSUME NEW s \in Sims, NEW f \in Picks
               PROVE  Total(Rows(db', s, f), 0 .. today - 1) + TopRow(db, s, f)' + Unsampled(s)'
                        <= Used(s, 0 .. today)
    BY <1>2 DEF Accounted
  <2>1. Unsampled(s)' \in Nat
    BY SampledType DEF Unsampled, LimitTypeOK
  <2> QED
    BY <1>8, <1>9, <1>12, <2>1
<1>14. Dated(db)'
  <2>1. \A s \in Sims, i \in Ifaces, d \in Days :
           d > today => db'.days[s][i][d] = db.days[s][i][d]
    <3>1. \A d \in Days : d > today => d # today
      BY <1>2, <1>4
    <3> QED
      BY <1>6, <3>1
  <2> QED
    BY <1>1, <1>2, <2>1 DEF CountInv, Dated
<1>15. Covered(db)'
  <2> SUFFICES ASSUME NEW s \in Sims, NEW f \in Picks, NEW d \in Days
               PROVE  Total(Rows(db', s, f), 0 .. d) <= Used(s, 0 .. d)
    BY <1>2 DEF Covered
  <2>1. CASE d < today
    <3>1. \A e \in 0 .. d : e \in Days /\ e # today
      BY <1>2, <1>4, <2>1
    <3>2. \A e \in 0 .. d : Rows(db', s, f)[e] = Rows(db, s, f)[e]
      BY <1>7, <3>1
    <3>3. Total(Rows(db', s, f), 0 .. d) = Total(Rows(db, s, f), 0 .. d)
      BY <1>4, <1>5, <3>2, TotalAgree
    <3> QED
      BY <3>3 DEF CountInv, Covered
  <2>2. CASE d >= today
    <3>1. \A x \in Days : x > today => Rows(db', s, f)[x] = NoRow
      BY <1>0, <1>2, <1>14, RowsType DEF Dated
    <3>2. Total(Rows(db', s, f), 0 .. d) = Total(Rows(db', s, f), 0 .. today)
      BY <1>2, <1>5, <2>2, <3>1, TotalBeyond
    <3>3. Total(Rows(db', s, f), 0 .. today)
            = Total(Rows(db', s, f), 0 .. today - 1) + Positive(Rows(db', s, f)[today])
      BY <1>2, <1>5, TotalStep
    <3>4. Rows(db', s, f)[today] \in Nat \cup {-1} /\ Rows(db', s, f)[today] <= TopRow(db, s, f)
      BY <1>11
    <3>5. Total(Rows(db', s, f), 0 .. today) <= Used(s, 0 .. today)
      BY <1>8, <1>9, <3>3, <3>4 DEF Positive
    <3>6. Used(s, 0 .. today) <= Used(s, 0 .. d) /\ Used(s, 0 .. d) \in Nat
      <4>1. 0 .. today \in SUBSET (0 .. d) /\ real[s] \in Table
        BY <1>2, <1>4, <2>2, TablesType
      <4> QED
        BY <1>4, <4>1, TotalMonotone, TotalType DEF Used
    <3>7. Total(Rows(db', s, f), 0 .. today) \in Nat
      BY <1>4, <1>5, TotalType
    <3> QED
      BY <1>9, <3>2, <3>5, <3>6, <3>7
  <2> QED
    BY <1>2, <1>4, <2>1, <2>2
<1> QED
  BY <1>3, <1>13, <1>14, <1>15 DEF CountInv

\* A connection made anew, or a fresh mdcollectd, has nothing to sample, or no
\* more than before.
LEMMA NothingToSample ==
    ASSUME LimitTypeOK, NEW s \in Sims
    PROVE  /\ (\E i : col' = FreshCol(i)) => Unsampled(s)' = 0
           /\ counter' = 0 /\ col'.prev = col.prev => Unsampled(s)' <= Unsampled(s)
<1>1. Unsampled(s) \in Nat /\ col.prev \in Nat \cup {-1}
  BY CountType DEF LimitTypeOK
<1>2. (\E i : col' = FreshCol(i)) => Unsampled(s)' = 0
  BY DEF Unsampled, Sampled, FreshCol
<1>3. ASSUME counter' = 0, col'.prev = col.prev PROVE Unsampled(s)' = 0
  BY <1>1, <1>3 DEF Unsampled, Sampled
<1> QED
  BY <1>1, <1>2, <1>3

LEMMA CountNext ==
    ASSUME LimitTypeOK, LimitTypeOK', CountInv, [Next]_vars
    PROVE  CountInv'
<1>0. \A s \in Sims : Unsampled(s) \in Nat
  BY CountType
<1>1. CASE Reconnect \/ SwitchSim
  <2>1. /\ UNCHANGED <<today, real, db, backup, col>> /\ counter' = 0
    BY <1>1 DEF Reconnect, SwitchSim
  <2>2. \A s \in Sims : Unsampled(s)' <= Unsampled(s)
    BY <2>1, NothingToSample
  <2> QED
    BY <2>1, <2>2, CountKept
<1>2. CASE Services
  <2>1. /\ UNCHANGED <<today, real, db>> /\ col' = FreshCol(iface) /\ backup' \in {backup, db}
    BY <1>2 DEF Services
  <2>2. \A s \in Sims : Unsampled(s)' = 0
    BY <2>1, NothingToSample
  <2> QED
    BY <1>0, <2>1, <2>2, CountKept
<1>3. CASE Reboot
  <2>1. UNCHANGED <<today, real, backup>> /\ col' = FreshCol(iface) /\ db' = backup
    BY <1>3 DEF Reboot
  <2>2. \A s \in Sims : Unsampled(s)' = 0
    BY <2>1, NothingToSample
  <2> QED
    BY <2>1, <2>2, CountKept
<1>4. CASE \/ \E s \in Sims, l \in Limits : SetLimit(s, l)
           \/ FindIface \/ SaveDone \/ UNCHANGED vars
  <2>1. /\ UNCHANGED <<today, real, gpio, counter, db>> /\ col'.prev = col.prev
        /\ backup' \in {backup, db}
    BY <1>4 DEF SetLimit, FindIface, SaveDone, vars, LimitTypeOK
  <2>2. \A s \in Sims : Unsampled(s)' = Unsampled(s)
    BY <2>1 DEF Unsampled
  <2> QED
    BY <1>0, <2>1, <2>2, CountKept
<1>5. CASE GuardPass
  <2>1. /\ UNCHANGED <<today, real, gpio, backup, col>> /\ counter' \in {counter, 0}
        /\ db'.days = db.days /\ db'.cur = db.cur /\ db'.today = db.today
    BY <1>5, Guarded
  <2>2. ASSUME NEW s \in Sims PROVE Unsampled(s)' <= Unsampled(s)
    <3>1. CASE counter' = 0
      BY <2>1, <3>1, NothingToSample
    <3>2. CASE counter' = counter
      BY <1>0, <2>1, <3>2 DEF Unsampled
    <3> QED
      BY <2>1, <3>1, <3>2
  <2> QED
    BY <2>1, <2>2, CountKept
<1> QED
  BY <1>1, <1>2, <1>3, <1>4, <1>5, MidnightCounts, TrafficCounts, CollectCounts
     DEF Next

LEMMA CountInit == ASSUME Init, LimitTypeOK PROVE CountInv
<1>1. /\ db = NoDb /\ backup = NoDb /\ col = FreshCol(iface)
  BY DEF Init
<1>2. \A s \in Sims : Unsampled(s) = 0
  BY <1>1 DEF Unsampled, Sampled, FreshCol
<1>3. /\ today \in Days
      /\ \A d \in Days : 0 .. d \in SUBSET Days /\ 0 .. d - 1 \in SUBSET Days
  BY TablesType, DaysType
<1>4. \A s \in Sims, d \in Days : Used(s, 0 .. d) \in Nat
  BY <1>3, CountType
<1>5. /\ Dated(NoDb)
      /\ \A s \in Sims, f \in Picks, d \in Days :
            Total(Rows(NoDb, s, f), 0 .. d) = 0 /\ Total(Rows(NoDb, s, f), 0 .. d - 1) = 0
      /\ \A s \in Sims, f \in Picks : TopRow(NoDb, s, f) = 0
  BY <1>3, NoDbCounts
<1>6. \A s \in Sims, f \in Picks, d \in Days : Total(Rows(NoDb, s, f), 0 .. d) <= Used(s, 0 .. d)
  BY <1>4, <1>5
<1>7. \A s \in Sims, f \in Picks :
         Total(Rows(NoDb, s, f), 0 .. today - 1) + TopRow(NoDb, s, f) + 0
            <= Used(s, 0 .. today)
  BY <1>3, <1>4, <1>5
<1>8. \A s \in Sims, f \in Picks :
         Total(Rows(NoDb, s, f), 0 .. today - 1) + TopRow(NoDb, s, f)
            <= Used(s, 0 .. today)
  BY <1>3, <1>4, <1>5
<1> QED
  BY <1>1, <1>2, <1>5, <1>6, <1>7, <1>8
  DEF CountInv, SavedInv, Covered, Accounted, Restorable

-----------------------------------------------------------------------------
(* limit_guard.                                                            *)

\* Multiples of c grow with the number they are below.
LEMMA MultipleBelow ==
    ASSUME NEW a \in Nat, NEW b \in Nat, NEW c \in Nat \ {0}, a <= b
    PROVE  a - (a % c) <= b - (b % c)
<1>1. /\ a = c * (a \div c) + (a % c) /\ b = c * (b \div c) + (b % c)
      /\ a % c \in 0 .. c - 1 /\ b % c \in 0 .. c - 1
      /\ a \div c \in Nat /\ b \div c \in Nat
  OBVIOUS
<1>2. ASSUME NEW q \in Nat, NEW r \in Nat, q <= r PROVE c * q <= c * r
  BY <1>2
<1>3. ASSUME b \div c + 1 <= a \div c PROVE FALSE
  <2>1. c * (b \div c + 1) <= c * (a \div c)
    BY <1>1, <1>2, <1>3
  <2>2. c * (b \div c + 1) = c * (b \div c) + c
    BY <1>1
  <2>3. c * (b \div c) \in Int /\ c * (a \div c) \in Int
    BY <1>1
  <2> QED
    BY <1>1, <2>1, <2>2, <2>3
<1>4. c * (a \div c) <= c * (b \div c)
  BY <1>1, <1>2, <1>3
<1> QED
  BY <1>1, <1>4

\* The period never moves back.
LEMMA WindowMoves ==
    ASSUME LimitTypeOK, LimitTypeOK', today' >= today
    PROVE  WindowStart \in Int /\ WindowStart' \in Int /\ WindowStart <= WindowStart'
<1>1. today \in Nat /\ today' \in Nat /\ today <= today'
  BY DaysType DEF LimitTypeOK
<1>2. today % Cycle \in Int /\ today' % Cycle \in Int /\ StartDay \in Int
  BY <1>1, LimitAssumption
<1>3. today - (today % Cycle) <= today' - (today' % Cycle)
  BY <1>1, LimitAssumption, MultipleBelow
<1> QED
  BY <1>1, <1>2, <1>3 DEF WindowStart

\* Steps of others than limit_guard that leave it running.
LEMMA LegalKept ==
    ASSUME LimitTypeOK, LimitTypeOK', GuardInv, today' >= today,
           UNCHANGED <<gpio, over, guard, owed>>, db'.row = db.row
    PROVE  GuardInv'
<1>1. WindowStart \in Int /\ WindowStart' \in Int /\ WindowStart <= WindowStart'
  BY WindowMoves
<1>2. db.row[gpio].time \in Int
  BY DEF LimitTypeOK, Database
<1>3. Counting => Counting'
  BY <1>1, <1>2 DEF Counting
<1> QED
  BY <1>3 DEF GuardInv, GivenBack, Legal

LEMMA GuardNext ==
    ASSUME LimitTypeOK, LimitTypeOK', GuardInv, [Next]_vars
    PROVE  GuardInv'
<1>0. today \in Int
  BY DaysType DEF LimitTypeOK
<1>1. CASE Midnight \/ Traffic \/ Reconnect \/ FindIface \/ SaveDone \/ UNCHANGED vars
  <2>1. today' >= today /\ UNCHANGED <<gpio, over, guard, owed, db>>
    BY <1>0, <1>1 DEF Midnight, Traffic, Reconnect, FindIface, SaveDone, vars
  <2> QED
    BY <2>1, LegalKept
<1>2. CASE Collect
  <2>1. today' = today /\ UNCHANGED <<gpio, over, guard, owed>> /\ db'.row = db.row
    BY <1>2, Collected
  <2> QED
    BY <1>0, <2>1, LegalKept
<1>3. CASE SwitchSim
  BY <1>3 DEF SwitchSim, GuardInv, GivenBack, Legal
<1>4. CASE \/ Services \/ Reboot \/ \E s \in Sims, l \in Limits : SetLimit(s, l)
  <2>1. guard'.legalized = FALSE
    BY <1>4 DEF Services, Reboot, SetLimit, FreshGuard
  <2> QED
    BY <2>1 DEF GuardInv, GivenBack, Legal
<1>5. CASE GuardPass
  <2>1. guard \in [lim : Limits, first : BOOLEAN, legalized : BOOLEAN]
        /\ over \in BOOLEAN
    BY DEF LimitTypeOK
  <2>2. UNCHANGED <<today, gpio, owed>> /\ WindowStart' = WindowStart
    BY <1>5 DEF GuardPass, WindowStart
  <2>3. \/ guard' = CutIsIllegal(guard)
        \/ /\ Counting /\ db' = db
           /\ guard' = [guard EXCEPT !.legalized = TRUE] /\ over' = FALSE
        \/ /\ ~Counting /\ guard.first
           /\ guard' = [guard EXCEPT !.first = FALSE]
    BY <1>5 DEF GuardPass, Counting
  <2>4. CASE guard' = CutIsIllegal(guard)
    BY <2>1, <2>4 DEF CutIsIllegal, GuardInv, GivenBack, Legal
  <2>5. CASE /\ Counting /\ db' = db
             /\ guard' = [guard EXCEPT !.legalized = TRUE] /\ over' = FALSE
    BY <2>1, <2>2, <2>5 DEF Counting, GuardInv, GivenBack, Legal
  <2>6. CASE /\ ~Counting /\ guard.first
             /\ guard' = [guard EXCEPT !.first = FALSE]
    BY <2>1, <2>2, <2>6 DEF GuardInv, GivenBack, Legal
  <2> QED
    BY <2>3, <2>4, <2>5, <2>6
<1> QED
  BY <1>1, <1>2, <1>3, <1>4, <1>5 DEF Next

LEMMA GuardInit == Init => GuardInv
  BY DEF Init, FreshGuard, GuardInv, GivenBack, Legal

\* Where the period starts with the month or the week and the window is as
\* long as it, limit_guard counts all the data of the period.
LEMMA AllCounted ==
    ASSUME LimitTypeOK, Dated(db), StartDay = 0, Length >= 2 * Cycle - 1,
           NEW s \in Sims
    PROVE  Usage(s) = Counted(s) /\ Counted(s) \in Nat
<1>1. today \in Days /\ today \in Nat /\ Days \subseteq Nat /\ Counted(s) \in Nat
  BY TablesType, DaysType
<1>2. today % Cycle \in 0 .. Cycle - 1 /\ Cycle \in Nat /\ Length \in Nat
  BY <1>1, LimitAssumption
<1>3. PeriodStart = WindowStart
  BY <1>2 DEF PeriodStart
<1>4. WindowStart \in Int /\ 2 * today + 1 <= 2 * WindowStart + Length
  BY <1>1, <1>2 DEF WindowStart
<1> DEFINE W == {d \in Days : /\ d >= WindowStart
                              /\ 2 * d + 1 <= 2 * WindowStart + Length}
           U == {d \in Days : d >= PeriodStart}
<1>5. ASSUME NEW d \in U, d \notin W, NEW i \in Ifaces PROVE 1 .. db.days[s][i][d] = {}
  <2>1. d \in Days /\ d \in Nat /\ 2 * d + 1 > 2 * WindowStart + Length
    BY <1>1, <1>2, <1>3, <1>4, <1>5
  <2>2. d > today
    BY <1>1, <1>2, <1>4, <2>1
  <2>3. db.days[s][i][d] = -1
    BY <2>1, <2>2 DEF Dated, NoRow
  <2> QED
    BY <2>3
<1>6. W \subseteq U
  BY <1>3
<1> HIDE DEF W, U
<1> DEFINE Cells(D) == UNION {{i} \X {d} \X (1 .. db.days[s][i][d]) : i \in Ifaces, d \in D}
<1>7. Cells(U) = Cells(W)
  BY <1>5, <1>6
<1>8. Usage(s) = Summed(s, U) /\ Counted(s) = Summed(s, W)
  BY DEF Usage, Counted, U, W
<1>9. Summed(s, U) = Cardinality(Cells(U)) /\ Summed(s, W) = Cardinality(Cells(W))
  BY DEF Summed
<1> HIDE DEF Cells
<1> QED
  BY <1>1, <1>7, <1>8, <1>9

-----------------------------------------------------------------------------
(* The theorems.                                                           *)

\* What both programs, sim_switch and the environment do keeps every variable
\* in its range: mdcollectd never takes a negative sample.
THEOREM LimitTypeCorrect == Spec => []LimitTypeOK
  BY TypeInit, TypeNext, PTL DEF Spec

\* What mdcollectd has recorded for a SIM up to any day, whichever interface's
\* row is taken for each day, is at most what it used up to that day, across
\* counters that restart, reboots that restore an older database or none,
\* changes of interface and SIM, and midnight.
THEOREM NeverCountedTwice == Spec => []NeverOvercounts
<1>1. Init => LimitTypeOK /\ CountInv
  BY TypeInit, CountInit
<1>2. LimitTypeOK /\ CountInv /\ [Next]_vars => (LimitTypeOK /\ CountInv)'
  BY TypeNext, CountNext
<1>3. CountInv => NeverOvercounts
  BY DEF CountInv, Covered, Picks, NeverOvercounts
<1> QED
  BY <1>1, <1>2, <1>3, PTL DEF Spec

\* A connection that limit_guard has cut is never taken for one it has made
\* legal, so the pass that finds the data of a new period below the limit
\* gives it back.
THEOREM ConnectionGivenBack == Spec => []GivenBack
<1>1. Init => LimitTypeOK /\ GuardInv
  BY TypeInit, GuardInit
<1>2. LimitTypeOK /\ GuardInv /\ [Next]_vars => (LimitTypeOK /\ GuardInv)'
  BY TypeNext, GuardNext
<1>3. GuardInv => GivenBack
  BY DEF GuardInv
<1> QED
  BY <1>1, <1>2, <1>3, PTL DEF Spec

\* No pass of limit_guard that finds the limit of the period reached leaves
\* mobile data on, when the period starts on the first day of the month or
\* week and time_interval's window reaches the noon of its last day.  For a
\* start on a later day this is false, as the run data_limit_period shows.
THEOREM LimitHolds ==
    ASSUME StartDay = 0, Length >= 2 * Cycle - 1
    PROVE  Spec => LimitEnforced
<1>1. Init => LimitTypeOK /\ CountInv
  BY TypeInit, CountInit
<1>2. LimitTypeOK /\ CountInv /\ [Next]_vars => (LimitTypeOK /\ CountInv)'
  BY TypeNext, CountNext
<1>3. LimitTypeOK /\ CountInv /\ [Next]_vars
        => [~owed /\ up' /\ Usage(gpio) >= guard.lim => ~GuardPass]_vars
  <2> SUFFICES ASSUME LimitTypeOK, CountInv, GuardPass, up',
                      Usage(gpio) >= guard.lim
               PROVE  FALSE
    OBVIOUS
  <2>1. Usage(gpio) = Counted(gpio) /\ Counted(gpio) \in Nat
    <3>1. gpio \in Sims /\ Dated(db)
      BY DEF LimitTypeOK, CountInv
    <3> QED
      BY <3>1, AllCounted
  <2>2. ~Reached(guard.lim, Counted(gpio))
    BY DEF GuardPass
  <2>3. guard.lim \in Nat
    BY LimitAssumption DEF LimitTypeOK
  <2> QED
    BY <2>1, <2>2, <2>3 DEF Reached
<1> QED
  BY <1>1, <1>2, <1>3, PTL DEF Spec, LimitEnforced

====
