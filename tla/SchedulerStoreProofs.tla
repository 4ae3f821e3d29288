------------------------ MODULE SchedulerStoreProofs ------------------------
(***************************************************************************)
(* The job store follows the lists table, for every number of lists,       *)
(* threads, requests and restarts: StoreFollowsRows.                       *)
(***************************************************************************)
EXTENDS SchedulerProofs

----------------------------------------------------------------------------
(* The inductive invariant                                                 *)

\* What a request or a pass of the poll still relies on.
Listed == {"commit", "reread", "build", "add", "remove", "drop", "erase"}
Scheduling == {"build", "add", "remove", "flag", "rows", "apply", "stamp", "compare"}

Sane(a, r) ==
    /\ a = Poll => r.pc \in {"idle", "compare", "apply", "stamp"}
    /\ r.list \in Lists <=> r.pc \in Listed
    /\ r.pc = "commit" =>
           /\ r.seen \in Rows /\ r.want \in Rows
           /\ r.op = "update" => r.want.active = r.seen.active
           /\ r.op = "toggle" => r.want = [r.seen EXCEPT !.active = ~ @]
    /\ r.pc = "reread" /\ r.op = "update" => r.want \in Rows
    /\ r.pc \in {"build", "add"} => r.cron \in Crons
    /\ r.pc \in Scheduling => up /\ Home(a) = Main
    /\ r.pc \in {"add", "rows", "apply", "stamp", "compare"} => r.zone \in Zones

Shaped ==
    /\ ScheduleTypeOK
    /\ up => schedTz \in Zones
    /\ \A a \in Actors : Sane(a, req[a])

\* Nobody works on list l, or at most one does.
Reconciles(a) == req[a].pc \in {"apply", "stamp"}

Free(l) ==
    /\ \A t \in Threads : req[t].list # l
    /\ \A a \in Actors : ~ Reconciles(a)
    /\ l \notin gone

Exclusive(l) ==
    /\ \A t, u \in Threads : req[t].list = l /\ req[u].list = l => t = u
    /\ \A a, b \in Actors : Reconciles(a) /\ Reconciles(b) => a = b
    /\ \A t \in Threads, a \in Actors : ~ (req[t].list = l /\ Reconciles(a))
    /\ l \in gone => /\ \A t \in Threads : req[t].list # l
                     /\ \A a \in Actors : ~ Reconciles(a)

Follows(l) == job[l] = Desired(row[l], schedTz)

\* What the request of thread t knows of list l while it works alone on it.
Knows(t, l) ==
    LET r == req[t] IN
    IF ~ IsWorker(t) THEN Follows(l)
    ELSE /\ r.pc \in {"commit", "drop"} => Follows(l)
         /\ r.pc = "commit" => row[l] = r.seen
         /\ r.pc \in {"reread", "build", "add"} => row[l] # NoRow
         /\ r.pc = "reread" =>
                /\ r.op = "update" => r.want.cron = row[l].cron
                /\ r.op = "toggle" /\ row[l].active /\ row[l].cron = NoCron => job[l] = NoJob
         /\ r.pc \in {"build", "add"} => Scheduled(row[l]) /\ r.cron = row[l].cron
         /\ r.pc = "add" => r.zone = schedTz
         /\ r.pc = "remove" => ~ Scheduled(row[l])
         /\ r.pc = "erase" => job[l] = NoJob

Good(l) ==
    /\ Exclusive(l)
    /\ up =>
        /\ Free(l) => Follows(l)
        /\ \A t \in Threads : req[t].list = l => Knows(t, l)
        /\ \A a \in Actors :
               /\ At(a, "apply") => req[a].rows[l] = row[l]
               /\ At(a, "stamp") => job[l] = Desired(row[l], req[a].zone)
        /\ l \in gone => row[l] = NoRow

SchedulerInv == Shaped /\ \A l \in Lists \ excused : Good(l)

----------------------------------------------------------------------------
(* Lemmas on operators                                                     *)

LEMMA EffectiveLoads == ASSUME NEW raw PROVE Effective(raw) \in Zones
  BY ZonesAssumption DEF Effective

LEMMA DesiredType ==
  ASSUME NEW r \in Rows \cup {NoRow}, NEW zone \in Zones
  PROVE  Desired(r, zone) \in Jobs \cup {NoJob}
  BY CronsAssumption DEF Desired, Scheduled, Rows, Jobs

LEMMA ListIds == 0 \notin Lists
  BY BoundsAssumption DEF Lists

LEMMA IdleSane ==
  /\ Idle \in Requests
  /\ \A a \in Actors : Sane(a, Idle)
  BY ListIds DEF Idle, Requests, Sane, NoRows, Listed, Scheduling

\* Alone, said without the set of those who work on the list.
LEMMA AloneIsExclusive ==
  ASSUME NEW l \in Lists
  PROVE  /\ Alone(l) => Exclusive(l)
         /\ Alone(l)' => Exclusive(l)'
<1>1. /\ \A t \in Threads : req[t].list = l => <<"request", t>> \in Touching(l)
      /\ \A a \in Actors : Reconciles(a) => <<"reconcile", a>> \in Touching(l)
      /\ l \in gone => <<"fire", l>> \in Touching(l)
  BY DEF Touching, Reconciles
<1>2. /\ \A t \in Threads : (req[t].list = l)' => <<"request", t>> \in Touching(l)'
      /\ \A a \in Actors : Reconciles(a)' => <<"reconcile", a>> \in Touching(l)'
      /\ (l \in gone)' => <<"fire", l>> \in Touching(l)'
  BY DEF Touching, Reconciles
<1>3. /\ \A x, y : <<"request", x>> = <<"request", y>> => x = y
      /\ \A x, y : <<"reconcile", x>> = <<"reconcile", y>> => x = y
      /\ \A x, y : /\ <<"request", x>> # <<"reconcile", y>>
                   /\ <<"request", x>> # <<"fire", y>>
                   /\ <<"reconcile", x>> # <<"fire", y>>
  OBVIOUS
<1>4. Alone(l) => Exclusive(l)
  BY <1>1, <1>3 DEF Alone, Exclusive
<1>5. Alone(l)' => Exclusive(l)'
  BY <1>2, <1>3 DEF Alone, Exclusive
<1> QED
  BY <1>4, <1>5

LEMMA FreeIsUntouched ==
  ASSUME NEW l \in Lists, Touching(l) = {}
  PROVE  Free(l)
  BY DEF Free, Touching, Reconciles

\* Who is not excused after a step was not before, unless a reconcile has just
\* started, and did not become so.
LEMMA Unexcused ==
  ASSUME Excuse, NEW l \in Lists \ excused'
  PROVE  /\ Exclusive(l)'
         /\ l \notin ChangedElsewhere /\ l \notin Unread /\ l \notin HalfDeleted
         /\ l \in excused => \E a \in Actors : ~ At(a, "apply") /\ At(a, "apply")'
<1>1. l \notin Contended' /\ l \notin ChangedElsewhere /\ l \notin Unread /\ l \notin HalfDeleted
  BY DEF Excuse
<1>2. Alone(l)'
  BY <1>1 DEF Contended
<1>3. l \in excused => l \in Renewed
  BY DEF Excuse
<1>4. l \in Renewed => \E a \in Actors : ~ At(a, "apply") /\ At(a, "apply")'
  BY DEF Renewed
<1> QED
  BY <1>1, <1>2, <1>3, <1>4, AloneIsExclusive

LEMMA ExcusedType == Excuse /\ excused \subseteq Lists => excused' \subseteq Lists
  BY DEF Excuse, Renewed, Contended, ChangedElsewhere, Unread, HalfDeleted

----------------------------------------------------------------------------
(* Steps of one thread or of the poll                                      *)

\* The types of everything but the requests, the rows and the jobs.
Flat ==
    /\ paused \in BOOLEAN \cup {NoRow} /\ apPaused \in BOOLEAN
    /\ lastTz \in Zones \cup {NoZone} /\ lock \in Actors \cup {NoOne}
    /\ requests \in 0..MaxRequests /\ faults \in 0..MaxFaults /\ crashes \in 0..MaxCrashes

LEMMA ActorShaped ==
  ASSUME Shaped, Excuse, NEW a \in Actors, NEW r \in Requests, Sane(a, r),
         req' = [req EXCEPT ![a] = r],
         up' = up, schedTz' \in Zones \/ schedTz' = schedTz, gone' \subseteq Lists, Flat',
         row' \in [Lists -> Rows \cup {NoRow}], job' \in [Lists -> Jobs \cup {NoJob}]
  PROVE  Shaped'
<1>1. req' \in [Actors -> Requests]
  BY DEF Shaped, ScheduleTypeOK
<1>2. \A b \in Actors : Sane(b, req[b])'
  <2> SUFFICES ASSUME NEW b \in Actors
               PROVE  Sane(b, req[b])'
    OBVIOUS
  <2>1. CASE b = a
    <3>1. req'[b] = r
      BY <2>1 DEF Shaped, ScheduleTypeOK
    <3> QED
      BY <2>1, <3>1 DEF Sane
  <2>2. CASE b # a
    <3>1. req'[b] = req[b]
      BY <2>2 DEF Shaped, ScheduleTypeOK
    <3>2. Sane(b, req[b])
      BY DEF Shaped
    <3> QED
      BY <3>1, <3>2 DEF Sane
  <2> QED
    BY <2>1, <2>2
<1>3. excused' \subseteq Lists
  BY ExcusedType DEF Shaped, ScheduleTypeOK
<1>4. schedTz' \in Zones \cup {NoZone} /\ (up' => schedTz' \in Zones)
  BY DEF Shaped, ScheduleTypeOK
<1>5. up' \in BOOLEAN
  BY DEF Shaped, ScheduleTypeOK
<1> QED
  BY <1>1, <1>2, <1>3, <1>4, <1>5 DEF Shaped, ScheduleTypeOK, Flat

\* A request keeps the invariant when it changes at most its own list, knows
\* that list afterwards, and leaves it as its row says when it is done with it.
LEMMA ActorStep ==
  ASSUME SchedulerInv, Excuse, NEW a \in Actors, NEW r \in Requests, Sane(a, r),
         req' = [req EXCEPT ![a] = r],
         UNCHANGED <<up, schedTz, gone>>, Flat',
         row' \in [Lists -> Rows \cup {NoRow}], job' \in [Lists -> Jobs \cup {NoJob}],
         ~ Reconciles(a), r.pc # "stamp",
         r.pc = "apply" => req[a].list \notin Lists /\ row' = row /\ r.rows = row,
         \A l \in Lists : l \notin {req[a].list, r.list} => row'[l] = row[l] /\ job'[l] = job[l],
         \A l \in Lists \ excused' : up /\ l = r.list => Knows(a, l)',
         \A l \in Lists \ excused' :
             up /\ l = req[a].list /\ l # r.list /\ Good(l) => Follows(l)'
  PROVE  SchedulerInv'
<1>1. Shaped'
  <2>1. gone' \subseteq Lists
    BY DEF SchedulerInv, Shaped, ScheduleTypeOK
  <2> QED
    BY <2>1, ActorShaped DEF SchedulerInv
<1>2. /\ req'[a] = r
      /\ \A b \in Actors : b # a => req'[b] = req[b]
  BY DEF SchedulerInv, Shaped, ScheduleTypeOK
<1>3. SUFFICES ASSUME NEW l \in Lists \ excused'
               PROVE  Good(l)'
  BY <1>1 DEF SchedulerInv
<1>4. /\ Exclusive(l)'
      /\ l \in excused => r.pc = "apply"
  BY <1>2, Unexcused DEF At
<1>5. \A b \in Actors : req[b].list \in Lists => b \in Threads /\ ~ Reconciles(b)
  BY DEF SchedulerInv, Shaped, Sane, Listed, Reconciles, Actors
<1>6. r.list \in Lists => a \in Threads /\ r.pc \notin {"apply", "stamp"}
  BY DEF Sane, Listed, Actors
<1>7. CASE r.list = l
  <2>1. \A t \in Threads : req'[t].list = l => t = a
    BY <1>2, <1>4, <1>6, <1>7 DEF Exclusive
  <2>2. (\A b \in Actors : ~ Reconciles(b))' /\ l \notin gone'
    BY <1>2, <1>4, <1>6, <1>7 DEF Exclusive
  <2>3. ~ Free(l)'
    BY <1>2, <1>6, <1>7 DEF Free
  <2> QED
    BY <1>4, <1>7, <2>1, <2>2, <2>3 DEF Good, Reconciles, At
<1>8. CASE req[a].list = l /\ r.list # l
  <2>1. Good(l)
    BY <1>4, <1>8 DEF SchedulerInv
  <2>2. \A t \in Threads : req'[t].list # l
    BY <1>2, <1>5, <1>8, <2>1 DEF Good, Exclusive
  <2>3. (\A b \in Actors : ~ Reconciles(b))' /\ l \notin gone'
    BY <1>2, <1>5, <1>8, <2>1 DEF Good, Exclusive, Reconciles
  <2>4. up => Follows(l)'
    BY <1>8, <2>1
  <2> QED
    BY <1>4, <2>2, <2>3, <2>4 DEF Good, Reconciles, At
<1>9. CASE req[a].list # l /\ r.list # l
  <2>1. row'[l] = row[l] /\ job'[l] = job[l]
    BY <1>9
  <2>2. CASE r.pc = "apply"
    <3>1. Reconciles(a)'
      BY <1>2, <2>2 DEF Reconciles
    <3>2. (\A b \in Actors : Reconciles(b) => b = a)' /\ l \notin gone'
          /\ \A t \in Threads : req'[t].list # l
      BY <1>4, <3>1 DEF Exclusive
    <3>3. ~ Free(l)'
      BY <3>1 DEF Free
    <3> QED
      BY <1>2, <1>4, <2>1, <2>2, <3>2, <3>3 DEF Good, Reconciles, At
  <2>3. CASE r.pc # "apply"
    <3>1. Good(l)
      BY <1>4, <2>3 DEF SchedulerInv
    <3>2. \A b \in Actors : Reconciles(b)' <=> Reconciles(b)
      BY <1>2, <2>3 DEF Reconciles
    <3>3. \A t \in Threads : req'[t].list = l <=> req[t].list = l
      BY <1>2, <1>9 DEF Actors
    <3>4. Free(l)' <=> Free(l)
      BY <3>2, <3>3 DEF Free
    <3>5. Follows(l)' <=> Follows(l)
      BY <2>1 DEF Follows
    <3>6. \A t \in Threads : req[t].list = l => req'[t] = req[t]
      BY <1>2, <1>9 DEF Actors
    <3>7. up => \A t \in Threads : req'[t].list = l => Knows(t, l)'
      BY <2>1, <3>1, <3>3, <3>5, <3>6 DEF Good, Knows, IsWorker
    <3>8. up => \A b \in Actors :
                 /\ At(b, "apply")' => req'[b].rows[l] = row'[l]
                 /\ At(b, "stamp")' => job'[l] = Desired(row'[l], req'[b].zone)
      BY <1>2, <2>1, <2>3, <3>1 DEF Good, At
    <3> QED
      BY <1>4, <2>1, <3>1, <3>4, <3>5, <3>7, <3>8 DEF Good
  <2> QED
    BY <2>2, <2>3
<1> QED
  BY <1>7, <1>8, <1>9

\* The counters stay within their bounds.
LEMMA BudgetTypes ==
  ASSUME Shaped,
         \/ UNCHANGED budget
         \/ Fault
         \/ \E t \in Threads, op \in Ops : Serve(t, op)
  PROVE  /\ requests' \in 0..MaxRequests
         /\ faults' \in 0..MaxFaults
         /\ crashes' \in 0..MaxCrashes
  BY BoundsAssumption DEF Shaped, ScheduleTypeOK, budget, Fault, Serve

\* A step that starts no reconcile excuses nobody anew.
LEMMA StillGood ==
  ASSUME SchedulerInv, Excuse, NEW a \in Actors, NEW r \in Requests,
         req' = [req EXCEPT ![a] = r], r.pc # "apply", NEW l \in Lists \ excused'
  PROVE  Good(l)
<1>1. \A b \in Actors : At(b, "apply")' => At(b, "apply")
  BY DEF SchedulerInv, Shaped, ScheduleTypeOK, At
<1> QED
  BY <1>1, Unexcused DEF SchedulerInv

\* Who begins to work on a list finds it as its row says.
LEMMA FoundFollowing ==
  ASSUME SchedulerInv, Excuse, NEW a \in Threads, NEW r \in Requests,
         req' = [req EXCEPT ![a] = r], r.pc # "apply", NEW l \in Lists \ excused',
         r.list = l, req[a].pc = "idle", gone' = gone
  PROVE  Good(l) /\ (up => Follows(l))
<1>1. Good(l) /\ Exclusive(l)'
  BY StillGood, Unexcused DEF Actors
<1>2. /\ req'[a] = r /\ a \in Actors
      /\ \A b \in Actors : b # a => req'[b] = req[b]
  BY DEF SchedulerInv, Shaped, ScheduleTypeOK, Actors
<1>3. req[a].list \notin Lists
  BY <1>2 DEF SchedulerInv, Shaped, Sane, Listed
<1>4. \A t \in Threads : req[t].list # l
  BY <1>1, <1>2, <1>3 DEF Exclusive, Actors
<1>5. (\A b \in Actors : ~ Reconciles(b))' /\ l \notin gone'
  BY <1>1, <1>2 DEF Exclusive
<1>6. \A b \in Actors : ~ Reconciles(b)
  BY <1>2, <1>5 DEF Reconciles
<1> QED
  BY <1>1, <1>4, <1>5, <1>6 DEF Good, Free

\* Steps that touch nothing of this.
LEMMA QuietStep ==
  ASSUME SchedulerInv, Excuse, UNCHANGED <<up, schedTz, gone, row, job, req>>, Flat'
  PROVE  SchedulerInv'
<1>1. excused' \subseteq Lists
  BY ExcusedType DEF SchedulerInv, Shaped, ScheduleTypeOK
<1>2. Shaped'
  BY <1>1 DEF SchedulerInv, Shaped, ScheduleTypeOK, Sane, Flat
<1>3. ASSUME NEW l \in Lists \ excused'
      PROVE  Good(l)'
  <2>1. Good(l)
    BY Unexcused DEF SchedulerInv, At
  <2> QED
    BY <2>1 DEF Good, Exclusive, Free, Follows, Knows, IsWorker, Reconciles, At
<1> QED
  BY <1>2, <1>3 DEF SchedulerInv

LEMMA StartSteps ==
  ASSUME SchedulerInv, Excuse, NEW t \in Threads, Start(t)
  PROVE  SchedulerInv'
<1> USE DEF SchedulerInv
<1>1. t \in Actors /\ t # Poll /\ req[t].pc = "idle" /\ req[t].list \notin Lists
  <2>1. req[t].pc = "idle"
    BY DEF Start, StartChange, StartCreate, StartDelete, StartPause, StartSave, StartPage,
           ConnectService, Serve, At
  <2> QED
    BY <2>1, ProcessAssumption DEF Actors, Shaped, Sane, Listed
<1>2. UNCHANGED <<up, schedTz, gone, job, lock, lastTz, apPaused>>
  BY DEF Start, StartChange, StartCreate, StartDelete, StartPause, StartSave, StartPage,
         ConnectService, Serve, store
<1>3. Flat'
  <2>1. \E op \in Ops : Serve(t, op)
    BY DEF Start, StartChange, StartCreate, StartDelete, StartPause, StartSave, StartPage,
           ConnectService, Ops
  <2>2. paused' \in BOOLEAN \cup {NoRow}
    BY DEF Start, StartChange, StartCreate, StartDelete, StartPause, StartSave, StartPage,
           ConnectService, db, Shaped, ScheduleTypeOK
  <2> QED
    BY <1>2, <2>1, <2>2, BudgetTypes DEF Flat, Shaped, ScheduleTypeOK
<1>4. job' \in [Lists -> Jobs \cup {NoJob}]
  BY <1>2 DEF Shaped, ScheduleTypeOK
<1>5. ~ Reconciles(t)
  BY <1>1 DEF Reconciles
<1>6. ASSUME NEW op \in Ops, NEW l \in Lists, NEW want \in Rows, StartChange(t, op, l, want)
      PROVE  SchedulerInv'
  <2> DEFINE r == [Started("commit", op) EXCEPT !.list = l, !.seen = row[l], !.want = want]
  <2>1. req' = [req EXCEPT ![t] = r] /\ row' = row /\ row[l] # NoRow
    BY <1>6 DEF StartChange, db
  <2>2. row[l] \in Rows
    BY <2>1 DEF Shaped, ScheduleTypeOK
  <2>3. r = [Idle EXCEPT !.pc = "commit", !.op = op, !.list = l, !.seen = row[l], !.want = want]
    BY DEF Started
  <2>4. /\ r \in Requests /\ r.pc = "commit" /\ r.list = l
        /\ r.seen = row[l] /\ r.want = want /\ r.op = op
    BY <2>2, IdleSane DEF Requests, Started, Idle
  <2>5. Sane(t, r)
    BY <1>1, <1>6, <2>2, <2>4 DEF Sane, Listed, Scheduling, StartChange
  <2>6. \A k \in Lists \ excused' : up /\ k = r.list => Knows(t, k)'
    <3> SUFFICES ASSUME NEW k \in Lists \ excused', up, k = r.list
                 PROVE  Knows(t, k)'
      OBVIOUS
    <3>1. Follows(k)
      BY <1>1, <1>2, <2>1, <2>4, FoundFollowing
    <3>2. Follows(k)' /\ req'[t] = r
      BY <1>1, <1>2, <2>1, <3>1 DEF Follows, Shaped, ScheduleTypeOK
    <3> QED
      BY <2>1, <2>4, <3>2 DEF Knows
  <2> HIDE DEF r
  <2> QED
    BY <1>1, <1>2, <1>3, <1>4, <1>5, <2>1, <2>4, <2>5, <2>6, ActorStep
       DEF Shaped, ScheduleTypeOK
<1>7. ASSUME NEW l \in Lists, NEW want \in Rows, StartCreate(t, l, want)
      PROVE  SchedulerInv'
  <2> DEFINE r == [Started("reread", "create") EXCEPT !.list = l]
  <2>1. req' = [req EXCEPT ![t] = r] /\ row' = [row EXCEPT ![l] = want]
    BY <1>7 DEF StartCreate
  <2>2. r \in Requests /\ r.pc = "reread" /\ r.list = l /\ r.op = "create"
    BY IdleSane DEF Requests, Started, Idle, Ops
  <2>3. Sane(t, r)
    BY <1>1, <2>2 DEF Sane, Listed, Scheduling
  <2>4. row' \in [Lists -> Rows \cup {NoRow}] /\ row'[l] = want
        /\ \A k \in Lists : k # l => row'[k] = row[k]
    BY <2>1 DEF Shaped, ScheduleTypeOK
  <2>5. req'[t] = r
    BY <1>1, <2>1 DEF Shaped, ScheduleTypeOK
  <2>6. row[l] = NoRow
    BY <1>7 DEF StartCreate, Lists
  <2>7. \A k \in Lists \ excused' : up /\ k = r.list => Knows(t, k)'
    <3> SUFFICES ASSUME NEW k \in Lists \ excused', up, k = r.list
                 PROVE  Knows(t, k)'
      OBVIOUS
    <3>1. k \notin ChangedElsewhere
      BY Unexcused
    <3>2. row'[k] # row[k]
      BY <2>2, <2>4, <2>6, NothingAssumption
    <3>3. IsWorker(t)
      BY <2>2, <2>5, <3>1, <3>2 DEF ChangedElsewhere
    <3> QED
      BY <1>2, <2>2, <2>4, <2>5, <3>3, NothingAssumption DEF Knows, IsWorker
  <2> HIDE DEF r
  <2> QED
    BY <1>1, <1>2, <1>3, <1>4, <1>5, <2>1, <2>2, <2>3, <2>4, <2>7, ActorStep, ZenonT(40)
<1>8. ASSUME NEW l \in Lists, StartDelete(t, l)
      PROVE  SchedulerInv'
  <2> DEFINE r == [Started("drop", "delete") EXCEPT !.list = l]
  <2>1. req' = [req EXCEPT ![t] = r] /\ row' = row
    BY <1>8 DEF StartDelete, db
  <2>2. r \in Requests /\ r.pc = "drop" /\ r.list = l
    BY IdleSane DEF Requests, Started, Idle, Ops
  <2>3. Sane(t, r)
    BY <1>1, <2>2 DEF Sane, Listed, Scheduling
  <2>4. \A k \in Lists \ excused' : up /\ k = r.list => Knows(t, k)'
    <3> SUFFICES ASSUME NEW k \in Lists \ excused', up, k = r.list
                 PROVE  Knows(t, k)'
      OBVIOUS
    <3>1. Follows(k)
      BY <1>1, <1>2, <2>1, <2>2, FoundFollowing
    <3>2. Follows(k)' /\ req'[t] = r
      BY <1>1, <1>2, <2>1, <3>1 DEF Follows, Shaped, ScheduleTypeOK
    <3> QED
      BY <2>1, <2>2, <3>2 DEF Knows
  <2> HIDE DEF r
  <2> QED
    BY <1>1, <1>2, <1>3, <1>4, <1>5, <2>1, <2>2, <2>3, <2>4, ActorStep
       DEF Shaped, ScheduleTypeOK
<1>9. ASSUME NEW pc \in {"flag", "invalidate", "await"}, NEW op \in Ops,
             req' = [req EXCEPT ![t] = Started(pc, op)],
             pc = "flag" => IsWorker(t), row' = row
      PROVE  SchedulerInv'
  <2> DEFINE r == Started(pc, op)
  <2>1. r \in Requests /\ r.pc = pc /\ r.list = 0
    BY IdleSane DEF Requests, Started, Idle
  <2>2. Sane(t, r)
    BY <1>1, <1>9, <2>1, ListIds DEF Sane, Listed, Scheduling, IsWorker, Home
  <2> HIDE DEF r
  <2>3. req' = [req EXCEPT ![t] = r]
    BY <1>9 DEF r
  <2> QED
    BY <1>1, <1>2, <1>3, <1>4, <1>5, <1>9, <2>1, <2>2, <2>3, ListIds, ActorStep
       DEF Shaped, ScheduleTypeOK
<1>10. ASSUME NEW op \in Ops, StartPause(t, op)
       PROVE  SchedulerInv'
  BY <1>9, <1>10 DEF StartPause
<1>11. ASSUME NEW raw \in Settings, StartSave(t, raw)
       PROVE  SchedulerInv'
  BY <1>9, <1>11 DEF StartSave, db, Ops
<1>12. CASE StartPage(t)
  BY <1>9, <1>12 DEF StartPage, db, Ops
<1>13. CASE ConnectService(t)
  <2>1. UNCHANGED <<up, schedTz, gone, row, job, req>>
    BY <1>2, <1>13 DEF ConnectService
  <2> QED
    BY <1>3, <2>1, QuietStep
<1> QED
  BY <1>6, <1>7, <1>8, <1>10, <1>11, <1>12, <1>13 DEF Start

\* A request whose list is not excused after its step knows it before.
LEMMA KnownBefore ==
  ASSUME SchedulerInv, Excuse, NEW t \in Threads, NEW r \in Requests,
         req' = [req EXCEPT ![t] = r], r.pc # "apply",
         NEW l \in Lists \ excused', l = req[t].list, up
  PROVE  Knows(t, l)
<1>1. Good(l)
  BY StillGood DEF Actors
<1> QED
  BY <1>1 DEF Good

LEMMA ListSteps ==
  ASSUME SchedulerInv, Excuse, NEW t \in Threads,
         ListStep(t) \/ EraseFails(t) \/ RereadFails(t)
  PROVE  SchedulerInv'
<1> USE DEF SchedulerInv
<1>1. t \in Actors /\ t # Poll /\ req[t] \in Requests /\ Sane(t, req[t])
  BY ProcessAssumption DEF Actors, Shaped, ScheduleTypeOK
<1>2. UNCHANGED <<up, schedTz, gone, lock, lastTz, apPaused, paused>>
  BY DEF ListStep, CommitChange, CommitFindsNothing, Reread, BuildTrigger, AddJob,
         RemoveJob, DropJob, EraseRow, EraseFails, RereadFails, db, store
<1>3. Flat'
  <2>1. UNCHANGED budget \/ Fault
    BY DEF ListStep, CommitChange, CommitFindsNothing, Reread, BuildTrigger, AddJob,
           RemoveJob, DropJob, EraseRow, EraseFails, RereadFails
  <2> QED
    BY <1>2, <2>1, BudgetTypes DEF Flat, Shaped, ScheduleTypeOK
<1>4. req[t].pc \in Listed /\ req[t].list \in Lists /\ ~ Reconciles(t)
  BY <1>1 DEF ListStep, CommitChange, CommitFindsNothing, Reread, BuildTrigger, AddJob,
              RemoveJob, DropJob, EraseRow, EraseFails, RereadFails, At, Sane, Listed,
              Reconciles
<1>5. row \in [Lists -> Rows \cup {NoRow}] /\ job \in [Lists -> Jobs \cup {NoJob}]
  BY DEF Shaped, ScheduleTypeOK
<1>6. PICK l \in Lists : l = req[t].list
  BY <1>4
\* A step goes on with the list ...
<1>7. ASSUME NEW r \in Requests, Sane(t, r), req' = [req EXCEPT ![t] = r],
             r.list = l, r.pc # "apply", r.pc # "stamp",
             row' \in [Lists -> Rows \cup {NoRow}], job' \in [Lists -> Jobs \cup {NoJob}],
             \A k \in Lists : k # l => row'[k] = row[k] /\ job'[k] = job[k],
             up /\ l \notin excused' /\ Knows(t, l) => Knows(t, l)'
      PROVE  SchedulerInv'
  <2>1. \A k \in Lists \ excused' : up /\ k = r.list => Knows(t, k)'
    BY <1>6, <1>7, KnownBefore
  <2> QED
    BY <1>1, <1>2, <1>3, <1>4, <1>6, <1>7, <2>1, ActorStep
\* ... or ends the request.
<1>8. ASSUME req' = [req EXCEPT ![t] = Idle],
             row' \in [Lists -> Rows \cup {NoRow}], job' \in [Lists -> Jobs \cup {NoJob}],
             \A k \in Lists : k # l => row'[k] = row[k] /\ job'[k] = job[k],
             up /\ l \notin excused' /\ Knows(t, l) => Follows(l)'
      PROVE  SchedulerInv'
  <2>1. Idle \in Requests /\ Sane(t, Idle) /\ Idle.list \notin Lists /\ Idle.pc = "idle"
    BY <1>1, IdleSane, ListIds DEF Idle
  <2>2. \A k \in Lists \ excused' : up /\ k = req[t].list => Follows(k)'
    BY <1>6, <1>8, <2>1, KnownBefore
  <2> QED
    BY <1>1, <1>2, <1>3, <1>4, <1>6, <1>8, <2>1, <2>2, ActorStep
<1>9. CASE CommitChange(t)
  <2> DEFINE now == row[l]
             r == [req[t] EXCEPT !.pc = "reread", !.seen = NoRow,
                                 !.want = IF req[t].op = "update" THEN @ ELSE NoRow]
  <2>1. /\ req' = [req EXCEPT ![t] = r] /\ req[t].pc = "commit"
        /\ row' = [row EXCEPT ![l] = Written(req[t], row[l])] /\ row[l] # NoRow /\ job' = job
    BY <1>6, <1>9 DEF CommitChange, At, store
  <2>2. /\ r \in Requests /\ r.pc = "reread" /\ r.list = l /\ r.op = req[t].op
        /\ r.op = "update" => r.want = req[t].want
    BY <1>1, <1>6, ZenonT(30) DEF Requests
  <2>3. req[t].seen \in Rows /\ req[t].want \in Rows /\ row[l] \in Rows
    BY <1>1, <1>5, <2>1 DEF Sane
  <2>4. Written(req[t], row[l]) \in Rows
    BY <2>3 DEF Written, Rows
  <2>5. Sane(t, r)
    BY <1>1, <2>2, <2>3 DEF Sane, Listed, Scheduling
  <2>6. /\ row' \in [Lists -> Rows \cup {NoRow}] /\ row'[l] = Written(req[t], row[l])
        /\ \A k \in Lists : k # l => row'[k] = row[k]
    BY <1>5, <2>1, <2>4
  <2>7. req'[t] = r
    BY <1>1, <2>1 DEF Shaped, ScheduleTypeOK
  <2> HIDE DEF r
  <2>8. ASSUME up, l \notin excused', Knows(t, l)
        PROVE  Knows(t, l)'
    <3>1. CASE ~ IsWorker(t)
      <4>1. row'[l] = row[l]
        <5>1. l \notin ChangedElsewhere
          BY <2>8, Unexcused
        <5> QED
          BY <1>6, <3>1, <5>1 DEF ChangedElsewhere
      <4>2. Follows(l)
        BY <2>8, <3>1 DEF Knows
      <4> QED
        BY <1>2, <2>1, <3>1, <4>1, <4>2 DEF Knows, IsWorker, Follows
    <3>2. CASE IsWorker(t)
      <4>1. row[l] = req[t].seen /\ Follows(l)
        BY <2>1, <2>8, <3>2 DEF Knows
      <4>2. row'[l] = [cron |-> req[t].want.cron, active |-> req[t].want.active]
        BY <2>6, <4>1 DEF Written
      <4>3. ASSUME r.op = "toggle", row'[l].active, row'[l].cron = NoCron
            PROVE  job'[l] = NoJob
        <5>1. req[t].want = [row[l] EXCEPT !.active = ~ @]
          BY <1>1, <2>1, <2>2, <4>1, <4>3 DEF Sane
        <5>2. row[l].cron = NoCron
          BY <2>3, <4>2, <4>3, <5>1 DEF Rows
        <5> QED
          BY <2>1, <4>1, <5>2 DEF Follows, Desired, Scheduled
      <4>4. row'[l] # NoRow
        BY <2>4, <2>6, NothingAssumption
      <4>5. r.op = "update" => r.want.cron = row'[l].cron
        BY <2>2, <4>2
      <4> QED
        BY <1>2, <2>2, <2>7, <3>2, <4>3, <4>4, <4>5 DEF Knows, IsWorker
    <3> QED
      BY <3>1, <3>2
  <2> QED
    BY <1>5, <1>7, <2>1, <2>2, <2>5, <2>6, <2>8
<1>10. CASE CommitFindsNothing(t)
  <2>1. req' = [req EXCEPT ![t] = Idle] /\ row' = row /\ job' = job /\ row[l] = NoRow
        /\ req[t].pc = "commit"
    BY <1>6, <1>10 DEF CommitFindsNothing, End, At, db, store
  <2>2. Knows(t, l) => Follows(l)
    BY <2>1 DEF Knows
  <2> QED
    BY <1>2, <1>5, <1>8, <2>1, <2>2 DEF Follows
<1>11. CASE Reread(t)
  <2>1. row' = row /\ job' = job /\ req[t].pc = "reread"
    BY <1>11 DEF Reread, At, db, store
  <2>2. CASE Schedules(t) /\ req' = [req EXCEPT ![t].pc = "build", ![t].want = NoRow,
                                                ![t].cron = CronAfter(t)]
    <3> DEFINE r == [req[t] EXCEPT !.pc = "build", !.want = NoRow, !.cron = CronAfter(t)]
    <3>1. /\ IsWorker(t) /\ row[l] # NoRow /\ row[l].active
          /\ CronAfter(t) \in Crons
          /\ CronAfter(t) = IF req[t].op = "update" THEN req[t].want.cron ELSE row[l].cron
      BY <1>1, <1>5, <1>6, <2>1, <2>2 DEF Schedules, CronAfter, Sane, Rows
    <3>2. req' = [req EXCEPT ![t] = r]
      BY <2>2
    <3>3. r \in Requests /\ r.pc = "build" /\ r.list = l /\ r.cron = CronAfter(t)
      BY <1>1, <1>6, <3>1 DEF Requests
    <3>4. Sane(t, r)
      BY <1>1, <3>1, <3>3 DEF Sane, Listed, Scheduling, IsWorker, Home
    <3>5. req'[t] = r
      BY <1>1, <3>2 DEF Shaped, ScheduleTypeOK
    <3> HIDE DEF r
    <3>6. Knows(t, l) => Knows(t, l)'
      <4> SUFFICES ASSUME Knows(t, l)
                   PROVE  Knows(t, l)'
        OBVIOUS
      <4>1. CronAfter(t) = row[l].cron
        BY <2>1, <3>1 DEF Knows
      <4>2. Scheduled(row[l])
        BY <3>1, <4>1, CronsAssumption DEF Scheduled
      <4> QED
        BY <1>2, <2>1, <3>1, <3>3, <3>5, <4>1, <4>2 DEF Knows, IsWorker
    <3> QED
      BY <1>5, <1>7, <2>1, <3>2, <3>3, <3>4, <3>6
  <2>3. CASE Unschedules(t) /\ req' = [req EXCEPT ![t].pc = "remove", ![t].want = NoRow]
    <3> DEFINE r == [req[t] EXCEPT !.pc = "remove", !.want = NoRow]
    <3>1. IsWorker(t) /\ row[l] # NoRow /\ ~ Schedules(t)
      BY <1>6, <2>3 DEF Unschedules
    <3>2. req' = [req EXCEPT ![t] = r]
      BY <2>3
    <3>3. r \in Requests /\ r.pc = "remove" /\ r.list = l
      BY <1>1, <1>6 DEF Requests
    <3>4. Sane(t, r)
      BY <1>1, <3>1, <3>3 DEF Sane, Listed, Scheduling, IsWorker, Home
    <3>5. req'[t] = r
      BY <1>1, <3>2 DEF Shaped, ScheduleTypeOK
    <3> HIDE DEF r
    <3>6. Knows(t, l) => Knows(t, l)'
      <4> SUFFICES ASSUME Knows(t, l)
                   PROVE  Knows(t, l)'
        OBVIOUS
      <4>1. CronAfter(t) = row[l].cron
        BY <1>6, <2>1, <3>1 DEF Knows, CronAfter
      <4>2. ~ Scheduled(row[l])
        BY <1>6, <3>1, <4>1 DEF Scheduled, Schedules
      <4> QED
        BY <1>2, <2>1, <3>1, <3>3, <3>5, <4>2 DEF Knows, IsWorker
    <3> QED
      BY <1>5, <1>7, <2>1, <3>2, <3>3, <3>4, <3>6
  <2>4. CASE ~ Schedules(t) /\ ~ Unschedules(t) /\ End(t)
    <3>1. req' = [req EXCEPT ![t] = Idle]
      BY <2>4 DEF End
    <3>2. ASSUME Knows(t, l)
          PROVE  Follows(l)
      <4>1. CASE ~ IsWorker(t)
        BY <3>2, <4>1 DEF Knows
      <4>2. CASE IsWorker(t)
        <5>1. row[l] # NoRow /\ CronAfter(t) = row[l].cron
          BY <1>6, <2>1, <3>2, <4>2 DEF Knows, CronAfter
        <5>2. req[t].op = "toggle" /\ row[l].active /\ row[l].cron = NoCron
          BY <1>6, <2>4, <4>2, <5>1 DEF Schedules, Unschedules
        <5>3. job[l] = NoJob
          BY <2>1, <3>2, <4>2, <5>2 DEF Knows
        <5> QED
          BY <5>2, <5>3 DEF Follows, Desired, Scheduled
      <4> QED
        BY <4>1, <4>2
    <3> QED
      BY <1>2, <1>5, <1>8, <2>1, <3>1, <3>2 DEF Follows
  <2> QED
    BY <1>11, <2>2, <2>3, <2>4 DEF Reread
<1>12. CASE BuildTrigger(t)
  <2> DEFINE r == [req[t] EXCEPT !.pc = "add", !.zone = schedTz]
  <2>1. req' = [req EXCEPT ![t] = r] /\ row' = row /\ job' = job /\ req[t].pc = "build"
    BY <1>12 DEF BuildTrigger, At, db, store
  <2>2. up /\ Home(t) = Main /\ schedTz \in Zones /\ req[t].cron \in Crons
    BY <1>1, <2>1 DEF Sane, Scheduling, Shaped
  <2>3. /\ r \in Requests /\ r.pc = "add" /\ r.list = l /\ r.zone = schedTz
        /\ r.cron = req[t].cron
    BY <1>1, <1>6, <2>2 DEF Requests
  <2>4. Sane(t, r)
    BY <1>1, <2>2, <2>3 DEF Sane, Listed, Scheduling
  <2>5. req'[t] = r /\ IsWorker(t)
    BY <1>1, <2>1, <2>2 DEF Shaped, ScheduleTypeOK, Home, IsWorker
  <2> HIDE DEF r
  <2>6. Knows(t, l) => Knows(t, l)'
    BY <1>2, <2>1, <2>3, <2>5 DEF Knows, IsWorker
  <2> QED
    BY <1>5, <1>7, <2>1, <2>3, <2>4, <2>6
<1>13. CASE AddJob(t)
  <2>1. /\ req' = [req EXCEPT ![t] = Idle] /\ row' = row /\ req[t].pc = "add"
        /\ job' = [job EXCEPT ![l] = [cron |-> req[t].cron, zone |-> req[t].zone]]
    BY <1>6, <1>13 DEF AddJob, End, At, db
  <2>2. up /\ Home(t) = Main /\ req[t].cron \in Crons /\ req[t].zone \in Zones
    BY <1>1, <2>1 DEF Sane, Scheduling
  <2>3. /\ job' \in [Lists -> Jobs \cup {NoJob}]
        /\ job'[l] = [cron |-> req[t].cron, zone |-> req[t].zone]
        /\ \A k \in Lists : k # l => job'[k] = job[k]
    BY <1>5, <2>1, <2>2 DEF Jobs
  <2>4. IsWorker(t)
    BY <1>1, <2>2 DEF IsWorker, Home
  <2>5. Knows(t, l) => Follows(l)'
    BY <1>2, <2>1, <2>3, <2>4 DEF Knows, Follows, Desired
  <2> QED
    BY <1>5, <1>8, <2>1, <2>3, <2>5
<1>14. CASE RemoveJob(t)
  <2>1. /\ req' = [req EXCEPT ![t] = Idle] /\ row' = row /\ req[t].pc = "remove"
        /\ job' = [job EXCEPT ![l] = NoJob]
    BY <1>6, <1>14 DEF RemoveJob, End, At, db
  <2>2. IsWorker(t)
    BY <1>1, <2>1 DEF Sane, Scheduling, IsWorker, Home
  <2>3. /\ job' \in [Lists -> Jobs \cup {NoJob}] /\ job'[l] = NoJob
        /\ \A k \in Lists : k # l => job'[k] = job[k]
    BY <1>5, <2>1
  <2>4. Knows(t, l) => Follows(l)'
    BY <2>1, <2>2, <2>3 DEF Knows, Follows, Desired
  <2> QED
    BY <1>5, <1>8, <2>1, <2>3, <2>4
<1>15. CASE DropJob(t)
  <2> DEFINE r == [req[t] EXCEPT !.pc = "erase"]
  <2>1. /\ req' = [req EXCEPT ![t] = r] /\ row' = row /\ req[t].pc = "drop"
        /\ job' = IF IsWorker(t) THEN [job EXCEPT ![l] = NoJob] ELSE job
    BY <1>6, <1>15 DEF DropJob, To, At, db
  <2>2. r \in Requests /\ r.pc = "erase" /\ r.list = l
    BY <1>1, <1>6 DEF Requests
  <2>3. Sane(t, r)
    BY <1>1, <2>2 DEF Sane, Listed, Scheduling
  <2>4. req'[t] = r
    BY <1>1, <2>1 DEF Shaped, ScheduleTypeOK
  <2> HIDE DEF r
  <2>5. /\ job' \in [Lists -> Jobs \cup {NoJob}]
        /\ job'[l] = IF IsWorker(t) THEN NoJob ELSE job[l]
        /\ \A k \in Lists : k # l => job'[k] = job[k]
    BY <1>5, <2>1
  <2>6. IsWorker(t)' <=> IsWorker(t)
    BY <1>2 DEF IsWorker
  <2>7. ~ IsWorker(t) => (Follows(l)' <=> Follows(l))
    BY <1>2, <2>1 DEF Follows
  <2>8. Knows(t, l) => Knows(t, l)'
    BY <2>2, <2>4, <2>5, <2>6, <2>7 DEF Knows
  <2> QED
    BY <1>5, <1>7, <2>1, <2>2, <2>3, <2>5, <2>8
<1>16. CASE EraseRow(t)
  <2>1. /\ req' = [req EXCEPT ![t] = Idle] /\ row' = [row EXCEPT ![l] = NoRow]
        /\ job' = job /\ req[t].pc = "erase"
    BY <1>6, <1>16 DEF EraseRow, End, At, store
  <2>2. /\ row' \in [Lists -> Rows \cup {NoRow}] /\ row'[l] = NoRow
        /\ \A k \in Lists : k # l => row'[k] = row[k]
    BY <1>5, <2>1
  <2>3. ASSUME up, l \notin excused', Knows(t, l)
        PROVE  Follows(l)'
    <3>1. CASE IsWorker(t)
      BY <2>1, <2>2, <2>3, <3>1 DEF Knows, Follows, Desired, Scheduled
    <3>2. CASE ~ IsWorker(t)
      <4>1. row'[l] = row[l]
        BY <1>6, <2>3, <3>2, Unexcused DEF ChangedElsewhere
      <4> QED
        BY <1>2, <2>1, <2>3, <3>2, <4>1 DEF Knows, Follows
    <3> QED
      BY <3>1, <3>2
  <2> QED
    BY <1>5, <1>8, <2>1, <2>2, <2>3
<1>17. CASE EraseFails(t)
  <2>1. req' = [req EXCEPT ![t] = Idle] /\ row' = row /\ job' = job /\ At(t, "erase")
    BY <1>17 DEF EraseFails, End, db, store
  <2>2. ASSUME up, l \notin excused', Knows(t, l)
        PROVE  Follows(l)'
    <3>1. req'[t].pc = "idle"
      BY <1>1, <2>1 DEF Idle, Shaped, ScheduleTypeOK
    <3>2. row[l] = NoRow
      BY <1>6, <2>1, <2>2, <3>1, Unexcused DEF HalfDeleted
    <3>3. CASE IsWorker(t)
      BY <2>1, <2>2, <3>2, <3>3 DEF Knows, Follows, Desired, Scheduled, At
    <3>4. CASE ~ IsWorker(t)
      BY <1>2, <2>1, <2>2, <3>4 DEF Knows, Follows
    <3> QED
      BY <3>3, <3>4
  <2> QED
    BY <1>5, <1>8, <2>1, <2>2
<1>18. CASE RereadFails(t)
  <2>1. req' = [req EXCEPT ![t] = Idle] /\ row' = row /\ job' = job /\ At(t, "reread")
        /\ faults' = faults + 1
    BY <1>18 DEF RereadFails, Fault, End, db, store
  <2>2. ASSUME up, l \notin excused', Knows(t, l)
        PROVE  Follows(l)'
    <3>1. req'[t].pc = "idle" /\ faults' # faults
      BY <1>1, <2>1, BoundsAssumption DEF Idle, Shaped, ScheduleTypeOK
    <3>2. ~ IsWorker(t)
      BY <1>6, <2>1, <2>2, <3>1, Unexcused DEF Unread
    <3> QED
      BY <1>2, <2>1, <2>2, <3>2 DEF Knows, Follows
  <2> QED
    BY <1>5, <1>8, <2>1, <2>2
<1> QED
  BY <1>9, <1>10, <1>11, <1>12, <1>13, <1>14, <1>15, <1>16, <1>17, <1>18 DEF ListStep

\* The steps of saves and pages before they reconcile, and of pause and resume.
LEMMA SaveSteps ==
  ASSUME SchedulerInv, Excuse, NEW t \in Threads,
         \/ SetScheduler(t) \/ SaveStep(t) \/ ReadTimezoneFails(t)
         \/ ReadRows(t) \/ ReadRowsFails(t)
  PROVE  SchedulerInv'
<1> USE DEF SchedulerInv
<1>1. t \in Actors /\ t # Poll /\ req[t] \in Requests /\ Sane(t, req[t])
  BY ProcessAssumption DEF Actors, Shaped, ScheduleTypeOK
<1>2. UNCHANGED <<up, schedTz, gone, lastTz, paused, row, job>>
  BY DEF SetScheduler, SaveStep, DropMemo, AskTimezone, ReadTimezone, UseTimezone,
         ReadTimezoneFails, ReadRows, ReadRowsFails, db, store
<1>3. Flat'
  <2>1. UNCHANGED budget \/ Fault
    BY DEF SetScheduler, SaveStep, DropMemo, AskTimezone, ReadTimezone, UseTimezone,
           ReadTimezoneFails, ReadRows, ReadRowsFails
  <2>2. lock' \in {lock, t} /\ apPaused' \in BOOLEAN
    BY DEF SetScheduler, SaveStep, DropMemo, AskTimezone, ReadTimezone, UseTimezone,
           ReadTimezoneFails, ReadRows, ReadRowsFails, store, Shaped, ScheduleTypeOK
  <2> QED
    BY <1>1, <1>2, <2>1, <2>2, BudgetTypes DEF Flat, Shaped, ScheduleTypeOK
<1>4. row' \in [Lists -> Rows \cup {NoRow}] /\ job' \in [Lists -> Jobs \cup {NoJob}]
  BY <1>2 DEF Shaped, ScheduleTypeOK
<1>5. ASSUME NEW r \in Requests, Sane(t, r), req' = [req EXCEPT ![t] = r],
             ~ Reconciles(t), req[t].list \notin Lists, r.list \notin Lists, r.pc # "stamp",
             r.pc = "apply" => r.rows = row
      PROVE  SchedulerInv'
  BY <1>1, <1>2, <1>3, <1>4, <1>5, ActorStep
<1>6. ASSUME req' = [req EXCEPT ![t] = Idle], ~ Reconciles(t), req[t].list \notin Lists
      PROVE  SchedulerInv'
  BY <1>1, <1>5, <1>6, IdleSane, ListIds DEF Idle
<1>7. ASSUME NEW pc \in {"ask", "await"}, req' = [req EXCEPT ![t].pc = pc],
             ~ Reconciles(t), req[t].list \notin Lists
      PROVE  SchedulerInv'
  <2> DEFINE r == [req[t] EXCEPT !.pc = pc]
  <2>1. r \in Requests /\ r.pc = pc /\ r.list = req[t].list
    BY <1>1 DEF Requests
  <2>2. Sane(t, r)
    BY <1>1, <1>7, <2>1 DEF Sane, Listed, Scheduling
  <2>3. req' = [req EXCEPT ![t] = r]
    BY <1>7
  <2> HIDE DEF r
  <2> QED
    BY <1>5, <1>7, <2>1, <2>2, <2>3
<1>8. CASE SetScheduler(t)
  <2>1. req' = [req EXCEPT ![t] = Idle] /\ req[t].pc = "flag"
    BY <1>8 DEF SetScheduler, End, At
  <2> QED
    BY <1>1, <1>6, <2>1 DEF Sane, Listed, Reconciles
<1>9. CASE DropMemo(t)
  <2>1. req' = [req EXCEPT ![t].pc = "ask"] /\ req[t].pc = "invalidate"
    BY <1>9 DEF DropMemo, To, At
  <2> QED
    BY <1>1, <1>7, <2>1 DEF Sane, Listed, Reconciles
<1>10. CASE AskTimezone(t)
  <2>1. req' = [req EXCEPT ![t].pc = "await"] /\ req[t].pc = "ask"
    BY <1>10 DEF AskTimezone, To, At
  <2> QED
    BY <1>1, <1>7, <2>1 DEF Sane, Listed, Reconciles
<1>11. CASE ReadTimezone(t) \/ ReadTimezoneFails(t)
  <2>1. UNCHANGED req
    BY <1>11 DEF ReadTimezone, ReadTimezoneFails
  <2> QED
    BY <1>2, <1>3, <2>1, QuietStep
<1>12. CASE UseTimezone(t)
  <2>1. req[t].pc = "await" /\ ~ Reconciles(t) /\ req[t].list \notin Lists
    BY <1>1, <1>12 DEF UseTimezone, At, Sane, Listed, Reconciles
  <2>2. CASE End(t)
    BY <1>6, <2>1, <2>2 DEF End
  <2>3. CASE IsWorker(t) /\ req' = [req EXCEPT ![t].pc = "rows",
                                   ![t].zone = Effective(reader[t].record.raw)]
    <3> DEFINE r == [req[t] EXCEPT !.pc = "rows", !.zone = Effective(reader[t].record.raw)]
    <3>1. req' = [req EXCEPT ![t] = r]
      BY <2>3
    <3>2. /\ r \in Requests /\ r.pc = "rows" /\ r.list = req[t].list
          /\ r.zone \in Zones
      BY <1>1, EffectiveLoads DEF Requests
    <3>3. Sane(t, r)
      BY <1>1, <2>1, <2>3, <3>2 DEF Sane, Listed, Scheduling, IsWorker, Home
    <3> HIDE DEF r
    <3> QED
      BY <1>5, <2>1, <3>1, <3>2, <3>3
  <2> QED
    BY <1>12, <2>2, <2>3 DEF UseTimezone
<1>13. CASE ReadRows(t)
  <2> DEFINE r == [req[t] EXCEPT !.pc = "apply", !.rows = row]
  <2>1. req' = [req EXCEPT ![t] = r] /\ req[t].pc = "rows"
    BY <1>13 DEF ReadRows, At
  <2>2. /\ r \in Requests /\ r.pc = "apply" /\ r.list = req[t].list
        /\ r.rows = row /\ r.zone = req[t].zone
    BY <1>1 DEF Requests, Shaped, ScheduleTypeOK
  <2>3. Sane(t, r) /\ ~ Reconciles(t) /\ req[t].list \notin Lists
    BY <1>1, <2>1, <2>2 DEF Sane, Listed, Scheduling, Reconciles
  <2> HIDE DEF r
  <2> QED
    BY <1>5, <2>1, <2>2, <2>3
<1>14. CASE ReadRowsFails(t)
  <2>1. req' = [req EXCEPT ![t] = Idle] /\ req[t].pc = "rows"
    BY <1>14 DEF ReadRowsFails, End, At
  <2> QED
    BY <1>1, <1>6, <2>1 DEF Sane, Listed, Reconciles
<1> QED
  BY <1>8, <1>9, <1>10, <1>11, <1>12, <1>13, <1>14 DEF SaveStep

\* A pass applies what it has read, and nobody has changed it meanwhile where
\* nobody is excused.
LEMMA ReconcileSteps ==
  ASSUME SchedulerInv, Excuse, NEW a \in Actors, Reconcile(a)
  PROVE  SchedulerInv'
<1> USE DEF SchedulerInv
<1>1. /\ req[a] \in Requests /\ Sane(a, req[a]) /\ Reconciles(a)
      /\ row \in [Lists -> Rows \cup {NoRow}] /\ job \in [Lists -> Jobs \cup {NoJob}]
  BY DEF Shaped, ScheduleTypeOK, Reconcile, ApplyRows, Stamp, At, Reconciles
<1>2. up /\ req[a].zone \in Zones /\ req[a].list \notin Lists
  BY <1>1 DEF Sane, Reconciles, Scheduling, Listed
<1>3. UNCHANGED <<up, gone, row, paused, apPaused, budget>>
  BY DEF Reconcile, ApplyRows, Stamp, db
<1>4. CASE ApplyRows(a)
  <2> DEFINE r == [req[a] EXCEPT !.pc = "stamp", !.rows = NoRows]
  <2>1. /\ req' = [req EXCEPT ![a] = r] /\ req[a].pc = "apply"
        /\ job' = [l \in Lists |-> Desired(req[a].rows[l], req[a].zone)]
        /\ UNCHANGED <<schedTz, lastTz, lock>>
    BY <1>4 DEF ApplyRows, At
  <2>2. /\ r \in Requests /\ r.pc = "stamp" /\ r.list = req[a].list
        /\ r.zone = req[a].zone
    BY <1>1 DEF Requests, NoRows
  <2>3. Sane(a, r)
    BY <1>1, <2>1, <2>2 DEF Sane, Listed, Scheduling
  <2> HIDE DEF r
  <2>4. job' \in [Lists -> Jobs \cup {NoJob}]
    <3>1. \A l \in Lists : req[a].rows[l] \in Rows \cup {NoRow}
      BY <1>1 DEF Requests
    <3> QED
      BY <1>2, <2>1, <3>1, DesiredType
  <2>5. Shaped'
    <3>1. Flat' /\ gone' \subseteq Lists /\ row' \in [Lists -> Rows \cup {NoRow}]
      BY <1>1, <1>3, <2>1, BudgetTypes DEF Flat, Shaped, ScheduleTypeOK
    <3> QED
      BY <1>3, <2>1, <2>2, <2>3, <2>4, <3>1, ActorShaped
  <2>6. ASSUME NEW l \in Lists \ excused'
        PROVE  Good(l)'
    <3>1. Good(l) /\ Exclusive(l)'
      BY <2>1, <2>2, StillGood, Unexcused
    <3>2. /\ req'[a] = r
          /\ \A b \in Actors : b # a => req'[b] = req[b] /\ ~ Reconciles(b)
      BY <1>1, <2>1, <3>1 DEF Good, Exclusive, Shaped, ScheduleTypeOK
    <3>3. Reconciles(a)'
      BY <2>2, <3>2 DEF Reconciles
    <3>4. ~ Free(l)' /\ l \notin gone' /\ \A t \in Threads : req'[t].list # l
      BY <3>1, <3>3 DEF Free, Exclusive
    <3>5. job'[l] = Desired(row'[l], r.zone)
      BY <1>2, <1>3, <2>1, <2>2, <3>1 DEF Good, At
    <3> QED
      BY <2>2, <3>1, <3>2, <3>4, <3>5 DEF Good, At, Reconciles
  <2> QED
    BY <2>5, <2>6
<1>5. CASE Stamp(a)
  <2>1. /\ req' = [req EXCEPT ![a] = Idle] /\ req[a].pc = "stamp" /\ job' = job
        /\ schedTz' = req[a].zone /\ lastTz' = req[a].zone /\ lock' = NoOne
    BY <1>5 DEF Stamp, End, At
  <2>2. Idle \in Requests /\ Sane(a, Idle) /\ Idle.pc = "idle" /\ Idle.list \notin Lists
    BY IdleSane, ListIds DEF Idle
  <2>3. Shaped'
    <3>1. Flat' /\ gone' \subseteq Lists /\ row' \in [Lists -> Rows \cup {NoRow}]
          /\ job' \in [Lists -> Jobs \cup {NoJob}]
      BY <1>1, <1>2, <1>3, <2>1, BudgetTypes DEF Flat, Shaped, ScheduleTypeOK
    <3> QED
      BY <1>2, <1>3, <2>1, <2>2, <3>1, ActorShaped
  <2>4. ASSUME NEW l \in Lists \ excused'
        PROVE  Good(l)'
    <3>1. Good(l) /\ Exclusive(l)'
      BY <2>1, <2>2, StillGood, Unexcused
    <3>2. /\ req'[a] = Idle
          /\ \A b \in Actors : b # a => req'[b] = req[b] /\ ~ Reconciles(b)
      BY <1>1, <2>1, <3>1 DEF Good, Exclusive, Shaped, ScheduleTypeOK
    <3>3. l \notin gone' /\ \A t \in Threads : req'[t].list # l
      BY <1>1, <1>3, <2>2, <3>1, <3>2 DEF Good, Exclusive, Actors
    <3>4. (\A b \in Actors : ~ Reconciles(b))'
      BY <2>2, <3>2 DEF Reconciles
    <3>5. Follows(l)'
      BY <1>2, <1>3, <2>1, <3>1 DEF Good, At, Follows
    <3> QED
      BY <3>1, <3>3, <3>4, <3>5 DEF Good, At, Reconciles
  <2> QED
    BY <2>3, <2>4
<1> QED
  BY <1>4, <1>5 DEF Reconcile

\* The poll.
LEMMA PollSteps ==
  ASSUME SchedulerInv, Excuse, PollStep \/ PollTickFails
  PROVE  SchedulerInv'
<1> USE DEF SchedulerInv
<1>1. Poll \in Actors /\ req[Poll] \in Requests /\ Sane(Poll, req[Poll])
  BY DEF Actors, Shaped, ScheduleTypeOK
<1>2. CASE Reconcile(Poll)
  BY <1>1, <1>2, ReconcileSteps
<1>3. ASSUME PollTick \/ PollTickFails \/ PollRests \/ PollReconciles
      PROVE  SchedulerInv'
  <2>1. UNCHANGED <<up, schedTz, gone, lastTz, paused, apPaused, row, job>>
        /\ lock' \in {lock, Poll}
    BY <1>3 DEF PollTick, PollTickFails, PollReads, PollRests, PollReconciles, db, store
  <2>2. UNCHANGED budget \/ Fault
    BY <1>3 DEF PollTick, PollTickFails, PollRests, PollReconciles
  <2>3. Flat' /\ row' \in [Lists -> Rows \cup {NoRow}] /\ job' \in [Lists -> Jobs \cup {NoJob}]
    BY <1>1, <2>1, <2>2, BudgetTypes DEF Flat, Shaped, ScheduleTypeOK
  <2>4. req[Poll].pc \in {"idle", "compare"} /\ req[Poll].list \notin Lists /\ ~ Reconciles(Poll)
    BY <1>1, <1>3 DEF PollTick, PollTickFails, PollReads, PollRests, PollReconciles, At,
                      Sane, Listed, Reconciles
  <2>5. ASSUME NEW r \in Requests, Sane(Poll, r), req' = [req EXCEPT ![Poll] = r],
               r.list \notin Lists, r.pc # "stamp", r.pc = "apply" => r.rows = row
        PROVE  SchedulerInv'
    BY <1>1, <2>1, <2>3, <2>4, <2>5, ActorStep
  <2>6. ASSUME NEW raw, PollReads(raw)
        PROVE  SchedulerInv'
    <3> DEFINE r == [req[Poll] EXCEPT !.pc = "compare", !.zone = Effective(raw)]
    <3>1. req' = [req EXCEPT ![Poll] = r] /\ up
      BY <2>6 DEF PollReads
    <3>2. /\ r \in Requests /\ r.pc = "compare" /\ r.list = req[Poll].list
          /\ r.zone \in Zones
      BY <1>1, EffectiveLoads DEF Requests
    <3>3. Sane(Poll, r)
      BY <2>4, <3>1, <3>2 DEF Sane, Listed, Scheduling, Home
    <3> HIDE DEF r
    <3> QED
      BY <2>4, <2>5, <3>1, <3>2, <3>3
  <2>7. CASE PollRests
    BY <1>1, <2>5, <2>7, IdleSane, ListIds DEF PollRests, End, Idle
  <2>8. CASE PollReconciles
    <3> DEFINE r == [req[Poll] EXCEPT !.pc = "apply", !.rows = row]
    <3>1. req' = [req EXCEPT ![Poll] = r] /\ req[Poll].pc = "compare"
      BY <2>8 DEF PollReconciles, At
    <3>2. /\ r \in Requests /\ r.pc = "apply" /\ r.list = req[Poll].list
          /\ r.zone = req[Poll].zone /\ r.rows = row
      BY <1>1 DEF Requests, Shaped, ScheduleTypeOK
    <3>3. Sane(Poll, r)
      BY <1>1, <3>1, <3>2 DEF Sane, Listed, Scheduling
    <3> HIDE DEF r
    <3> QED
      BY <2>4, <2>5, <3>1, <3>2, <3>3
  <2> QED
    BY <1>3, <2>6, <2>7, <2>8 DEF PollTick, PollTickFails
<1> QED
  BY <1>2, <1>3 DEF PollStep

----------------------------------------------------------------------------
(* Jobs that fire, processes that end                                      *)

LEMMA FireSteps ==
  ASSUME SchedulerInv, Excuse, NEW k \in Lists, FireStep(k)
  PROVE  SchedulerInv'
<1> USE DEF SchedulerInv
<1>1. UNCHANGED <<up, schedTz, lastTz, lock, paused, apPaused, row, req, budget>>
  BY DEF FireStep, FindNoList, DropOrphan, db, store
<1>2. row \in [Lists -> Rows \cup {NoRow}] /\ job \in [Lists -> Jobs \cup {NoJob}]
  BY DEF Shaped, ScheduleTypeOK
<1>3. /\ gone' \subseteq Lists
      /\ \A l \in Lists : l # k => (l \in gone' <=> l \in gone) /\ job'[l] = job[l]
      /\ job' \in [Lists -> Jobs \cup {NoJob}]
  BY <1>2 DEF FireStep, FindNoList, DropOrphan, store, Shaped, ScheduleTypeOK
<1>4. Shaped'
  <2>1. excused' \subseteq Lists
    BY ExcusedType DEF Shaped, ScheduleTypeOK
  <2> QED
    BY <1>1, <1>3, <2>1 DEF Shaped, ScheduleTypeOK, Sane, budget
<1>5. ASSUME NEW l \in Lists \ excused'
      PROVE  Good(l) /\ Exclusive(l)'
  BY <1>1, Unexcused DEF At
<1>6. ASSUME NEW l \in Lists \ excused', l # k
      PROVE  Good(l)'
  <2>1. Good(l) /\ Exclusive(l)' /\ (l \in gone' <=> l \in gone) /\ job'[l] = job[l]
    BY <1>3, <1>5, <1>6
  <2> QED
    BY <1>1, <2>1 DEF Good, Free, Follows, Knows, IsWorker, Reconciles, At
<1>7. ASSUME k \notin excused'
      PROVE  Good(k)'
  <2>1. Good(k) /\ Exclusive(k)'
    BY <1>5, <1>7
  <2>2. CASE FindNoList(k)
    <3>1. k \in gone' /\ row'[k] = NoRow
      BY <1>1, <2>2 DEF FindNoList
    <3>2. /\ \A t \in Threads : req'[t].list # k
          /\ (\A a \in Actors : ~ Reconciles(a))' /\ ~ Free(k)'
      BY <2>1, <3>1 DEF Exclusive, Free
    <3> QED
      BY <2>1, <3>1, <3>2 DEF Good, Reconciles, At
  <2>3. CASE DropOrphan(k)
    <3>1. k \in gone /\ k \notin gone' /\ job'[k] = NoJob
      BY <1>2, <2>3 DEF DropOrphan
    <3>2. /\ \A t \in Threads : req'[t].list # k
          /\ (\A a \in Actors : ~ Reconciles(a))'
      BY <1>1, <2>1, <3>1 DEF Good, Exclusive, Reconciles
    <3>3. up => row[k] = NoRow
      BY <2>1, <3>1 DEF Good
    <3>4. up => Follows(k)'
      BY <1>1, <3>1, <3>3 DEF Follows, Desired, Scheduled
    <3> QED
      BY <1>1, <2>1, <3>1, <3>2, <3>4 DEF Good, Reconciles, At
  <2> QED
    BY <2>2, <2>3 DEF FireStep
<1> QED
  BY <1>4, <1>6, <1>7

\* Nothing of the scheduler survives the end of its process; a thread of another
\* process has left the jobs alone.
LEMMA DeathSteps ==
  ASSUME SchedulerInv, Excuse, NEW p \in Procs, WorkerDies(p)
  PROVE  SchedulerInv'
<1> USE DEF SchedulerInv
<1>1. /\ row' = row /\ paused' = paused /\ UNCHANGED <<requests, faults>>
      /\ crashes < MaxCrashes /\ crashes' = crashes + 1
      /\ req' = [a \in Actors |-> IF Home(a) = p THEN Idle ELSE req[a]]
  BY DEF WorkerDies, db
<1>2. \A a \in Actors : req'[a] = IF Home(a) = p THEN Idle ELSE req[a]
  BY <1>1
<1>3. crashes' \in 0..MaxCrashes
  BY <1>1, BoundsAssumption DEF Shaped, ScheduleTypeOK
<1>4. req' \in [Actors -> Requests] /\ excused' \subseteq Lists
  BY <1>1, IdleSane, ExcusedType DEF Shaped, ScheduleTypeOK
<1>5. Idle.pc = "idle" /\ Idle.list \notin Lists
  BY ListIds DEF Idle
<1>6. \A l \in Lists \ excused' : Good(l) /\ Exclusive(l)'
  BY <1>2, <1>5, Unexcused DEF At
<1>7. CASE p = Main
  <2>1. /\ ~ up' /\ job' = [l \in Lists |-> NoJob] /\ schedTz' = NoZone /\ lastTz' = NoZone
        /\ lock' = NoOne /\ apPaused' = FALSE /\ gone' = {} /\ up' \in BOOLEAN
    BY <1>7 DEF WorkerDies
  <2>2. ASSUME NEW a \in Actors
        PROVE  Sane(a, req[a])'
    <3>1. CASE Home(a) = p
      BY <1>2, <1>5, <3>1 DEF Sane, Listed, Scheduling, Idle
    <3>2. CASE Home(a) # p
      <4>1. req'[a] = req[a] /\ Sane(a, req[a])
        BY <1>2, <3>2 DEF Shaped
      <4> QED
        BY <1>7, <3>2, <4>1 DEF Sane
    <3> QED
      BY <3>1, <3>2
  <2>3. Shaped'
    BY <1>1, <1>3, <1>4, <2>1, <2>2 DEF Shaped, ScheduleTypeOK
  <2> QED
    BY <1>6, <2>1, <2>3 DEF Good
<1>8. CASE p # Main
  <2>1. UNCHANGED <<up, job, schedTz, lastTz, lock, apPaused, gone>>
    BY <1>8 DEF WorkerDies, store
  <2>2. ASSUME NEW a \in Actors
        PROVE  Sane(a, req[a])'
    <3>1. CASE Home(a) = p
      BY <1>2, <1>5, <3>1 DEF Sane, Listed, Scheduling, Idle
    <3>2. CASE Home(a) # p
      <4>1. req'[a] = req[a] /\ Sane(a, req[a])
        BY <1>2, <3>2 DEF Shaped
      <4> QED
        BY <2>1, <4>1 DEF Sane
    <3> QED
      BY <3>1, <3>2
  <2>3. Shaped'
    BY <1>1, <1>3, <1>4, <2>1, <2>2 DEF Shaped, ScheduleTypeOK
  <2>4. ASSUME NEW l \in Lists \ excused', up
        PROVE  Good(l)'
    <3>1. Good(l) /\ Exclusive(l)' /\ (Follows(l)' <=> Follows(l))
      BY <1>1, <1>6, <2>1, <2>4 DEF Follows
    <3>2. \A a \in Actors : Reconciles(a) <=> Reconciles(a)'
      <4>1. \A a \in Actors : Reconciles(a) => Home(a) = Main
        BY DEF Shaped, Sane, Reconciles, Scheduling
      <4> QED
        BY <1>2, <1>5, <1>8, <4>1 DEF Reconciles
    <3>3. \A t \in Threads : \/ req'[t] = req[t]
                             \/ req'[t] = Idle /\ ~ IsWorker(t)
      BY <1>2, <1>8, ProcessAssumption DEF Actors, Home, IsWorker
    <3>4. Free(l)' => Follows(l)
      <4> SUFFICES ASSUME Free(l)'
                   PROVE  Follows(l)
        OBVIOUS
      <4>1. CASE Free(l)
        BY <2>4, <3>1, <4>1 DEF Good
      <4>2. ASSUME NEW t \in Threads, req[t].list = l
            PROVE  Follows(l)
        <5>1. ~ IsWorker(t)
          BY <3>3, <4>2 DEF Free
        <5> QED
          BY <2>4, <3>1, <4>2, <5>1 DEF Good, Knows
      <4> QED
        BY <2>1, <3>2, <4>1, <4>2 DEF Free
    <3>5. \A t \in Threads : req'[t].list = l => req'[t] = req[t] /\ Knows(t, l)
      BY <1>5, <2>4, <3>1, <3>3 DEF Good
    <3>6. \A t \in Threads : req'[t].list = l => Knows(t, l)'
      BY <1>1, <2>1, <3>1, <3>5 DEF Knows, IsWorker
    <3>7. \A a \in Actors : At(a, "apply")' \/ At(a, "stamp")' => req'[a] = req[a]
      BY <1>2, <1>5 DEF At
    <3> QED
      BY <1>1, <2>1, <2>4, <3>1, <3>4, <3>6, <3>7 DEF Good, At
  <2> QED
    BY <1>6, <2>1, <2>3, <2>4 DEF Good
<1> QED
  BY <1>7, <1>8

\* A restart builds the job store from the rows, as far as it can read them.
LEMMA RestartStep ==
  ASSUME SchedulerInv, Restart \/ RestartFails
  PROVE  SchedulerInv'
<1> USE DEF SchedulerInv
<1>0. PICK raw, rows :
          /\ rows \in {row, NoRows}
          /\ Boot(raw, rows)
          /\ excused' \subseteq Lists
          /\ \A l \in Lists \ excused' : Scheduled(row[l]) => rows = row
  <2>1. CASE Restart
    BY <2>1 DEF Restart
  <2>2. CASE RestartFails
    <3>1. CASE Boot(NoSetting, row) /\ excused' = {}
      BY <3>1
    <3>2. CASE Boot(setting.raw, NoRows) /\ excused' = {l \in Lists : Scheduled(row[l])}
      <4>1. excused' \subseteq Lists /\ \A l \in Lists \ excused' : ~ Scheduled(row[l])
        BY <3>2
      <4> QED
        BY <3>2, <4>1
    <3> QED
      BY <2>2, <3>1, <3>2 DEF RestartFails
  <2> QED
    BY <2>1, <2>2
<1>1. /\ req' = [a \in Actors |-> Idle] /\ gone' = {} /\ up'
      /\ row' = row /\ paused' = paused /\ requests' = requests
      /\ crashes < MaxCrashes /\ crashes' = crashes + 1
      /\ schedTz' = Effective(raw) /\ lastTz' = NoZone /\ lock' = NoOne
      /\ job' = [l \in Lists |-> Desired(rows[l], Effective(raw))]
      /\ apPaused' = FALSE /\ up' \in BOOLEAN
      /\ faults' = faults \/ (faults < MaxFaults /\ faults' = faults + 1)
  BY <1>0 DEF Restart, RestartFails, Replaced, Boot, db
<1>2. crashes' \in 0..MaxCrashes /\ faults' \in 0..MaxFaults
  BY <1>1, BoundsAssumption DEF Shaped, ScheduleTypeOK
<1>3. schedTz' \in Zones
  BY <1>1, EffectiveLoads
<1>4. job' \in [Lists -> Jobs \cup {NoJob}]
  <2>1. rows \in [Lists -> Rows \cup {NoRow}]
    BY <1>0 DEF Shaped, ScheduleTypeOK, NoRows
  <2> QED
    BY <1>1, <2>1, EffectiveLoads, DesiredType
<1>5. \A a \in Actors : req'[a] = Idle
  BY <1>1
<1>6. Idle.pc = "idle" /\ Idle.list \notin Lists
  BY ListIds DEF Idle
<1>7. \A a \in Actors : Sane(a, req[a])'
  BY <1>5, <1>6 DEF Sane, Listed, Scheduling, Idle
<1>8. Shaped'
  BY <1>0, <1>1, <1>2, <1>3, <1>4, <1>7, IdleSane DEF Shaped, ScheduleTypeOK
<1>9. ASSUME NEW l \in Lists \ excused'
      PROVE  Good(l)'
  <2>1. Follows(l)'
    <3>1. CASE Scheduled(row[l])
      BY <1>0, <1>1, <1>9, <3>1 DEF Follows
    <3>2. CASE ~ Scheduled(row[l])
      <4>1. ~ Scheduled(rows[l])
        BY <1>0, <3>2 DEF NoRows, Scheduled
      <4> QED
        BY <1>1, <3>2, <4>1 DEF Follows, Desired
    <3> QED
      BY <3>1, <3>2
  <2>2. \A t \in Threads : t \in Actors
    BY DEF Actors
  <2> QED
    BY <1>1, <1>5, <1>6, <2>1, <2>2 DEF Good, Exclusive, Reconciles, At
<1> QED
  BY <1>8, <1>9

----------------------------------------------------------------------------

LEMMA SchedulerInitInv == Init => SchedulerInv
<1> SUFFICES ASSUME Init
             PROVE  SchedulerInv
  OBVIOUS
<1>1. /\ req = [a \in Actors |-> Idle] /\ gone = {} /\ excused = {} /\ up = TRUE
      /\ row \in [Lists -> StartRows] /\ schedTz = Effective(setting.raw)
      /\ job = [l \in Lists |-> Desired(row[l], schedTz)]
      /\ paused \in BOOLEAN \cup {NoRow} /\ lastTz = NoZone /\ lock = NoOne /\ apPaused = FALSE
      /\ requests = 0 /\ faults = 0 /\ crashes = 0
  BY FlagsAssumption DEF Init
<1>2. row \in [Lists -> Rows \cup {NoRow}]
  BY <1>1, RowsAssumption
<1>3. schedTz \in Zones
  BY <1>1, EffectiveLoads
<1>4. job \in [Lists -> Jobs \cup {NoJob}]
  BY <1>1, <1>2, <1>3, DesiredType
<1>5. Idle.pc = "idle" /\ Idle.list \notin Lists
  BY ListIds DEF Idle
<1>6. Shaped
  <2>1. \A a \in Actors : req[a] = Idle
    BY <1>1
  <2>2. req \in [Actors -> Requests] /\ \A a \in Actors : Sane(a, req[a])
    BY <1>1, <2>1, IdleSane
  <2>3. 0 \in 0..MaxRequests /\ 0 \in 0..MaxFaults /\ 0 \in 0..MaxCrashes
    BY BoundsAssumption
  <2> QED
    BY <1>1, <1>2, <1>3, <1>4, <2>2, <2>3 DEF Shaped, ScheduleTypeOK
<1>7. ASSUME NEW l \in Lists
      PROVE  Good(l)
  <2>1. Follows(l)
    BY <1>1 DEF Follows
  <2>2. \A t \in Threads : t \in Actors
    BY DEF Actors
  <2> QED
    BY <1>1, <1>5, <2>1, <2>2 DEF Good, Exclusive, Reconciles, At
<1> QED
  BY <1>6, <1>7 DEF SchedulerInv

LEMMA SchedulerNextInv == SchedulerInv /\ [Next]_vars => SchedulerInv'
<1> SUFFICES ASSUME SchedulerInv, [Next]_vars
             PROVE  SchedulerInv'
  OBVIOUS
<1>1. CASE Restart \/ RestartFails
  BY <1>1, RestartStep
<1>2. ASSUME Excuse, NEW t \in Threads, Start(t) \/ ThreadStep(t) \/ ThreadFails(t)
      PROVE  SchedulerInv'
  BY <1>2, StartSteps, ListSteps, SaveSteps, ReconcileSteps
     DEF ThreadStep, ThreadFails, Actors
<1>3. ASSUME Excuse, PollStep \/ PollTickFails
      PROVE  SchedulerInv'
  BY <1>3, PollSteps
<1>4. ASSUME Excuse, NEW l \in Lists, FireStep(l)
      PROVE  SchedulerInv'
  BY <1>4, FireSteps
<1>5. ASSUME Excuse, NEW p \in Procs, WorkerDies(p)
      PROVE  SchedulerInv'
  BY <1>5, DeathSteps
<1>6. ASSUME Excuse, NEW p \in Procs, MemoExpires(p)
      PROVE  SchedulerInv'
  <2>1. UNCHANGED <<db, up, store, req, gone, budget>>
    BY <1>6 DEF MemoExpires
  <2>2. Flat'
    BY <2>1 DEF db, store, budget, Flat, SchedulerInv, Shaped, ScheduleTypeOK
  <2> QED
    BY <1>6, <2>1, <2>2, QuietStep DEF db, store
<1>7. CASE UNCHANGED vars
  <2>1. UNCHANGED <<db, up, store, req, gone, budget, excused>>
    BY <1>7 DEF vars, system
  <2> QED
    BY <2>1 DEF db, store, budget, SchedulerInv, Shaped, ScheduleTypeOK, Sane, Good,
                Exclusive, Free, Follows, Knows, IsWorker, Reconciles, At
<1> QED
  BY <1>1, <1>2, <1>3, <1>4, <1>5, <1>6, <1>7 DEF Next, Step

\* Every variable keeps its type.
THEOREM ScheduleTypeCorrect == Spec => []TypeOK
<1>1. SchedulerInv => ScheduleTypeOK
  BY DEF SchedulerInv, Shaped
<1>2. MemoTypeOK /\ ScheduleTypeOK => TypeOK
  BY DEF TypeOK
<1> QED
  BY SchedulerInitInv, SchedulerNextInv, SchedulerImplementsMemo, MemoCurrent,
     <1>1, <1>2, PTL DEF Spec

\* Job store and lists table part in no other way than two actors on one list
\* at a time, a change in another process, a row that cannot be read after its
\* commit or at the start, or a deletion that fails half way
\* (listarr/services/scheduler.py, listarr/routes/lists_routes.py).
THEOREM StoreFollows == Spec => []StoreFollowsRows
<1>1. SchedulerInv => StoreFollowsRows
  <2> SUFFICES ASSUME SchedulerInv, up, NEW l \in Lists, Touching(l) = {}, l \notin excused
               PROVE  job[l] = Desired(row[l], schedTz)
    BY DEF StoreFollowsRows
  <2>1. Good(l) /\ Free(l)
    BY FreeIsUntouched DEF SchedulerInv
  <2> QED
    BY <2>1 DEF Good, Follows
<1> QED
  BY SchedulerInitInv, SchedulerNextInv, <1>1, PTL DEF Spec

----------------------------------------------------------------------------
(* The reschedule lock                                                     *)

\* _reschedule_lock is held by the request or the poll that applies rows to the
\* job store, and by nobody else.
LockedInside == \A a \in Actors : lock = a <=> Reconciles(a)

\* Steps outside the lock.
LEMMA LockQuiet ==
  ASSUME LockedInside, lock' = lock,
         \A a \in Actors : Reconciles(a)' <=> Reconciles(a)
  PROVE  LockedInside'
BY DEF LockedInside

\* Steps of one actor outside the lock.
LEMMA LockOutside ==
  ASSUME LockedInside, lock' = lock, NEW a \in Actors, ~ Reconciles(a), ~ Reconciles(a)',
         \A b \in Actors \ {a} : req'[b] = req[b]
  PROVE  LockedInside'
<1>1. \A b \in Actors : Reconciles(b)' <=> Reconciles(b)
  BY DEF Reconciles
<1> QED
  BY <1>1, LockQuiet

LEMMA LockStart ==
  ASSUME SchedulerInv, LockedInside, NEW t \in Threads, Start(t)
  PROVE  LockedInside'
<1>1. t \in Actors /\ req[t].pc = "idle" /\ lock' = lock
  BY DEF Start, StartChange, StartCreate, StartDelete, StartPause, StartSave, StartPage,
         ConnectService, Serve, At, store, Actors
<1>2. ASSUME NEW r, r.pc \notin {"apply", "stamp"}, req' = [req EXCEPT ![t] = r]
      PROVE  LockedInside'
  <2>1. req'[t] = r /\ \A b \in Actors \ {t} : req'[b] = req[b]
    BY <1>1, <1>2 DEF SchedulerInv, Shaped, ScheduleTypeOK
  <2> QED
    BY <1>1, <1>2, <2>1, LockOutside DEF Reconciles
<1>3. \A op : /\ Started("commit", op).pc = "commit" /\ Started("reread", op).pc = "reread"
              /\ Started("drop", op).pc = "drop" /\ Started("flag", op).pc = "flag"
              /\ Started("invalidate", op).pc = "invalidate"
              /\ Started("await", op).pc = "await"
  BY DEF Started, Idle
<1>4. ASSUME NEW op \in Ops, NEW l \in Lists, NEW want \in Rows, StartChange(t, op, l, want)
      PROVE  LockedInside'
  <2> DEFINE r == [Started("commit", op) EXCEPT !.list = l, !.seen = row[l], !.want = want]
  <2>1. r.pc = "commit" /\ req' = [req EXCEPT ![t] = r]
    BY <1>4 DEF StartChange, Started, Idle
  <2> QED
    BY <1>2, <2>1
<1>5. ASSUME NEW l \in Lists, NEW want \in Rows, StartCreate(t, l, want)
      PROVE  LockedInside'
  <2> DEFINE r == [Started("reread", "create") EXCEPT !.list = l]
  <2>1. r.pc = "reread" /\ req' = [req EXCEPT ![t] = r]
    BY <1>5 DEF StartCreate, Started, Idle
  <2> QED
    BY <1>2, <2>1
<1>6. ASSUME NEW l \in Lists, StartDelete(t, l)
      PROVE  LockedInside'
  <2> DEFINE r == [Started("drop", "delete") EXCEPT !.list = l]
  <2>1. r.pc = "drop" /\ req' = [req EXCEPT ![t] = r]
    BY <1>6 DEF StartDelete, Started, Idle
  <2> QED
    BY <1>2, <2>1
<1>7. ASSUME NEW op \in Ops, StartPause(t, op)
      PROVE  LockedInside'
  BY <1>2, <1>3, <1>7 DEF StartPause
<1>8. ASSUME NEW raw \in Settings, StartSave(t, raw)
      PROVE  LockedInside'
  BY <1>2, <1>3, <1>8 DEF StartSave
<1>9. CASE StartPage(t)
  BY <1>2, <1>3, <1>9 DEF StartPage
<1>10. CASE ConnectService(t)
  BY <1>1, <1>10, LockQuiet DEF ConnectService, Reconciles
<1> QED
  BY <1>4, <1>5, <1>6, <1>7, <1>8, <1>9, <1>10 DEF Start

LEMMA LockReconcile ==
  ASSUME SchedulerInv, LockedInside, NEW a \in Actors, Reconcile(a)
  PROVE  LockedInside'
<1> USE DEF SchedulerInv, Shaped, ScheduleTypeOK
<1>1. req[a] \in Requests /\ Reconciles(a) /\ lock = a /\ Idle.pc = "idle"
  BY DEF Reconcile, ApplyRows, Stamp, At, Reconciles, LockedInside, Idle
<1>2. \A b \in Actors \ {a} : req'[b] = req[b] /\ ~ Reconciles(b)
  BY <1>1 DEF Reconcile, ApplyRows, Stamp, End, LockedInside
<1>3. CASE ApplyRows(a)
  <2>1. req'[a].pc = "stamp" /\ lock' = lock
    BY <1>1, <1>3 DEF ApplyRows, Requests
  <2> QED
    BY <1>1, <1>2, <2>1 DEF LockedInside, Reconciles
<1>4. CASE Stamp(a)
  <2>1. req'[a].pc = "idle" /\ lock' = NoOne
    BY <1>1, <1>4 DEF Stamp, End
  <2> QED
    BY <1>1, <1>2, <2>1, ProcessAssumption DEF LockedInside, Reconciles
<1> QED
  BY <1>3, <1>4 DEF Reconcile

LEMMA LockThread ==
  ASSUME SchedulerInv, LockedInside, NEW t \in Threads, ThreadStep(t) \/ ThreadFails(t)
  PROVE  LockedInside'
<1> USE DEF SchedulerInv, Shaped, ScheduleTypeOK
<1>1. t \in Actors /\ req[t] \in Requests
  BY DEF Actors
<1>2. ASSUME lock' = lock, ~ Reconciles(t), req'[t].pc \notin {"apply", "stamp"},
             \A b \in Actors \ {t} : req'[b] = req[b]
      PROVE  LockedInside'
  BY <1>1, <1>2, LockOutside DEF Reconciles
<1>3. Idle.pc = "idle"
  BY DEF Idle
<1>4. CASE ListStep(t) \/ EraseFails(t) \/ RereadFails(t)
  <2>1. lock' = lock /\ ~ Reconciles(t)
    BY <1>4 DEF ListStep, CommitChange, CommitFindsNothing, Reread, BuildTrigger, AddJob,
           RemoveJob, DropJob, EraseRow, EraseFails, RereadFails, store, At, Reconciles
  <2>2. \A b \in Actors \ {t} : req'[b] = req[b]
    BY <1>1, <1>4 DEF ListStep, CommitChange, CommitFindsNothing, Reread, BuildTrigger, AddJob,
           RemoveJob, DropJob, EraseRow, EraseFails, RereadFails, End, To
  <2>3. req'[t].pc \in {"reread", "idle", "build", "remove", "add", "erase"}
    BY <1>1, <1>3, <1>4 DEF ListStep, CommitChange, CommitFindsNothing, Reread, BuildTrigger,
           AddJob, RemoveJob, DropJob, EraseRow, EraseFails, RereadFails, End, To, Requests
  <2> QED
    BY <1>2, <2>1, <2>2, <2>3
<1>5. CASE SetScheduler(t) \/ DropMemo(t) \/ AskTimezone(t) \/ ReadRowsFails(t) \/ UseTimezone(t)
  <2>1. lock' = lock /\ ~ Reconciles(t)
    BY <1>5 DEF SetScheduler, DropMemo, AskTimezone, ReadRowsFails, UseTimezone, store, At,
           Reconciles
  <2>2. \A b \in Actors \ {t} : req'[b] = req[b]
    BY <1>1, <1>5 DEF SetScheduler, DropMemo, AskTimezone, ReadRowsFails, UseTimezone, End, To
  <2>3. req'[t].pc \in {"idle", "ask", "await", "rows"}
    BY <1>1, <1>3, <1>5 DEF SetScheduler, DropMemo, AskTimezone, ReadRowsFails, UseTimezone,
           End, To, Requests
  <2> QED
    BY <1>2, <2>1, <2>2, <2>3
<1>6. CASE ReadTimezone(t) \/ ReadTimezoneFails(t)
  BY <1>6, LockQuiet DEF ReadTimezone, ReadTimezoneFails, store, Reconciles
<1>7. CASE ReadRows(t)
  <2>1. lock = NoOne /\ lock' = t /\ \A b \in Actors \ {t} : req'[b] = req[b]
    BY <1>1, <1>7 DEF ReadRows
  <2>2. req'[t].pc = "apply"
    BY <1>1, <1>7 DEF ReadRows, Requests
  <2>3. \A b \in Actors : ~ Reconciles(b)
    BY <2>1, ProcessAssumption DEF LockedInside
  <2> QED
    BY <1>1, <2>1, <2>2, <2>3 DEF LockedInside, Reconciles
<1> QED
  BY <1>1, <1>4, <1>5, <1>6, <1>7, LockReconcile
     DEF ThreadStep, ThreadFails, SaveStep

LEMMA LockPoll ==
  ASSUME SchedulerInv, LockedInside, PollStep \/ PollTickFails
  PROVE  LockedInside'
<1> USE DEF SchedulerInv, Shaped, ScheduleTypeOK
<1>1. Poll \in Actors /\ req[Poll] \in Requests /\ Idle.pc = "idle"
  BY DEF Actors, Idle
<1>2. CASE PollTick \/ PollTickFails \/ PollRests
  <2>1. lock' = lock /\ ~ Reconciles(Poll)
    BY <1>2 DEF PollTick, PollTickFails, PollReads, PollRests, store, At, Reconciles
  <2>2. \A b \in Actors \ {Poll} : req'[b] = req[b]
    BY <1>2 DEF PollTick, PollTickFails, PollReads, PollRests, End
  <2>3. req'[Poll].pc \in {"idle", "compare"}
    BY <1>1, <1>2 DEF PollTick, PollTickFails, PollReads, PollRests, End, Requests
  <2> QED
    BY <1>1, <2>1, <2>2, <2>3, LockOutside DEF Reconciles
<1>3. CASE PollReconciles
  <2>1. lock = NoOne /\ lock' = Poll /\ \A b \in Actors \ {Poll} : req'[b] = req[b]
    BY <1>1, <1>3 DEF PollReconciles
  <2>2. req'[Poll].pc = "apply"
    BY <1>1, <1>3 DEF PollReconciles, Requests
  <2>3. \A b \in Actors : ~ Reconciles(b)
    BY <2>1, ProcessAssumption DEF LockedInside
  <2> QED
    BY <1>1, <2>1, <2>2, <2>3 DEF LockedInside, Reconciles
<1> QED
  BY <1>1, <1>2, <1>3, LockReconcile DEF PollStep

\* The lock dies with the process of the scheduler, and so does who held it.
LEMMA LockDies ==
  ASSUME SchedulerInv, LockedInside, NEW p \in Procs, WorkerDies(p)
  PROVE  LockedInside'
<1> USE DEF SchedulerInv, Shaped, ScheduleTypeOK
<1>1. Idle.pc = "idle"
  BY DEF Idle
<1>2. \A a \in Actors : req'[a] = IF Home(a) = p THEN Idle ELSE req[a]
  BY DEF WorkerDies
<1>3. \A a \in Actors : Reconciles(a) => Home(a) = Main
  BY DEF Sane, Reconciles, Scheduling
<1>4. CASE p = Main
  <2>1. lock' = NoOne /\ \A a \in Actors : ~ Reconciles(a)'
    BY <1>1, <1>2, <1>3, <1>4 DEF WorkerDies, Reconciles
  <2> QED
    BY <2>1, ProcessAssumption DEF LockedInside
<1>5. CASE p # Main
  <2>1. lock' = lock
    BY <1>5 DEF WorkerDies, store
  <2>2. \A a \in Actors : Reconciles(a)' <=> Reconciles(a)
    BY <1>1, <1>2, <1>3, <1>5 DEF Reconciles
  <2> QED
    BY <2>1, <2>2, LockQuiet
<1> QED
  BY <1>4, <1>5

LEMMA LockNext == SchedulerInv /\ LockedInside /\ [Next]_vars => LockedInside'
<1> SUFFICES ASSUME SchedulerInv, LockedInside, [Next]_vars
             PROVE  LockedInside'
  OBVIOUS
<1>1. CASE Restart \/ RestartFails
  <2>1. lock' = NoOne /\ \A a \in Actors : req'[a] = Idle
    BY <1>1 DEF Restart, RestartFails, Replaced, Boot
  <2> QED
    BY <2>1, ProcessAssumption DEF LockedInside, Reconciles, Idle
<1>2. ASSUME NEW t \in Threads, Start(t) \/ ThreadStep(t) \/ ThreadFails(t)
      PROVE  LockedInside'
  BY <1>2, LockStart, LockThread
<1>3. ASSUME NEW l \in Lists, FireStep(l)
      PROVE  LockedInside'
  BY <1>3, LockQuiet DEF FireStep, FindNoList, DropOrphan, store, Reconciles
<1>4. ASSUME NEW p \in Procs, MemoExpires(p)
      PROVE  LockedInside'
  BY <1>4, LockQuiet DEF MemoExpires, store, Reconciles
<1>5. CASE UNCHANGED vars
  BY <1>5, LockQuiet DEF vars, system, store, Reconciles
<1> QED
  BY <1>1, <1>2, <1>3, <1>4, <1>5, LockPoll, LockDies DEF Next, Step

\* The lock excludes: through failed reads, the death of a process and restarts,
\* at most one request or poll applies rows, and the lock is free when none does
\* (reconcile_scheduler_jobs and _tz_poll_tick in listarr/services/scheduler.py).
THEOREM ReconcilesLocked == Spec => []LockedInside
<1>1. Init => LockedInside
  BY ProcessAssumption DEF Init, LockedInside, Reconciles, Idle
<1> QED
  BY <1>1, LockNext, SchedulerInitInv, SchedulerNextInv, PTL DEF Spec

----------------------------------------------------------------------------
(* The zone                                                                *)

\* What the poll compares with is the zone that the scheduler runs in.
StampedZone == lastTz = NoZone \/ lastTz = schedTz

LEMMA StampedNext == StampedZone /\ [Next]_vars => StampedZone'
<1> SUFFICES ASSUME StampedZone, [Next]_vars
             PROVE  StampedZone'
  OBVIOUS
<1>1. ASSUME UNCHANGED <<schedTz, lastTz>>
      PROVE  StampedZone'
  BY <1>1 DEF StampedZone
<1>2. ASSUME NEW a \in Actors, Reconcile(a)
      PROVE  StampedZone'
  BY <1>1, <1>2 DEF Reconcile, ApplyRows, Stamp, StampedZone
<1>3. ASSUME NEW t \in Threads, Start(t) \/ ThreadStep(t) \/ ThreadFails(t)
      PROVE  StampedZone'
  <2>1. CASE Start(t)
    BY <1>1, <2>1 DEF Start, StartChange, StartCreate, StartDelete, StartPause, StartSave,
       StartPage, ConnectService, store
  <2>2. CASE ListStep(t)
    BY <1>1, <2>2 DEF ListStep, CommitChange, CommitFindsNothing, Reread, BuildTrigger,
       AddJob, RemoveJob, DropJob, EraseRow, store
  <2>3. CASE SetScheduler(t) \/ SaveStep(t) \/ ReadRows(t) \/ ThreadFails(t)
    BY <1>1, <2>3 DEF SetScheduler, SaveStep, DropMemo, AskTimezone, ReadTimezone,
       UseTimezone, ReadRows, ThreadFails, EraseFails, RereadFails, ReadTimezoneFails,
       ReadRowsFails, store
  <2> QED
    BY <1>2, <1>3, <2>1, <2>2, <2>3 DEF ThreadStep, Actors
<1>4. CASE PollStep \/ PollTickFails
  <2>1. CASE PollTick \/ PollTickFails \/ PollRests \/ PollReconciles
    BY <1>1, <2>1 DEF PollTick, PollTickFails, PollReads, PollRests, PollReconciles, store
  <2> QED
    BY <1>2, <1>4, <2>1 DEF PollStep, Actors
<1>5. ASSUME NEW l \in Lists, FireStep(l)
      PROVE  StampedZone'
  BY <1>1, <1>5 DEF FireStep, FindNoList, DropOrphan, store
<1>6. ASSUME NEW p \in Procs, MemoExpires(p) \/ WorkerDies(p)
      PROVE  StampedZone'
  BY <1>1, <1>6 DEF MemoExpires, WorkerDies, StampedZone, store
<1>7. CASE Restart \/ RestartFails
  BY <1>7 DEF Restart, RestartFails, Boot, StampedZone
<1>8. CASE UNCHANGED vars
  BY <1>1, <1>8 DEF vars, system, store
<1> QED
  BY <1>3, <1>4, <1>5, <1>6, <1>7, <1>8 DEF Next, Step

\* Once the scheduler remembers the zone of the setting, every list on which nobody
\* works and that is not excused has the job of its row in that zone.
ZoneIsApplied ==
    up /\ lastTz = Effective(setting.raw) =>
        \A l \in Lists : Touching(l) = {} /\ l \notin excused =>
            job[l] = Desired(row[l], Effective(setting.raw))

\* When the poll finds nothing to do there is nothing to do: no failed read, deferred
\* pass or overlapping save lets it remember a zone that was not applied
\* (_last_reconciled_tz in listarr/services/scheduler.py).
THEOREM RememberedZoneIsApplied == Spec => []ZoneIsApplied
<1>1. Init => StampedZone
  BY DEF Init, StampedZone
<1>2. StampedZone /\ StoreFollowsRows => ZoneIsApplied
  <2>1. Effective(setting.raw) # NoZone
    BY EffectiveLoads, ZonesAssumption
  <2> QED
    BY <2>1 DEF StampedZone, StoreFollowsRows, ZoneIsApplied
<1> QED
  BY <1>1, <1>2, StampedNext, StoreFollows, PTL DEF Spec

----------------------------------------------------------------------------
(* Pause and resume                                                        *)

\* A pause or a resume starts while no other is between its commit and its call
\* of APScheduler.  The code does not see to that.
Flagging(t) == At(t, "flag")
PausesApart == \A t, u \in Threads : ~ Flagging(t) /\ Flagging(t)' => ~ Flagging(u)

\* Then who is about to call APScheduler brings what the database says, ...
FlagBrought ==
    /\ \A t, u \in Threads : Flagging(t) /\ Flagging(u) => t = u
    /\ \A t \in Threads : Flagging(t) => paused = (req[t].op = "pause")

\* ... and otherwise a scheduler that is not paused for its users is running.
PauseFollowsFlag == apPaused => IsPaused \/ \E t \in Threads : Flagging(t)

\* There is a row of service_config to hold the flag.
Configured == paused # NoRow

PauseInv == Configured /\ FlagBrought /\ PauseFollowsFlag

\* Steps that set no flag and leave nobody at it.
LEMMA PauseQuiet ==
  ASSUME PauseInv, UNCHANGED <<paused, apPaused>>,
         \A t \in Threads : (Flagging(t)' <=> Flagging(t))
                            /\ (Flagging(t) => req'[t] = req[t])
  PROVE  PauseInv'
<1>1. FlagBrought'
  BY DEF PauseInv, FlagBrought
<1>2. Configured' /\ PauseFollowsFlag'
  BY DEF PauseInv, PauseFollowsFlag, Configured, IsPaused
<1> QED
  BY <1>1, <1>2 DEF PauseInv

\* Steps of one actor away from the flag.
LEMMA PauseAway ==
  ASSUME PauseInv, UNCHANGED <<paused, apPaused>>, NEW a \in Actors,
         ~ Flagging(a), ~ Flagging(a)', \A b \in Actors \ {a} : req'[b] = req[b]
  PROVE  PauseInv'
<1>1. \A t \in Threads : t # a => req'[t] = req[t]
  BY DEF Actors
<1> QED
  BY <1>1, PauseQuiet DEF Flagging, At

LEMMA PauseStart ==
  ASSUME SchedulerInv, PauseInv, NEW t \in Threads, Start(t), PausesApart
  PROVE  PauseInv'
<1>1. t \in Actors /\ req[t].pc = "idle" /\ apPaused' = apPaused
  BY DEF Start, StartChange, StartCreate, StartDelete, StartPause, StartSave, StartPage,
         ConnectService, Serve, At, store, Actors
<1>2. ASSUME NEW r, r.pc # "flag", paused' = paused, req' = [req EXCEPT ![t] = r]
      PROVE  PauseInv'
  <2>1. req'[t] = r /\ \A b \in Actors \ {t} : req'[b] = req[b]
    BY <1>1, <1>2 DEF SchedulerInv, Shaped, ScheduleTypeOK
  <2> QED
    BY <1>1, <1>2, <2>1, PauseAway DEF Flagging, At
<1>3. \A op : /\ Started("commit", op).pc = "commit" /\ Started("reread", op).pc = "reread"
              /\ Started("drop", op).pc = "drop" /\ Started("flag", op).pc = "flag"
              /\ Started("flag", op).op = op
              /\ Started("invalidate", op).pc = "invalidate"
              /\ Started("await", op).pc = "await"
  BY DEF Started, Idle
<1>4. ASSUME NEW op \in Ops, NEW l \in Lists, NEW want \in Rows, StartChange(t, op, l, want)
      PROVE  PauseInv'
  <2> DEFINE r == [Started("commit", op) EXCEPT !.list = l, !.seen = row[l], !.want = want]
  <2>1. r.pc = "commit" /\ req' = [req EXCEPT ![t] = r] /\ paused' = paused
    BY <1>4 DEF StartChange, Started, Idle, db
  <2> QED
    BY <1>2, <2>1
<1>5. ASSUME NEW l \in Lists, NEW want \in Rows, StartCreate(t, l, want)
      PROVE  PauseInv'
  <2> DEFINE r == [Started("reread", "create") EXCEPT !.list = l]
  <2>1. r.pc = "reread" /\ req' = [req EXCEPT ![t] = r] /\ paused' = paused
    BY <1>5 DEF StartCreate, Started, Idle
  <2> QED
    BY <1>2, <2>1
<1>6. ASSUME NEW l \in Lists, StartDelete(t, l)
      PROVE  PauseInv'
  <2> DEFINE r == [Started("drop", "delete") EXCEPT !.list = l]
  <2>1. r.pc = "drop" /\ req' = [req EXCEPT ![t] = r] /\ paused' = paused
    BY <1>6 DEF StartDelete, Started, Idle, db
  <2> QED
    BY <1>2, <2>1
<1>7. ASSUME NEW op \in Ops, StartPause(t, op)
      PROVE  PauseInv'
  <2>1. req' = [req EXCEPT ![t] = Started("flag", op)] /\ paused' = (op = "pause")
    BY <1>7 DEF StartPause, PauseInv, Configured
  <2>2. req'[t].pc = "flag" /\ req'[t].op = op
    BY <1>1, <1>3, <2>1 DEF SchedulerInv, Shaped, ScheduleTypeOK
  <2>3. \A u \in Threads : u # t => req'[u] = req[u]
    BY <1>1, <2>1 DEF SchedulerInv, Shaped, ScheduleTypeOK, Actors
  <2>4. \A u \in Threads : ~ Flagging(u)
    BY <1>1, <2>2 DEF PausesApart, Flagging, At
  <2>5. \A u \in Threads : Flagging(u)' <=> u = t
    BY <2>2, <2>3, <2>4 DEF Flagging, At
  <2>6. FlagBrought'
    BY <2>1, <2>2, <2>5 DEF FlagBrought
  <2>7. Configured'
    BY <2>1, FlagsAssumption DEF Configured
  <2> QED
    BY <2>5, <2>6, <2>7 DEF PauseInv, PauseFollowsFlag
<1>8. ASSUME NEW raw \in Settings, StartSave(t, raw)
      PROVE  PauseInv'
  BY <1>2, <1>3, <1>8 DEF StartSave, db
<1>9. CASE StartPage(t)
  BY <1>2, <1>3, <1>9 DEF StartPage, db
<1>10. CASE ConnectService(t)
  BY <1>10 DEF ConnectService, PauseInv, Configured
<1> QED
  BY <1>4, <1>5, <1>6, <1>7, <1>8, <1>9, <1>10 DEF Start

LEMMA PauseThread ==
  ASSUME SchedulerInv, PauseInv, NEW t \in Threads, ThreadStep(t) \/ ThreadFails(t)
  PROVE  PauseInv'
<1> USE DEF SchedulerInv, Shaped, ScheduleTypeOK
<1>1. t \in Actors /\ req[t] \in Requests /\ Idle.pc = "idle"
  BY DEF Actors, Idle
<1>2. ASSUME UNCHANGED <<paused, apPaused>>, req[t].pc # "flag", req'[t].pc # "flag",
             \A b \in Actors \ {t} : req'[b] = req[b]
      PROVE  PauseInv'
  BY <1>1, <1>2, PauseAway DEF Flagging, At
<1>3. CASE ListStep(t) \/ EraseFails(t) \/ RereadFails(t)
  <2>1. UNCHANGED <<paused, apPaused>> /\ req[t].pc # "flag"
    BY <1>3 DEF ListStep, CommitChange, CommitFindsNothing, Reread, BuildTrigger, AddJob,
           RemoveJob, DropJob, EraseRow, EraseFails, RereadFails, store, db, At
  <2>2. \A b \in Actors \ {t} : req'[b] = req[b]
    BY <1>1, <1>3 DEF ListStep, CommitChange, CommitFindsNothing, Reread, BuildTrigger, AddJob,
           RemoveJob, DropJob, EraseRow, EraseFails, RereadFails, End, To
  <2>3. req'[t].pc \in {"reread", "idle", "build", "remove", "add", "erase"}
    BY <1>1, <1>3 DEF ListStep, CommitChange, CommitFindsNothing, Reread, BuildTrigger,
           AddJob, RemoveJob, DropJob, EraseRow, EraseFails, RereadFails, End, To, Requests
  <2> QED
    BY <1>2, <2>1, <2>2, <2>3
<1>4. CASE DropMemo(t) \/ AskTimezone(t) \/ UseTimezone(t) \/ ReadRowsFails(t)
           \/ ReadRows(t) \/ Reconcile(t)
  <2>1. UNCHANGED <<paused, apPaused>> /\ req[t].pc # "flag"
    BY <1>4 DEF DropMemo, AskTimezone, UseTimezone, ReadRowsFails, ReadRows, Reconcile,
           ApplyRows, Stamp, store, db, At
  <2>2. \A b \in Actors \ {t} : req'[b] = req[b]
    BY <1>1, <1>4 DEF DropMemo, AskTimezone, UseTimezone, ReadRowsFails, ReadRows, Reconcile,
           ApplyRows, Stamp, End, To
  <2>3. req'[t].pc \in {"idle", "ask", "await", "rows", "apply", "stamp"}
    BY <1>1, <1>4 DEF DropMemo, AskTimezone, UseTimezone, ReadRowsFails, ReadRows, Reconcile,
           ApplyRows, Stamp, End, To, Requests
  <2> QED
    BY <1>2, <2>1, <2>2, <2>3
<1>5. CASE ReadTimezone(t) \/ ReadTimezoneFails(t)
  <2>1. UNCHANGED <<paused, apPaused, req>>
    BY <1>5 DEF ReadTimezone, ReadTimezoneFails, store, db
  <2> QED
    BY <2>1, PauseQuiet DEF Flagging, At
<1>6. CASE SetScheduler(t)
  <2>1. Flagging(t) /\ paused' = paused /\ apPaused' = (req[t].op = "pause")
    BY <1>6 DEF SetScheduler, Flagging, db
  <2>2. \A u \in Threads : ~ Flagging(u)'
    <3>1. req'[t].pc = "idle" /\ \A u \in Threads : u # t => req'[u] = req[u]
      BY <1>1, <1>6 DEF SetScheduler, End, Actors
    <3> QED
      BY <2>1, <3>1 DEF PauseInv, FlagBrought, Flagging, At
  <2>3. paused = (req[t].op = "pause")
    BY <2>1 DEF PauseInv, FlagBrought
  <2>4. apPaused' => IsPaused'
    BY <2>1, <2>3 DEF IsPaused
  <2>5. Configured'
    BY <2>1 DEF PauseInv, Configured
  <2> QED
    BY <2>2, <2>4, <2>5 DEF PauseInv, FlagBrought, PauseFollowsFlag
<1> QED
  BY <1>3, <1>4, <1>5, <1>6 DEF ThreadStep, ThreadFails, SaveStep

LEMMA PauseDies ==
  ASSUME SchedulerInv, PauseInv, NEW p \in Procs, WorkerDies(p)
  PROVE  PauseInv'
<1> USE DEF SchedulerInv, Shaped, ScheduleTypeOK
<1>1. paused' = paused /\ \A a \in Actors : req'[a] = IF Home(a) = p THEN Idle ELSE req[a]
  BY DEF WorkerDies, db
<1>2. \A t \in Threads : t \in Actors /\ (Flagging(t) => Home(t) = Main)
  BY DEF Sane, Flagging, At, Scheduling, Actors
<1>3. CASE p = Main
  <2>1. ~ apPaused' /\ \A t \in Threads : ~ Flagging(t)'
    BY <1>1, <1>2, <1>3 DEF WorkerDies, Flagging, At, Idle
  <2> QED
    BY <1>1, <2>1 DEF PauseInv, FlagBrought, PauseFollowsFlag, Configured
<1>4. CASE p # Main
  <2>1. apPaused' = apPaused
    BY <1>4 DEF WorkerDies, store
  <2>2. \A t \in Threads : (Flagging(t)' <=> Flagging(t)) /\ (Flagging(t) => req'[t] = req[t])
    BY <1>1, <1>2, <1>4 DEF Flagging, At, Idle
  <2> QED
    BY <1>1, <2>1, <2>2, PauseQuiet
<1> QED
  BY <1>3, <1>4

LEMMA PauseNext ==
  SchedulerInv /\ PauseInv /\ [PausesApart]_vars /\ [Next]_vars => PauseInv'
<1> SUFFICES ASSUME SchedulerInv, PauseInv, [PausesApart]_vars, [Next]_vars
             PROVE  PauseInv'
  OBVIOUS
<1>1. ASSUME UNCHANGED <<paused, apPaused, req>>
      PROVE  PauseInv'
  BY <1>1, PauseQuiet DEF Flagging, At
<1>2. CASE UNCHANGED vars
  BY <1>1, <1>2 DEF vars, system, store, db
<1>3. ASSUME NEW t \in Threads, Start(t) \/ ThreadStep(t) \/ ThreadFails(t)
      PROVE  PauseInv'
  BY <1>2, <1>3, PauseStart, PauseThread
<1>4. CASE PollStep \/ PollTickFails
  <2> USE DEF SchedulerInv, Shaped, ScheduleTypeOK
  <2>1. UNCHANGED <<paused, apPaused>> /\ req[Poll].pc # "flag"
    BY <1>4 DEF PollStep, PollTick, PollTickFails, PollReads, PollRests, PollReconciles,
           Reconcile, ApplyRows, Stamp, store, db, At
  <2>2. \A b \in Actors \ {Poll} : req'[b] = req[b]
    BY <1>4 DEF PollStep, PollTick, PollTickFails, PollReads, PollRests, PollReconciles,
           Reconcile, ApplyRows, Stamp, End
  <2>3. \A t \in Threads : t \in Actors \ {Poll}
    BY ProcessAssumption DEF Actors
  <2> QED
    BY <2>1, <2>2, <2>3, PauseQuiet DEF Flagging, At
<1>5. ASSUME NEW l \in Lists, FireStep(l)
      PROVE  PauseInv'
  BY <1>1, <1>5 DEF FireStep, FindNoList, DropOrphan, store, db
<1>6. ASSUME NEW p \in Procs, MemoExpires(p)
      PROVE  PauseInv'
  BY <1>1, <1>6 DEF MemoExpires, store, db
<1>7. CASE Restart \/ RestartFails
  <2>1. /\ ~ apPaused' /\ \A t \in Threads : ~ Flagging(t)'
        /\ paused' = paused
    BY <1>7 DEF Restart, RestartFails, Replaced, Boot, Flagging, At, Idle, Actors, db
  <2> QED
    BY <2>1 DEF PauseInv, FlagBrought, PauseFollowsFlag, Configured
<1> QED
  BY <1>2, <1>3, <1>4, <1>5, <1>6, <1>7, PauseDies DEF Next, Step

\* "Resumed" is true: once a service is connected, so that there is a row for the
\* flag, a scheduler that the database calls running is not paused in APScheduler,
\* through deaths and restarts, if pauses and resumes do not overlap
\* (pause_scheduler and resume_scheduler in listarr/services/scheduler.py).
THEOREM PausesFollowTheFlag ==
  Spec /\ Configured /\ [][PausesApart]_vars => []PauseFollowsFlag
<1>1. Init /\ Configured => PauseInv
  BY DEF Init, PauseInv, FlagBrought, PauseFollowsFlag, Flagging, At, Idle, Actors
<1>2. PauseInv => PauseFollowsFlag
  BY DEF PauseInv
<1> QED
  BY <1>1, <1>2, PauseNext, SchedulerInitInv, SchedulerNextInv, PTL DEF Spec

=============================================================================
