---------------------------- MODULE TzMemoProofs ----------------------------
(***************************************************************************)
(* What the timezone memo promises for every number of processes, threads  *)
(* and saves.                                                              *)
(***************************************************************************)
EXTENDS TzMemo, TLAPS

\* A read that will be stored is not older than the last save, and one that
\* will be answered not older than what was saved when it began.
ReadersAreCurrent ==
    \A t \in Threads :
        /\ reader[t].pc = "store" => /\ reader[t].record \in Records
                                     /\ reader[t].record.ver >= reader[t].since
        /\ reader[t].pc = "done" => reader[t].record \in Records
        /\ reader[t].pc = "store" /\ reader[t].gen = memo[ProcOf[t]].gen
               => reader[t].record.ver >= saved[ProcOf[t]]

\* Generations only grow, and nothing is saved that is not committed.
NothingAhead ==
    /\ \A p \in Procs : saved[p] <= setting.ver
    /\ \A t \in Threads : /\ reader[t].gen <= memo[ProcOf[t]].gen
                          /\ reader[t].since <= setting.ver

MemoInv ==
    MemoTypeOK /\ MemoIsCurrent /\ ReadsSeeSaves /\ ReadersAreCurrent /\ NothingAhead

\* The memo starts empty.
LEMMA MemoInitInv == MemoInit => MemoInv
  BY ThreadsAssumption, SettingsAssumption, UnsetAssumption
  DEF MemoInit, MemoInv, MemoTypeOK, MemoIsCurrent, ReadsSeeSaves, ReadersAreCurrent,
      NothingAhead, Fresh, NoRead, Records, Readers

\* Looking up, reading, storing and returning keep the invariant.
LEMMA ReaderStep ==
  ASSUME MemoInv, NEW t \in Threads,
         Lookup(t) \/ ReadSetting(t) \/ ReadFails(t) \/ Store(t) \/ Return(t)
  PROVE  MemoInv'
<1> USE ThreadsAssumption, SettingsAssumption, UnsetAssumption DEF MemoInv
<1>0. ProcOf[t] \in Procs
  OBVIOUS
<1> DEFINE Others == \A u \in Threads \ {t} : reader'[u] = reader[u]
<1>1. CASE LookupHit(t)
  <2> DEFINE rec == memo[ProcOf[t]].record
  <2>1. rec \in Records /\ rec.ver >= saved[ProcOf[t]]
    BY <1>0, <1>1 DEF LookupHit, MemoTypeOK, MemoIsCurrent
  <2>2. reader' = [reader EXCEPT ![t] = [pc |-> "done", gen |-> 0, record |-> rec,
                                         since |-> saved[ProcOf[t]]]]
    BY <1>1 DEF LookupHit
  <2> HIDE DEF rec
  <2>3. [pc |-> "done", gen |-> 0, record |-> rec, since |-> saved[ProcOf[t]]] \in Readers
    BY <1>0, <2>1 DEF Readers, MemoTypeOK
  <2>4. MemoTypeOK'
    BY <1>1, <2>2, <2>3 DEF LookupHit, MemoTypeOK
  <2>5. /\ reader'[t] = [pc |-> "done", gen |-> 0, record |-> rec,
                         since |-> saved[ProcOf[t]]]
        /\ Others /\ setting' = setting /\ memo' = memo /\ saved' = saved
    BY <1>1, <2>2 DEF LookupHit, MemoTypeOK
  <2>6. ReadsSeeSaves' /\ ReadersAreCurrent'
    BY <2>1, <2>5 DEF ReadsSeeSaves, ReadersAreCurrent
  <2>7. MemoIsCurrent'
    BY <2>5 DEF MemoIsCurrent
  <2>8. NothingAhead'
    BY <1>0, <2>5 DEF NothingAhead, MemoTypeOK
  <2> QED
    BY <2>4, <2>6, <2>7, <2>8
<1>2. CASE LookupMiss(t)
  <2> DEFINE new == [pc |-> "read", gen |-> memo[ProcOf[t]].gen, record |-> Unset,
                     since |-> saved[ProcOf[t]]]
  <2>1. reader' = [reader EXCEPT ![t] = new]
    BY <1>2 DEF LookupMiss
  <2>2. new \in Readers
    BY <1>0 DEF Readers, MemoTypeOK
  <2>3. MemoTypeOK'
    BY <1>2, <2>1, <2>2 DEF LookupMiss, MemoTypeOK
  <2>4. reader'[t] = new /\ Others /\ setting' = setting /\ memo' = memo /\ saved' = saved
    BY <1>2, <2>1 DEF LookupMiss, MemoTypeOK
  <2>5. ReadsSeeSaves' /\ ReadersAreCurrent'
    BY <2>4 DEF ReadsSeeSaves, ReadersAreCurrent
  <2>6. MemoIsCurrent'
    BY <2>4 DEF MemoIsCurrent
  <2>7. NothingAhead'
    BY <1>0, <2>4 DEF NothingAhead, MemoTypeOK
  <2> QED
    BY <2>3, <2>5, <2>6, <2>7
<1>3. ASSUME NEW raw \in Settings, Read(t, raw)
      PROVE  MemoInv'
  <2> DEFINE rec == [setting EXCEPT !.raw = raw]
  <2>1. rec \in Records /\ rec.ver = setting.ver
    BY DEF Records, MemoTypeOK
  <2>2. reader' = [reader EXCEPT ![t] = [@ EXCEPT !.pc = "store", !.record = rec]]
    BY <1>3 DEF Read
  <2> HIDE DEF rec
  <2>3. [reader[t] EXCEPT !.pc = "store", !.record = rec] \in Readers
    BY <2>1 DEF Readers, MemoTypeOK
  <2>4. /\ reader'[t] = [reader[t] EXCEPT !.pc = "store", !.record = rec]
        /\ Others /\ setting' = setting /\ memo' = memo /\ saved' = saved
    BY <1>3, <2>2 DEF Read, MemoTypeOK
  <2>5. MemoTypeOK'
    BY <2>2, <2>3, <2>4 DEF MemoTypeOK
  <2>6. /\ reader'[t].pc = "store" /\ reader'[t].record = rec
        /\ reader'[t].gen = reader[t].gen /\ reader'[t].since = reader[t].since
    BY <2>4 DEF Readers, MemoTypeOK
  <2>7. rec.ver >= reader[t].since /\ rec.ver >= saved[ProcOf[t]]
    BY <1>0, <2>1 DEF NothingAhead, Records, MemoTypeOK
  <2>8. ReadersAreCurrent'
    BY <2>1, <2>4, <2>6, <2>7 DEF ReadersAreCurrent
  <2>9. ReadsSeeSaves' /\ MemoIsCurrent' /\ NothingAhead'
    BY <2>4, <2>6 DEF ReadsSeeSaves, MemoIsCurrent, NothingAhead
  <2> QED
    BY <2>5, <2>8, <2>9
<1>4. CASE ReadSetting(t) \/ ReadFails(t)
  <2>1. setting.raw \in Settings
    BY DEF MemoTypeOK, Records
  <2> QED
    BY <1>3, <1>4, <2>1 DEF ReadSetting, ReadFails
<1>5. CASE Store(t)
  <2>1. /\ reader[t].pc = "store" /\ reader' = [reader EXCEPT ![t] = [@ EXCEPT !.pc = "done"]]
        /\ setting' = setting /\ saved' = saved
    BY <1>5 DEF Store
  <2>2. [reader[t] EXCEPT !.pc = "done"] \in Readers
    BY DEF Readers, MemoTypeOK
  <2>3. reader'[t] = [reader[t] EXCEPT !.pc = "done"] /\ Others
    BY <2>1 DEF MemoTypeOK
  <2>4. /\ reader'[t].pc = "done" /\ reader'[t].record = reader[t].record
        /\ reader'[t].gen = reader[t].gen /\ reader'[t].since = reader[t].since
    BY <2>3 DEF Readers, MemoTypeOK
  <2>5. memo' \in [Procs -> [record : Records \cup {Unset}, gen : Nat]]
    BY <1>0, <1>5 DEF Store, MemoTypeOK, ReadersAreCurrent
  <2>6. /\ \A p \in Procs : memo'[p].gen = memo[p].gen
        /\ \A p \in Procs : \/ memo'[p].record = memo[p].record
                             \/ /\ p = ProcOf[t] /\ memo[p].gen = reader[t].gen
                                /\ memo'[p].record = reader[t].record
    BY <1>0, <1>5 DEF Store, MemoTypeOK
  <2>7. MemoTypeOK'
    BY <2>1, <2>2, <2>5 DEF MemoTypeOK
  <2>8. MemoIsCurrent'
    BY <2>1, <2>6 DEF MemoIsCurrent, ReadersAreCurrent
  <2>9. ReadsSeeSaves'
    BY <2>1, <2>3, <2>4 DEF ReadsSeeSaves, ReadersAreCurrent
  <2>10. \A u \in Threads : memo'[ProcOf[u]].gen = memo[ProcOf[u]].gen
    BY <2>6
  <2>11. ReadersAreCurrent' /\ NothingAhead'
    BY <2>1, <2>3, <2>4, <2>10 DEF ReadersAreCurrent, NothingAhead
  <2> QED
    BY <2>7, <2>8, <2>9, <2>11
<1>6. CASE Return(t)
  <2>1. NoRead \in Readers
    BY DEF NoRead, Readers
  <2>2. reader'[t] = NoRead /\ Others /\ setting' = setting /\ memo' = memo /\ saved' = saved
    BY <1>6 DEF Return, MemoTypeOK
  <2>3. MemoTypeOK'
    BY <1>6, <2>1 DEF Return, MemoTypeOK
  <2>4. ReadsSeeSaves' /\ ReadersAreCurrent' /\ MemoIsCurrent'
    BY <2>2 DEF NoRead, ReadsSeeSaves, ReadersAreCurrent, MemoIsCurrent
  <2>5. NothingAhead'
    BY <1>0, <2>2 DEF NoRead, NothingAhead, MemoTypeOK, Records
  <2> QED
    BY <2>3, <2>4, <2>5
<1> QED
  BY <1>1, <1>2, <1>4, <1>5, <1>6 DEF Lookup

\* Saving, expiry and the end of processes keep the invariant.
LEMMA SaveStepInv ==
  ASSUME MemoInv,
         \/ \E raw \in Settings : CommitSetting(raw)
         \/ \E p \in Procs : Expire(p) \/ Invalidate(p)
         \/ \E P \in SUBSET Procs : Forget(P)
  PROVE  MemoInv'
<1> USE ThreadsAssumption, SettingsAssumption, UnsetAssumption
<1> USE DEF MemoInv, MemoTypeOK, MemoIsCurrent, ReadsSeeSaves, ReadersAreCurrent,
            NothingAhead, Records, Readers
<1>1. ASSUME NEW raw \in Settings, CommitSetting(raw)
      PROVE  MemoInv'
  BY <1>1 DEF CommitSetting
<1>2. ASSUME NEW p \in Procs, Expire(p)
      PROVE  MemoInv'
  BY <1>2 DEF Expire
<1>3. ASSUME NEW p \in Procs, Invalidate(p)
      PROVE  MemoInv'
  BY <1>3 DEF Invalidate
<1>4. ASSUME NEW P \in SUBSET Procs, Forget(P)
      PROVE  MemoInv'
  BY <1>4 DEF Forget, Fresh, NoRead
<1> QED
  BY <1>1, <1>2, <1>3, <1>4

\* Every step keeps the invariant.
LEMMA MemoNextInv == MemoInv /\ [MemoNext]_memoVars => MemoInv'
<1> SUFFICES ASSUME MemoInv, [MemoNext]_memoVars
             PROVE  MemoInv'
  OBVIOUS
<1>1. CASE UNCHANGED memoVars
  BY <1>1 DEF memoVars, MemoInv, MemoTypeOK, MemoIsCurrent, ReadsSeeSaves,
              ReadersAreCurrent, NothingAhead
<1>2. CASE MemoNext
  BY <1>2, ReaderStep, SaveStepInv DEF MemoNext
<1> QED
  BY <1>1, <1>2

\* A memo never keeps a setting older than the last save of its process, and
\* no read that began after that save is answered with an older one, however
\* reads, saves, expiry and restarts interleave (listarr/utils/time_utils.py).
THEOREM MemoCurrent == MemoSpec => [](MemoTypeOK /\ MemoIsCurrent /\ ReadsSeeSaves)
<1>1. MemoInv => MemoTypeOK /\ MemoIsCurrent /\ ReadsSeeSaves
  BY DEF MemoInv
<1> QED
  BY MemoInitInv, MemoNextInv, <1>1, PTL DEF MemoSpec

=============================================================================
