------------------------------- MODULE TzMemo -------------------------------
(***************************************************************************)
(* The application timezone (app_config.timezone) and its memo in each     *)
(* worker process (listarr/utils/time_utils.py).  A reader that misses the *)
(* memo reads the database outside the lock and stores what it read later; *)
(* the generation number keeps it from undoing an invalidation that came   *)
(* in between.                                                             *)
(*                                                                         *)
(* A setting carries the number of saves before it, which the program does *)
(* not keep: it says which of two records is the older.                    *)
(***************************************************************************)
EXTENDS Naturals

CONSTANTS
    Procs,      \* worker processes
    Threads,    \* threads that serve requests
    ProcOf,     \* the process of a thread
    Settings,   \* values of app_config.timezone
    NoSetting,  \* NULL: the system default
    Unset,      \* _UNSET
    MaxSaves    \* bound: saves of the timezone

Records == [raw : Settings, ver : 0..MaxSaves]
Readers == [pc : {"idle", "read", "store", "done"}, gen : Nat,
            record : Records \cup {Unset}, since : Nat]

ASSUME ThreadsAssumption == ProcOf \in [Threads -> Procs]
ASSUME SettingsAssumption == NoSetting \in Settings /\ MaxSaves \in Nat
ASSUME UnsetAssumption == Unset \notin Records

VARIABLES
    setting,    \* the committed row of app_config
    memo,       \* _tz_memo of each process
    reader,     \* a call of _get_timezone_record in each thread
    saved       \* history: version at the last invalidation in a process

memoVars == <<setting, memo, reader, saved>>

Fresh == [record |-> Unset, gen |-> 0]
NoRead == [pc |-> "idle", gen |-> 0, record |-> Unset, since |-> 0]

MemoInit ==
    /\ setting \in [raw : Settings, ver : {0}]
    /\ memo = [p \in Procs |-> Fresh]
    /\ reader = [t \in Threads |-> NoRead]
    /\ saved = [p \in Procs |-> 0]

----------------------------------------------------------------------------
(* _get_timezone_record.  "since" is history: what had been saved by this  *)
(* process when the read began.                                            *)

LookupHit(t) ==
    /\ reader[t].pc = "idle"
    /\ memo[ProcOf[t]].record # Unset
    /\ reader' = [reader EXCEPT ![t] =
           [pc |-> "done", gen |-> 0, record |-> memo[ProcOf[t]].record,
            since |-> saved[ProcOf[t]]]]
    /\ UNCHANGED <<setting, memo, saved>>

LookupMiss(t) ==
    /\ reader[t].pc = "idle"
    /\ memo[ProcOf[t]].record = Unset
    /\ reader' = [reader EXCEPT ![t] =
           [pc |-> "read", gen |-> memo[ProcOf[t]].gen, record |-> Unset,
            since |-> saved[ProcOf[t]]]]
    /\ UNCHANGED <<setting, memo, saved>>

Lookup(t) == LookupHit(t) \/ LookupMiss(t)

Read(t, raw) ==
    /\ reader[t].pc = "read"
    /\ reader' = [reader EXCEPT ![t].pc = "store",
                                ![t].record = [setting EXCEPT !.raw = raw]]
    /\ UNCHANGED <<setting, memo, saved>>

ReadSetting(t) == Read(t, setting.raw)

\* A database error reads as no setting, and is memoized like one.
ReadFails(t) == Read(t, NoSetting)

\* Mutant: the generation is not compared.
StoreAlways(t) ==
    /\ reader[t].pc = "store"
    /\ reader' = [reader EXCEPT ![t].pc = "done"]
    /\ memo' = [memo EXCEPT ![ProcOf[t]].record = reader[t].record]
    /\ UNCHANGED <<setting, saved>>

\* The record is stored unless the memo was invalidated during the read.
Store(t) ==
    /\ reader[t].pc = "store"
    /\ reader' = [reader EXCEPT ![t].pc = "done"]
    /\ memo' = IF memo[ProcOf[t]].gen = reader[t].gen
               THEN [memo EXCEPT ![ProcOf[t]].record = reader[t].record]
               ELSE memo
    /\ UNCHANGED <<setting, saved>>

Return(t) ==
    /\ reader[t].pc = "done"
    /\ reader' = [reader EXCEPT ![t] = NoRead]
    /\ UNCHANGED <<setting, memo, saved>>

\* _TZ_MEMO_TTL passes.
Expire(p) ==
    /\ memo[p].record # Unset
    /\ memo' = [memo EXCEPT ![p].record = Unset]
    /\ UNCHANGED <<setting, reader, saved>>

----------------------------------------------------------------------------
(* Saving the timezone                                                     *)

CommitSetting(raw) ==
    /\ setting.ver < MaxSaves
    /\ setting' = [raw |-> raw, ver |-> setting.ver + 1]
    /\ UNCHANGED <<memo, reader, saved>>

\* Mutant: only the generation is bumped.
InvalidateKeepsRecord(p) ==
    /\ memo' = [memo EXCEPT ![p].gen = @ + 1]
    /\ saved' = [saved EXCEPT ![p] = setting.ver]
    /\ UNCHANGED <<setting, reader>>

\* invalidate_app_timezone_memo
Invalidate(p) ==
    /\ memo' = [memo EXCEPT ![p] = [record |-> Unset, gen |-> memo[p].gen + 1]]
    /\ saved' = [saved EXCEPT ![p] = setting.ver]
    /\ UNCHANGED <<setting, reader>>

\* The processes of P end and are replaced.
Forget(P) ==
    /\ memo' = [p \in Procs |-> IF p \in P THEN Fresh ELSE memo[p]]
    /\ saved' = [p \in Procs |-> IF p \in P THEN 0 ELSE saved[p]]
    /\ reader' = [t \in Threads |-> IF ProcOf[t] \in P THEN NoRead ELSE reader[t]]
    /\ UNCHANGED setting

MemoNext ==
    \/ \E t \in Threads : \/ Lookup(t) \/ ReadSetting(t) \/ ReadFails(t)
                          \/ Store(t) \/ Return(t)
    \/ \E raw \in Settings : CommitSetting(raw)
    \/ \E p \in Procs : Expire(p) \/ Invalidate(p)
    \/ \E P \in SUBSET Procs : Forget(P)

MemoSpec == MemoInit /\ [][MemoNext]_memoVars

----------------------------------------------------------------------------
(* Properties                                                              *)

MemoTypeOK ==
    /\ setting \in Records
    /\ memo \in [Procs -> [record : Records \cup {Unset}, gen : Nat]]
    /\ reader \in [Threads -> Readers]
    /\ saved \in [Procs -> Nat]

\* A memo never holds a setting older than the one its process has last
\* saved, whatever reads were under way when the memo was invalidated.
MemoIsCurrent ==
    \A p \in Procs : memo[p].record # Unset => memo[p].record.ver >= saved[p]

\* Whoever asks after a save of this process is answered with that save or a
\* later one: the handler reconciles the schedules into the zone it returns.
ReadsSeeSaves ==
    \A t \in Threads : reader[t].pc = "done" => reader[t].record.ver >= reader[t].since

=============================================================================
