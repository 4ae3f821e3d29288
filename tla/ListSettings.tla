----------------------------- MODULE ListSettings -----------------------------
(***************************************************************************)
(* The import settings of one Sonarr list: the overrides in its row, the   *)
(* import defaults of the service, and the three pages that read and write *)
(* them (edit_list, the wizard, the settings page).  What an import uses   *)
(* is resolved from both (resolve_import_settings).                        *)
(*                                                                         *)
(* Pages show what the Sonarr server answers for ids: a tag by its label,  *)
(* a root folder or a quality profile ("option") only if it still exists.  *)
(* Every call to the server may fail, and then reads as an empty answer.   *)
(***************************************************************************)
EXTENDS Integers, FiniteSets

CONSTANTS
    Tabs,           \* browser tabs, each with one page
    Options,        \* root folders and quality profiles
    Labels,         \* labels of tags
    MaxTag,         \* bound: ids of tags
    Junk,           \* a monitor mode that Sonarr does not know
    None,
    StartRows, StartDefaults,   \* bounds: what is stored at the start
    MaxChanges, MaxSaves        \* bounds

\* season_folder is read and written like monitored.
Flags == {"monitored", "search", "season"}
Modes == {"all", "pilot", "none"}

Rows == [option : Options \cup {None}, tag : 0..MaxTag,
         flag : [Flags -> {0, 1, None}], mode : Modes \cup {Junk, None}]
DefaultRows == [option : Options, tag : 0..MaxTag,
                flag : [Flags -> BOOLEAN], mode : Modes \cup {None}]
FormValues == {"1", "0", ""}                \* of the edit page
JsonValues == {"true", "false", "null"}     \* of the other two
Pages == [kind : {"edit", "wizard", "settings"}, pc : {"new", "open", "saving"},
          option : Options \cup {None}, tag : Labels \cup {None}, tagId : 0..MaxTag,
          flag : [Flags -> FormValues \cup JsonValues], kept : JsonValues,
          mode : Modes \cup {Junk, None},
          touched : SUBSET (Flags \cup {"option", "tag", "mode"}),
          opened : Rows \cup {None}, snap : Rows \cup {None}, seen : DefaultRows \cup {None}]

ASSUME SettingsAssumption ==
    /\ StartRows \subseteq Rows /\ StartDefaults \subseteq DefaultRows \cup {None}
    /\ IsFiniteSet(Labels)
    /\ MaxTag \in Nat /\ Cardinality(Labels) <= MaxTag
    /\ MaxChanges \in Nat /\ MaxSaves \in Nat
ASSUME NoneAssumption ==
    /\ None \notin Options /\ None \notin Labels /\ None \notin Modes
    /\ None \notin {0, 1} /\ None \notin DefaultRows /\ None \notin Pages

VARIABLES
    row,        \* the overrides of the list; None inherits, and so does tag 0
    defaults,   \* the import defaults, None if there are none
    served,     \* options that the server knows
    tagOf,      \* the ids that the server has for labels, 0 for none
    lastTag,    \* the last id that it has given
    page,       \* what each tab shows
    missed,     \* history: a call failed, or the server has lost something
    changes, saves  \* counters of the bounds

server == <<served, tagOf, lastTag>>
vars == <<row, defaults, server, page, missed, changes, saves>>

----------------------------------------------------------------------------
(* Conversions                                                             *)

\* Mutant: a zero is shown as no override.
ToFormIfTrue(v) == IF v = 1 THEN "1" ELSE ""

\* _db_to_form_str, and what the edit page does with the answer
ToForm(v) == IF v = None THEN "" ELSE IF v = 1 THEN "1" ELSE "0"
FromForm(s) == IF s = "" THEN None ELSE IF s = "1" THEN 1 ELSE 0

\* _db_to_bool and _bool_to_db
ToJson(v) == IF v = 1 THEN "true" ELSE IF v = 0 THEN "false" ELSE "null"

FromJson(b) == IF b = "true" THEN 1 ELSE IF b = "false" THEN 0 ELSE None
Json(bool) == IF bool THEN "true" ELSE "false"

\* normalize_monitor_mode
Normal(mode, default) == IF mode \in Modes THEN mode ELSE default

LabelOf(id) ==
    IF id # 0 /\ \E l \in Labels : tagOf[l] = id
    THEN CHOOSE l \in Labels : tagOf[l] = id ELSE None

\* Mutant: without defaults nothing is searched for.
PayloadQuiet(d) ==
    IF d = None THEN [option |-> None, tag |-> 0, flag |-> [f \in Flags |-> f # "search"], mode |-> "all"]
    ELSE [option |-> d.option, tag |-> d.tag, flag |-> d.flag, mode |-> Normal(d.mode, "all")]

\* _wizard_defaults_payload
Payload(d) ==
    IF d = None THEN [option |-> None, tag |-> 0, flag |-> [f \in Flags |-> TRUE], mode |-> "all"]
    ELSE [option |-> d.option, tag |-> d.tag, flag |-> d.flag, mode |-> Normal(d.mode, "all")]

\* An unmonitored series is neither monitored in part nor searched for, and
\* mode "none" is not searched for.
Reconciled(s) ==
    [s EXCEPT !.mode = IF s.flag["monitored"] THEN @ ELSE "none",
              !.flag["search"] = @ /\ s.flag["monitored"] /\ s.mode # "none"]

\* resolve_import_settings
Used(r, d) ==
    LET monitorMode == IF r.mode # None THEN r.mode
                       ELSE IF d # None /\ d.mode # None THEN d.mode ELSE "all"
        override(f) == IF r.flag[f] # None THEN r.flag[f] = 1
                       ELSE IF d # None THEN d.flag[f] ELSE TRUE
    IN  Reconciled([
            option |-> IF r.option # None THEN r.option
                       ELSE IF d # None THEN d.option ELSE None,
            tag |-> IF r.tag # 0 THEN r.tag ELSE IF d # None THEN d.tag ELSE 0,
            flag |-> [f \in Flags |-> override(f)],
            mode |-> Normal(monitorMode, "all")])

----------------------------------------------------------------------------
(* Calls to the server.  "answered" says whether a call gets its answer.   *)

Calls(answers) == missed' = (missed \/ FALSE \in answers)

Fetched(answered) == IF answered THEN served ELSE {}
ShownLabel(id, answered) == IF answered THEN LabelOf(id) ELSE None

\* create_or_get_tag_id: no id if the server does not answer.
TagId(label, answered) ==
    IF label = None \/ ~ answered THEN 0
    ELSE IF tagOf[label] # 0 THEN tagOf[label] ELSE lastTag + 1

MakeTag(label, answered) ==
    IF TagId(label, answered) > lastTag
    THEN /\ lastTag < MaxTag
         /\ lastTag' = lastTag + 1
         /\ tagOf' = [tagOf EXCEPT ![label] = lastTag + 1]
         /\ UNCHANGED served
    ELSE UNCHANGED server

----------------------------------------------------------------------------
(* Pages gate a field by another                                           *)

\* What the box of a flag shows; the wizard shows the default for no override.
Box(p, f) == IF p.kind = "wizard" /\ p.flag[f] = "null"
             THEN Json(Payload(p.seen).flag[f]) ELSE p.flag[f]

Unmonitored(p) == Box(p, "monitored") \in {"0", "false"}

\* applyMonitorGating disables the mode of a page that is not monitored, and
\* search_on_add of a page that is not monitored or has mode "none".
Gated(p) == Unmonitored(p) \/ p.mode = "none"

\* Mutant: what was cleared stays cleared.
GateForgets(p, disabled) ==
    IF p.kind = "settings" /\ Gated(p) THEN [p EXCEPT !.flag["search"] = "false"] ELSE p

\* Only the settings page also clears what it disables: it keeps the value for
\* later, unless the field was disabled before, and brings it back.
Gate(p, disabled) ==
    IF p.kind # "settings" THEN p
    ELSE IF Gated(p)
    THEN [p EXCEPT !.kept = IF disabled THEN @ ELSE Json(p.flag["search"] = "true"),
                   !.flag["search"] = "false"]
    ELSE IF p.kept = "null" THEN p ELSE [p EXCEPT !.flag["search"] = p.kept]

----------------------------------------------------------------------------
(* Pages open                                                              *)

Opened(kind, option, tag, flag, mode, was, seen) ==
    [kind |-> kind, pc |-> "open", option |-> option, tag |-> tag, tagId |-> 0,
     flag |-> flag, kept |-> "null", mode |-> mode, touched |-> {}, opened |-> was,
     snap |-> None, seen |-> seen]

\* A stored tag is one that the server has.
Known(id) == id = 0 \/ \E l \in Labels : tagOf[l] = id

Init ==
    /\ row \in StartRows
    /\ defaults \in StartDefaults
    /\ served = Options
    /\ tagOf \in [Labels -> 0..Cardinality(Labels)]
    /\ \A l, k \in Labels : tagOf[l] # 0 /\ (tagOf[l] = tagOf[k] => l = k)
    /\ Known(row.tag) /\ (defaults # None => Known(defaults.tag))
    /\ lastTag = Cardinality(Labels)
    /\ page = [t \in Tabs |-> None]
    /\ missed = FALSE
    /\ changes = 0 /\ saves = 0

\* The edit page shows an option that was not fetched as "Use Default", and
\* says nothing of a tag that has no label.
OpenEdit(t, options, tags) ==
    /\ page[t] = None
    /\ Calls({options, tags})
    /\ page' = [page EXCEPT ![t] = Opened("edit",
           IF row.option \in Fetched(options) THEN row.option ELSE None,
           ShownLabel(row.tag, tags),
           [f \in Flags |-> ToForm(row.flag[f])],
           Normal(row.mode, None), row, defaults)]
    /\ UNCHANGED <<row, defaults, server, changes, saves>>

\* The wizard takes the overrides as they are, but for the label of the tag ...
OpenWizard(t, tags) ==
    /\ page[t] = None
    /\ Calls({tags})
    /\ page' = [page EXCEPT ![t] = [Opened("wizard",
           row.option, ShownLabel(row.tag, tags),
           [f \in Flags |-> ToJson(row.flag[f])], row.mode, row, None) EXCEPT !.pc = "new"]]
    /\ UNCHANGED <<row, defaults, server, changes, saves>>

\* ... and fetches the defaults on its third step, which has the fields; the
\* options that come with them may be empty.
FetchDefaults(t) ==
    /\ page[t] # None /\ page[t].pc = "new"
    /\ page' = [page EXCEPT ![t].pc = "open", ![t].seen = defaults]
    /\ UNCHANGED <<row, defaults, server, missed, changes, saves>>

\* fetch_import_settings; without defaults the page starts empty, but for the
\* mode.  The page gates its fields when it has loaded.
OpenSettings(t, options, tags) ==
    /\ page[t] = None
    /\ Calls(IF defaults = None THEN {} ELSE {options, tags})
    /\ page' = [page EXCEPT ![t] =
           IF defaults = None
           THEN Opened("settings", None, None, [f \in Flags |-> "null"], "all", None, None)
           ELSE Gate(Opened("settings",
                    IF defaults.option \in Fetched(options) THEN defaults.option ELSE None,
                    ShownLabel(defaults.tag, tags),
                    [f \in Flags |-> Json(defaults.flag[f])], Normal(defaults.mode, "all"),
                    None, defaults), FALSE)]
    /\ UNCHANGED <<row, defaults, server, changes, saves>>

----------------------------------------------------------------------------
(* The user changes a field                                                *)

Change(t, field) ==
    /\ page[t] # None /\ page[t].pc = "open"
    /\ changes < MaxChanges /\ changes' = changes + 1
    /\ UNCHANGED <<row, defaults, server, missed, saves>>

\* In the wizard a choice that equals the default is no override.
Flip(p, f) ==
    LET chosen == IF Box(p, f) = "true" THEN "false" ELSE "true"
    IN  IF chosen = Json(Payload(p.seen).flag[f]) THEN "null" ELSE chosen

\* The settings page gates again after a change of Monitor, and keeps a search
\* that its user chooses.
ChangeFlag(t, f, v) ==
    /\ Change(t, f)
    /\ f = "search" => ~ Gated(page[t])
    /\ CASE page[t].kind = "edit" -> v \in FormValues
         [] page[t].kind = "settings" -> v \in {"true", "false"}
         [] page[t].kind = "wizard" -> v = Flip(page[t], f)
    /\ LET p == [page[t] EXCEPT !.flag[f] = v, !.touched = @ \cup {f}]
       IN  page' = [page EXCEPT ![t] =
               IF f = "monitored" THEN Gate(p, Gated(page[t]))
               ELSE IF f = "search" /\ p.kind = "settings" THEN [p EXCEPT !.kept = v]
               ELSE p]

\* The wizard stores the default option as no override.
ChangeOption(t, o) ==
    /\ Change(t, "option")
    /\ o \in served \cup {None}
    /\ page' = [page EXCEPT
           ![t].option = IF page[t].kind = "wizard" /\ o = Payload(page[t].seen).option
                         THEN None ELSE o,
           ![t].touched = @ \cup {"option"}]

ChangeMode(t, m) ==
    /\ Change(t, "mode")
    /\ ~ Unmonitored(page[t])
    /\ page[t].kind = "settings" => m # None
    /\ page' = [page EXCEPT ![t] =
           Gate([page[t] EXCEPT !.mode = m, !.touched = @ \cup {"mode"}], Gated(page[t]))]

ChangeTag(t, l) ==
    /\ Change(t, "tag")
    /\ page' = [page EXCEPT ![t].tag = l, ![t].touched = @ \cup {"tag"}]

----------------------------------------------------------------------------
(* Pages are submitted                                                     *)

Save(t, kind) ==
    /\ page[t] # None /\ page[t].kind = kind /\ page[t].pc # "saving"
    /\ saves < MaxSaves /\ saves' = saves + 1

\* edit_list reads the row, then fetches the options, in which it must find
\* the one that was chosen, and the id of the tag ...
BeginEdit(t, options, tags) ==
    /\ Save(t, "edit")
    /\ page[t].option \in Fetched(options) \cup {None}
    /\ Calls({options, tags})
    /\ MakeTag(page[t].tag, tags)
    /\ page' = [page EXCEPT ![t].pc = "saving", ![t].snap = row,
                            ![t].tagId = TagId(page[t].tag, tags)]
    /\ UNCHANGED <<row, defaults, changes>>

FormRow(p) ==
    [option |-> p.option, tag |-> p.tagId,
     flag |-> [f \in Flags |-> FromForm(p.flag[f])], mode |-> Normal(p.mode, None)]

\* ... and writes the columns that differ from the row as it was read.
CommitEdit(t) ==
    /\ page[t] # None /\ page[t].pc = "saving"
    /\ LET want == FormRow(page[t])
           snap == page[t].snap
       IN  row' = [option |-> IF want.option # snap.option THEN want.option ELSE row.option,
                   tag |-> IF want.tag # snap.tag THEN want.tag ELSE row.tag,
                   flag |-> [f \in Flags |->
                       IF want.flag[f] # snap.flag[f] THEN want.flag[f] ELSE row.flag[f]],
                   mode |-> IF want.mode # snap.mode THEN want.mode ELSE row.mode]
    /\ page' = [page EXCEPT ![t] = None]
    /\ UNCHANGED <<defaults, server, missed, changes, saves>>

\* wizard_submit resolves the tag before it reads the row.
SubmitWizard(t, tags) ==
    /\ Save(t, "wizard")
    /\ Calls({tags})
    /\ MakeTag(page[t].tag, tags)
    /\ row' = [option |-> page[t].option, tag |-> TagId(page[t].tag, tags),
               flag |-> [f \in Flags |-> FromJson(page[t].flag[f])],
               mode |-> Normal(page[t].mode, None)]
    /\ page' = [page EXCEPT ![t] = None]
    /\ UNCHANGED <<defaults, changes>>

\* save_import_settings wants the folder among those it fetches and the id of
\* the tag; the page sends a flag that was never set as false.
SubmitSettings(t, tags) ==
    /\ Save(t, "settings")
    /\ page[t].option \in served
    /\ tags \/ page[t].tag = None
    /\ MakeTag(page[t].tag, tags)
    /\ defaults' = [option |-> page[t].option, tag |-> TagId(page[t].tag, tags),
                    flag |-> [f \in Flags |-> page[t].flag[f] = "true"], mode |-> page[t].mode]
    /\ page' = [page EXCEPT ![t] = None]
    /\ UNCHANGED <<row, missed, changes>>

\* In Sonarr an option or a tag is deleted.
ServerLoses ==
    /\ \/ \E o \in served : served' = served \ {o} /\ UNCHANGED <<tagOf, lastTag>>
       \/ \E l \in Labels :
              tagOf[l] # 0 /\ tagOf' = [tagOf EXCEPT ![l] = 0] /\ UNCHANGED <<served, lastTag>>
    /\ changes < MaxChanges /\ changes' = changes + 1
    /\ missed' = TRUE
    /\ UNCHANGED <<row, defaults, page, saves>>

Next ==
    \/ \E t \in Tabs :
        \/ \E o, g \in BOOLEAN : OpenEdit(t, o, g) \/ OpenSettings(t, o, g) \/ BeginEdit(t, o, g)
        \/ \E g \in BOOLEAN : OpenWizard(t, g) \/ SubmitWizard(t, g) \/ SubmitSettings(t, g)
        \/ \E f \in Flags, v \in FormValues \cup JsonValues : ChangeFlag(t, f, v)
        \/ \E o \in Options \cup {None} : ChangeOption(t, o)
        \/ \E m \in Modes \cup {None} : ChangeMode(t, m)
        \/ \E l \in Labels \cup {None} : ChangeTag(t, l)
        \/ CommitEdit(t) \/ FetchDefaults(t)
    \/ ServerLoses

Spec == Init /\ [][Next]_vars

----------------------------------------------------------------------------
(* Properties                                                              *)

TypeOK ==
    /\ row \in Rows
    /\ defaults \in DefaultRows \cup {None}
    /\ served \subseteq Options
    /\ tagOf \in [Labels -> 0..MaxTag] /\ lastTag \in 0..MaxTag
    /\ page \in [Tabs -> Pages \cup {None}]
    /\ missed \in BOOLEAN /\ changes \in 0..MaxChanges /\ saves \in 0..MaxSaves

\* The page of a tab is stored.
Stored(t, kinds) ==
    /\ page[t] # None /\ page[t].kind \in kinds /\ page'[t] = None
    /\ page[t].pc = "saving" \/ saves' # saves

\* Saving a list on either page keeps every override that the user has not
\* changed, unless somebody else has saved the list since the page was opened:
\* a stored 0 is not taken for no override, nor an override for the default that
\* equals it.  Only the option and the tag are lost when a call to the server
\* fails or the server has lost them; the option then becomes the default.
UntouchedOverridesSurvive == [][\A t \in Tabs :
    LET p == page[t] IN
    Stored(t, {"edit", "wizard"}) /\ p.opened = (IF p.kind = "edit" THEN p.snap ELSE row) =>
        /\ \A f \in Flags \ p.touched : row'.flag[f] = row.flag[f]
        /\ "mode" \in p.touched \/ p.opened.mode = Junk \/ row'.mode = row.mode
        /\ "option" \in p.touched \/ row'.option = row.option
              \/ (missed' /\ row'.option = None)
        /\ "tag" \in p.touched \/ row'.tag = row.tag \/ missed']_vars

\* What a page shows for the settings of an import: the override, or else the
\* default that was fetched; the page greys out what D-06 will force.
Shown(p) ==
    LET d == Payload(p.seen)
    IN  Reconciled([
            option |-> IF p.option # None THEN p.option ELSE d.option,
            tag |-> d.tag,
            flag |-> [f \in Flags |-> IF p.flag[f] \in {"1", "true"} THEN TRUE
                                      ELSE IF p.flag[f] \in {"0", "false"} THEN FALSE
                                      ELSE d.flag[f]],
            mode |-> Normal(p.mode, d.mode)])

\* An import that follows a save uses what the page showed, as long as the
\* defaults have not changed since: the wizard, which stores a choice that
\* equals the default as no override, its fallbacks for a service without
\* defaults, and those of the import agree.  Only a tag may be missing, if the
\* server did not answer.
ImportUsesWhatWasShown == [][\A t \in Tabs :
    LET p == page[t]
        used == Used(row', defaults)
    IN  /\ Stored(t, {"edit", "wizard"})
        /\ p.pc # "new" /\ p.seen = defaults
        /\ p.kind = "edit" => p.snap = row
        => /\ used = [Shown(p) EXCEPT !.tag = used.tag]
           /\ used.tag = (IF p.tag = None THEN Shown(p).tag ELSE tagOf'[p.tag]) \/ missed']_vars

\* Saving the settings page keeps what the user has not changed, the option
\* even when the server does not answer; a tag that the page shows is stored
\* or the save is refused, and one that it does not show was not found.  A
\* search that the user has not changed is stored as no if the page is saved
\* without monitoring or with mode "none"; else it comes through unharmed, also
\* when the page has cleared it for a while.
UntouchedDefaultsSurvive == [][\A t \in Tabs :
    LET p == page[t] IN
    Stored(t, {"settings"}) =>
        /\ p.tag # None => defaults'.tag # 0 /\ defaults'.tag = tagOf'[p.tag]
        /\ p.seen # None /\ p.seen = defaults =>
            /\ \A f \in Flags \ p.touched :
                  defaults'.flag[f] = (defaults.flag[f] /\ (f = "search" => ~ Gated(p)))
            /\ "option" \in p.touched \/ defaults'.option = defaults.option
            /\ "mode" \in p.touched \/ defaults'.mode = Normal(defaults.mode, "all")
            /\ "tag" \in p.touched \/ defaults'.tag = defaults.tag \/ missed]_vars

=============================================================================
