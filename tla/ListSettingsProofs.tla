-------------------------- MODULE ListSettingsProofs --------------------------
(***************************************************************************)
(* Pages keep what their users do not touch, and imports use what pages    *)
(* show: for any number of tabs, options, tags, changes and saves.         *)
(***************************************************************************)
EXTENDS ListSettings, TLAPS, FiniteSetTheorems

\* A label and an id of a tag belong together; no label goes with no tag.
Stands(label, id, tags) ==
    IF label = None THEN id = 0 ELSE id # 0 /\ tags[label] = id

\* The values that the fields of a page take.
Kinds(p) ==
    /\ p.kind = "edit" => p.flag \in [Flags -> FormValues]
    /\ p.kind = "wizard" => p.flag \in [Flags -> JsonValues]
    /\ p.kind = "settings" => p.mode \in Modes
    /\ p.kind \in {"edit", "wizard"} => p.opened \in Rows
    /\ p.pc = "new" => p.kind = "wizard"
    /\ p.pc = "saving" => p.kind = "edit" /\ p.snap \in Rows

\* A field that the user has not touched shows what was stored when the page
\* was opened, as far as the server answered.
FlagsShown(p) ==
    \A f \in Flags \ p.touched :
        /\ p.kind = "edit" => p.flag[f] = ToForm(p.opened.flag[f])
        /\ p.kind = "wizard" => p.flag[f] = ToJson(p.opened.flag[f])
        /\ p.kind = "settings" /\ p.seen # None /\ f # "search" =>
              p.flag[f] = Json(p.seen.flag[f])

\* The settings page shows the search of the defaults, or keeps it while it has
\* cleared the field.
SearchKept(p) ==
    p.kind = "settings" /\ p.seen # None /\ "search" \notin p.touched =>
        LET was == Json(p.seen.flag["search"])
        IN  IF Gated(p) THEN p.flag["search"] = "false" /\ p.kept = was
            ELSE p.flag["search"] = was /\ p.kept \in {"null", was}

ModeShown(p) ==
    "mode" \notin p.touched =>
        /\ p.kind = "edit" => p.mode = Normal(p.opened.mode, None)
        /\ p.kind = "wizard" => p.mode = p.opened.mode
        /\ p.kind = "settings" /\ p.seen # None => p.mode = Normal(p.seen.mode, "all")

OptionShown(p, lost) ==
    "option" \notin p.touched =>
        /\ p.kind = "edit" => p.option = p.opened.option \/ (lost /\ p.option = None)
        /\ p.kind = "wizard" => p.option = p.opened.option
        /\ p.kind = "settings" /\ p.seen # None => p.option \in {p.seen.option, None}

TagShown(p, tags, lost) ==
    "tag" \notin p.touched =>
        /\ p.kind \in {"edit", "wizard"} => lost \/ Stands(p.tag, p.opened.tag, tags)
        /\ p.kind = "settings" /\ p.seen # None => lost \/ Stands(p.tag, p.seen.tag, tags)

TagResolved(p, tags, lost) ==
    p.pc = "saving" => lost \/ Stands(p.tag, p.tagId, tags)

PageOK(p, tags, lost) ==
    /\ p \in Pages /\ Kinds(p)
    /\ FlagsShown(p) /\ SearchKept(p) /\ ModeShown(p) /\ OptionShown(p, lost)
    /\ TagShown(p, tags, lost) /\ TagResolved(p, tags, lost)

\* What is stored is known to the server, unless it has lost something.
ServerOK ==
    /\ missed \/ served = Options
    /\ missed \/ Known(row.tag)
    /\ missed \/ (defaults # None => Known(defaults.tag))
    /\ \A l \in Labels : tagOf[l] <= lastTag

SettingsInv ==
    /\ TypeOK
    /\ ServerOK
    /\ \A t \in Tabs : page[t] # None => PageOK(page[t], tagOf, missed)

----------------------------------------------------------------------------
(* What the steps of the server leave of the tags                          *)

\* Between two states every tag keeps its label, unless something was lost.
TagsKept == missed' \/ \A l \in Labels : tagOf[l] # 0 => tagOf'[l] = tagOf[l]

LEMMA StandsOn ==
  ASSUME NEW label \in Labels \cup {None}, NEW id, NEW tags, NEW tags2,
         Stands(label, id, tags),
         \A l \in Labels : tags[l] # 0 => tags2[l] = tags[l]
  PROVE  Stands(label, id, tags2)
BY DEF Stands

LEMMA KnownOn ==
  ASSUME NEW id, NEW tags, NEW tags2,
         id = 0 \/ \E l \in Labels : tags[l] = id,
         \A l \in Labels : tags[l] # 0 => tags2[l] = tags[l]
  PROVE  id = 0 \/ \E l \in Labels : tags2[l] = id
OBVIOUS

\* A page that nobody works on stays as good as it was.
LEMMA PageKept ==
  ASSUME NEW p, NEW tags, NEW tags2, NEW lost \in BOOLEAN, NEW lost2 \in BOOLEAN,
         PageOK(p, tags, lost), lost => lost2,
         lost2 \/ \A l \in Labels : tags[l] # 0 => tags2[l] = tags[l]
  PROVE  PageOK(p, tags2, lost2)
<1>1. p.tag \in Labels \cup {None}
  BY DEF PageOK, Pages
<1>2. OptionShown(p, lost2)
  BY DEF PageOK, OptionShown
<1>3. TagShown(p, tags2, lost2)
  BY <1>1, StandsOn DEF PageOK, TagShown
<1>4. TagResolved(p, tags2, lost2)
  BY <1>1, StandsOn DEF PageOK, TagResolved
<1> QED
  BY <1>2, <1>3, <1>4 DEF PageOK

\* The label that is shown for a tag that the server has.
LEMMA ShownStands ==
  ASSUME NEW id, NEW tags \in BOOLEAN, Known(id), tags
  PROVE  Stands(ShownLabel(id, tags), id, tagOf)
BY NoneAssumption DEF Known, ShownLabel, LabelOf, Stands

\* Looking up or creating a tag gives its id, keeps the other tags, and
\* follows the bound.
LEMMA TagMade ==
  ASSUME TypeOK, ServerOK, NEW label \in Labels \cup {None}, NEW answered \in BOOLEAN,
         MakeTag(label, answered)
  PROVE  /\ served' = served
         /\ tagOf' \in [Labels -> 0..MaxTag] /\ lastTag' \in 0..MaxTag
         /\ \A l \in Labels : tagOf'[l] <= lastTag'
         /\ \A l \in Labels : tagOf[l] # 0 => tagOf'[l] = tagOf[l]
         /\ TagId(label, answered) \in 0..MaxTag
         /\ answered => Stands(label, TagId(label, answered), tagOf')
<1>0. /\ tagOf \in [Labels -> 0..MaxTag] /\ lastTag \in 0..MaxTag /\ MaxTag \in Nat
      /\ \A l \in Labels : tagOf[l] <= lastTag
  BY SettingsAssumption DEF TypeOK, ServerOK
<1>1. CASE label = None \/ ~ answered
  <2>1. TagId(label, answered) = 0
    BY <1>1 DEF TagId
  <2>2. UNCHANGED server
    BY <1>0, <2>1 DEF MakeTag
  <2> QED
    BY <1>0, <1>1, <2>1, <2>2 DEF server, Stands
<1>2. CASE label # None /\ answered /\ tagOf[label] # 0
  <2>1. label \in Labels /\ TagId(label, answered) = tagOf[label]
    BY <1>2 DEF TagId
  <2>2. UNCHANGED server
    BY <1>0, <2>1 DEF MakeTag
  <2> QED
    BY <1>0, <1>2, <2>1, <2>2 DEF server, Stands
<1>3. CASE label # None /\ answered /\ tagOf[label] = 0
  <2>1. label \in Labels /\ TagId(label, answered) = lastTag + 1
    BY <1>3 DEF TagId
  <2>2. /\ lastTag < MaxTag /\ lastTag' = lastTag + 1 /\ served' = served
        /\ tagOf' = [tagOf EXCEPT ![label] = lastTag + 1]
    BY <1>0, <2>1 DEF MakeTag
  <2>3. \A l \in Labels : tagOf'[l] = IF l = label THEN lastTag + 1 ELSE tagOf[l]
    BY <1>0, <2>2
  <2>4. TagId(label, answered) \in 0..MaxTag /\ lastTag' \in 0..MaxTag
    BY <1>0, <2>1, <2>2
  <2>5. tagOf' \in [Labels -> 0..MaxTag]
    BY <1>0, <2>1, <2>2, <2>4
  <2>6. \A l \in Labels : tagOf'[l] <= lastTag'
    BY <1>0, <2>2, <2>3
  <2>7. \A l \in Labels : tagOf[l] # 0 => tagOf'[l] = tagOf[l]
    BY <1>3, <2>3
  <2>8. Stands(label, TagId(label, answered), tagOf')
    <3>1. tagOf'[label] = lastTag + 1 /\ lastTag + 1 # 0
      BY <1>0, <2>1, <2>3
    <3> QED
      BY <1>3, <2>1, <3>1 DEF Stands
  <2> QED
    BY <2>2, <2>4, <2>5, <2>6, <2>7, <2>8
<1> QED
  BY <1>1, <1>2, <1>3

\* Calls only add to what was missed.
LEMMA CallsMiss ==
  ASSUME NEW answers, Calls(answers), missed \in BOOLEAN
  PROVE  /\ missed' \in BOOLEAN /\ (missed => missed')
         /\ FALSE \in answers => missed'
BY DEF Calls

----------------------------------------------------------------------------
(* The search of the settings page                                         *)

LEMMA GatedOfSettings ==
  ASSUME NEW p, p.kind = "settings"
  PROVE  Gated(p) <=> p.flag["monitored"] \in {"0", "false"} \/ p.mode = "none"
BY DEF Gated, Unmonitored, Box

LEMMA GatedBoolean ==
  ASSUME NEW p
  PROVE  Gated(p) \in BOOLEAN
BY DEF Gated, Unmonitored

LEMMA JsonType ==
  ASSUME NEW b
  PROVE  /\ Json(b) \in {"true", "false"} /\ Json(b) \in JsonValues
         /\ Json(Json(b) = "true") = Json(b)
BY DEF Json, JsonValues

\* Changes of other fields leave it as it was.
LEMMA SearchStays ==
  ASSUME NEW p, NEW q, SearchKept(p),
         q.kind = p.kind, q.seen = p.seen, q.mode = p.mode, q.kept = p.kept,
         q.flag["search"] = p.flag["search"], q.flag["monitored"] = p.flag["monitored"],
         p.touched \subseteq q.touched
  PROVE  SearchKept(q)
<1>1. q.kind = "settings" => (Gated(q) <=> Gated(p))
  BY GatedOfSettings
<1> QED
  BY <1>1 DEF SearchKept

\* Gating a page changes nothing but the search, and that only in settings.
LEMMA GateFields ==
  ASSUME NEW p \in Pages, NEW disabled \in BOOLEAN, NEW q, q = Gate(p, disabled), Kinds(p)
  PROVE  /\ q \in Pages /\ Kinds(q)
         /\ q.kind = p.kind /\ q.pc = p.pc /\ q.opened = p.opened /\ q.seen = p.seen
         /\ q.touched = p.touched /\ q.mode = p.mode /\ q.option = p.option /\ q.tag = p.tag
         /\ \A f \in Flags : q.flag[f] = p.flag[f] \/ (p.kind = "settings" /\ f = "search")
         /\ p.kind = "settings" => (Gated(q) <=> Gated(p))
         /\ p.kind = "settings" =>
               IF Gated(p)
               THEN /\ q.flag["search"] = "false"
                    /\ q.kept = IF disabled THEN p.kept ELSE Json(p.flag["search"] = "true")
               ELSE /\ q.kept = p.kept
                    /\ q.flag["search"] = IF p.kept = "null" THEN p.flag["search"] ELSE p.kept
<1>0. /\ p.flag \in [Flags -> FormValues \cup JsonValues] /\ p.kept \in JsonValues
      /\ "search" \in Flags /\ "monitored" \in Flags
      /\ "false" \in FormValues \cup JsonValues
  BY DEF Pages, Flags, JsonValues
<1>1. CASE p.kind # "settings"
  BY <1>1 DEF Gate
<1>2. ASSUME NEW k \in JsonValues, NEW v \in FormValues \cup JsonValues,
             p.kind = "settings", q = [p EXCEPT !.kept = k, !.flag["search"] = v]
      PROVE  /\ q \in Pages /\ Kinds(q)
             /\ q.kind = p.kind /\ q.pc = p.pc /\ q.opened = p.opened /\ q.seen = p.seen
             /\ q.touched = p.touched /\ q.mode = p.mode /\ q.option = p.option
             /\ q.tag = p.tag
             /\ \A f \in Flags : q.flag[f] = p.flag[f] \/ (p.kind = "settings" /\ f = "search")
             /\ q.flag["search"] = v /\ q.kept = k /\ (Gated(q) <=> Gated(p))
  <2> DEFINE g == [p.flag EXCEPT !["search"] = v]
  <2>0. g \in [Flags -> FormValues \cup JsonValues]
    BY <1>0
  <2>a. q = [p EXCEPT !.kept = k, !.flag = g]
    BY <1>2
  <2>g. g = [p.flag EXCEPT !["search"] = v]
    OBVIOUS
  <2> HIDE DEF g
  <2>1. /\ q \in Pages
        /\ q.kind = p.kind /\ q.pc = p.pc /\ q.opened = p.opened /\ q.seen = p.seen
        /\ q.touched = p.touched /\ q.mode = p.mode /\ q.option = p.option
        /\ q.tag = p.tag /\ q.kept = k /\ q.flag = g
        /\ q.snap = p.snap
    BY <2>0, <2>a DEF Pages
  <2>2. q.flag["search"] = v /\ \A f \in Flags : f # "search" => q.flag[f] = p.flag[f]
    BY <1>0, <2>1, <2>g
  <2>3. Gated(q) <=> Gated(p)
    <3>1. q.flag["monitored"] = p.flag["monitored"] /\ q.kind = "settings" /\ q.mode = p.mode
      BY <1>0, <1>2, <2>1, <2>2
    <3>2. /\ Gated(p) <=> p.flag["monitored"] \in {"0", "false"} \/ p.mode = "none"
          /\ Gated(q) <=> q.flag["monitored"] \in {"0", "false"} \/ q.mode = "none"
      BY <1>2, <3>1, GatedOfSettings
    <3> QED
      BY <3>1, <3>2
  <2>4. Kinds(q)
    BY <1>2, <2>1 DEF Kinds
  <2> QED
    BY <1>2, <2>1, <2>2, <2>3, <2>4
<1>3. CASE p.kind = "settings" /\ Gated(p)
  <2> DEFINE k == IF disabled THEN p.kept ELSE Json(p.flag["search"] = "true")
  <2>1. q = [p EXCEPT !.kept = k, !.flag["search"] = "false"]
    BY <1>3 DEF Gate
  <2>2. k \in JsonValues
    BY <1>0, JsonType
  <2>k. k = IF disabled THEN p.kept ELSE Json(p.flag["search"] = "true")
    OBVIOUS
  <2> HIDE DEF k
  <2> QED
    BY <1>0, <1>2, <1>3, <2>1, <2>2, <2>k
<1>4. CASE p.kind = "settings" /\ ~ Gated(p) /\ p.kept = "null"
  BY <1>4 DEF Gate
<1>5. CASE p.kind = "settings" /\ ~ Gated(p) /\ p.kept # "null"
  <2>1. q = [p EXCEPT !.flag["search"] = p.kept]
    BY <1>5 DEF Gate
  <2>2. q = [p EXCEPT !.kept = p.kept, !.flag["search"] = p.kept]
    BY <2>1 DEF Pages
  <2> QED
    BY <1>0, <1>2, <1>5, <2>2
<1> QED
  BY <1>1, <1>3, <1>4, <1>5

\* A page that shows or keeps the search of the defaults does so when gated.
LEMMA GateKeeps ==
  ASSUME NEW p \in Pages, Kinds(p), NEW disabled \in BOOLEAN,
         LET was == Json(p.seen.flag["search"])
         IN  IF disabled THEN p.kept = was
             ELSE p.flag["search"] = was /\ p.kept \in {"null", was}
  PROVE  SearchKept(Gate(p, disabled))
<1> DEFINE was == Json(p.seen.flag["search"])
           q == Gate(p, disabled)
<1>1. was \in {"true", "false"} /\ Json(was = "true") = was
  BY JsonType
<1>2. IF disabled THEN p.kept = was ELSE p.flag["search"] = was /\ p.kept \in {"null", was}
  OBVIOUS
<1>3. /\ q.kind = p.kind /\ q.seen = p.seen
      /\ p.kind = "settings" => (Gated(q) <=> Gated(p))
      /\ p.kind = "settings" =>
            IF Gated(p)
            THEN /\ q.flag["search"] = "false"
                 /\ q.kept = IF disabled THEN p.kept ELSE Json(p.flag["search"] = "true")
            ELSE /\ q.kept = p.kept
                 /\ q.flag["search"] = IF p.kept = "null" THEN p.flag["search"] ELSE p.kept
  BY GateFields
<1> HIDE DEF was, q
<1>4. p.kind = "settings" =>
        IF Gated(q) THEN q.flag["search"] = "false" /\ q.kept = was
        ELSE q.flag["search"] = was /\ q.kept \in {"null", was}
  BY <1>1, <1>2, <1>3
<1>5. q.seen = p.seen
  BY <1>3
<1> QED
  BY <1>3, <1>4, <1>5 DEF SearchKept, was, q

\* Gating a page again, after a change of another field.
LEMMA Regated ==
  ASSUME NEW p, NEW r \in Pages, Kinds(r), SearchKept(p), NEW q, q = Gate(r, Gated(p)),
         r.kind = p.kind, r.seen = p.seen, r.kept = p.kept,
         r.flag["search"] = p.flag["search"],
         "search" \in p.touched <=> "search" \in r.touched
  PROVE  /\ q \in Pages /\ Kinds(q) /\ SearchKept(q)
         /\ q.kind = r.kind /\ q.pc = r.pc /\ q.opened = r.opened /\ q.seen = r.seen
         /\ q.touched = r.touched /\ q.mode = r.mode /\ q.option = r.option /\ q.tag = r.tag
         /\ \A f \in Flags : q.flag[f] = r.flag[f] \/ (r.kind = "settings" /\ f = "search")
<1>0. Gated(p) \in BOOLEAN
  BY GatedBoolean
<1>1. /\ q \in Pages /\ Kinds(q)
      /\ q.kind = r.kind /\ q.pc = r.pc /\ q.opened = r.opened /\ q.seen = r.seen
      /\ q.touched = r.touched /\ q.mode = r.mode /\ q.option = r.option /\ q.tag = r.tag
      /\ \A f \in Flags : q.flag[f] = r.flag[f] \/ (r.kind = "settings" /\ f = "search")
  BY <1>0, GateFields
<1>2. SearchKept(q)
  <2>1. CASE r.kind = "settings" /\ r.seen # None /\ "search" \notin r.touched
    <3>1. LET was == Json(r.seen.flag["search"])
          IN  IF Gated(p) THEN r.kept = was
              ELSE r.flag["search"] = was /\ r.kept \in {"null", was}
      BY <2>1 DEF SearchKept
    <3> QED
      BY <1>0, <3>1, GateKeeps
  <2>2. CASE ~ (r.kind = "settings" /\ r.seen # None /\ "search" \notin r.touched)
    BY <1>1, <2>2 DEF SearchKept
  <2> QED
    BY <2>1, <2>2
<1> QED
  BY <1>1, <1>2

----------------------------------------------------------------------------
(* Steps of one tab                                                        *)

\* The other tabs keep their pages.
LEMMA TabStep ==
  ASSUME SettingsInv, NEW t \in Tabs, NEW q,
         page' = [page EXCEPT ![t] = q],
         q = None \/ PageOK(q, tagOf', missed'),
         missed' \in BOOLEAN, missed => missed', TagsKept
  PROVE  /\ page' \in [Tabs -> Pages \cup {None}]
         /\ \A u \in Tabs : page'[u] # None => PageOK(page'[u], tagOf', missed')
<1>1. page \in [Tabs -> Pages \cup {None}] /\ missed \in BOOLEAN
  BY DEF SettingsInv, TypeOK
<1>2. q \in Pages \cup {None}
  BY DEF PageOK
<1>3. ASSUME NEW u \in Tabs, u # t, page[u] # None
      PROVE  PageOK(page[u], tagOf', missed')
  <2>1. PageOK(page[u], tagOf, missed)
    BY <1>3 DEF SettingsInv
  <2> QED
    BY <1>1, <2>1, PageKept DEF TagsKept
<1> QED
  BY <1>1, <1>2, <1>3

LEMMA ToFormType ==
  ASSUME NEW v \in {0, 1, None}
  PROVE  /\ ToForm(v) \in FormValues /\ FromForm(ToForm(v)) = v
         /\ ToJson(v) \in JsonValues /\ FromJson(ToJson(v)) = v
BY DEF ToForm, FromForm, ToJson, FromJson, FormValues, JsonValues

LEMMA NormalType ==
  ASSUME NEW mode, NEW default \in Modes \cup {None}
  PROVE  Normal(mode, default) \in Modes \cup {None}
BY DEF Normal

LEMMA LabelType ==
  ASSUME NEW id, NEW answered
  PROVE  ShownLabel(id, answered) \in Labels \cup {None}
BY DEF ShownLabel, LabelOf

\* A step that only changes a page.
LEMMA PageOnly ==
  ASSUME SettingsInv, NEW t \in Tabs, NEW q,
         page' = [page EXCEPT ![t] = q],
         q = None \/ PageOK(q, tagOf, missed),
         UNCHANGED <<row, defaults, server, missed, saves>>,
         changes' \in 0..MaxChanges
  PROVE  SettingsInv'
<1>1. /\ row' = row /\ defaults' = defaults /\ served' = served
      /\ tagOf' = tagOf /\ lastTag' = lastTag /\ missed' = missed /\ saves' = saves
  BY DEF server
<1>2. missed' \in BOOLEAN /\ (missed => missed') /\ TagsKept
  BY <1>1 DEF SettingsInv, TypeOK, TagsKept
<1>3. q = None \/ PageOK(q, tagOf', missed')
  BY <1>1
<1>4. /\ page' \in [Tabs -> Pages \cup {None}]
      /\ \A u \in Tabs : page'[u] # None => PageOK(page'[u], tagOf', missed')
  BY <1>2, <1>3, TabStep
<1>5. TypeOK'
  <2>1. TypeOK
    BY DEF SettingsInv
  <2>2. page' \in [Tabs -> Pages \cup {None}]
    BY <1>4
  <2> QED
    BY <1>1, <2>1, <2>2 DEF TypeOK
<1>6. ServerOK'
  BY <1>1 DEF SettingsInv, ServerOK, Known
<1> QED
  BY <1>4, <1>5, <1>6 DEF SettingsInv

LEMMA OpenEditOK ==
  ASSUME SettingsInv, NEW t \in Tabs, NEW options \in BOOLEAN, NEW tags \in BOOLEAN,
         OpenEdit(t, options, tags)
  PROVE  SettingsInv'
<1> DEFINE option == IF row.option \in Fetched(options) THEN row.option ELSE None
           tag == ShownLabel(row.tag, tags)
           flag == [f \in Flags |-> ToForm(row.flag[f])]
           mode == Normal(row.mode, None)
           q == Opened("edit", option, tag, flag, mode, row, defaults)
<1>0. /\ row \in Rows /\ defaults \in DefaultRows \cup {None} /\ missed \in BOOLEAN
      /\ served \subseteq Options
      /\ missed \/ served = Options
      /\ missed \/ Known(row.tag)
  BY DEF SettingsInv, TypeOK, ServerOK
<1>1. /\ page' = [page EXCEPT ![t] = q] /\ Calls({options, tags})
      /\ UNCHANGED <<row, defaults, server, changes, saves>>
  BY DEF OpenEdit
<1>2. /\ missed' \in BOOLEAN /\ (missed => missed')
      /\ ~ options \/ ~ tags => missed'
  BY <1>0, <1>1, CallsMiss
<1>3. /\ option \in Options \cup {None} /\ tag \in Labels \cup {None}
      /\ flag \in [Flags -> FormValues]
      /\ mode \in Modes \cup {None}
  <2>1. \A f \in Flags : row.flag[f] \in {0, 1, None}
    BY <1>0 DEF Rows
  <2>2. row.option \in Options \cup {None}
    BY <1>0 DEF Rows
  <2> QED
    BY <2>1, <2>2, ToFormType, LabelType, NormalType
<1>q. q = Opened("edit", option, tag, flag, mode, row, defaults)
  OBVIOUS
<1> HIDE DEF option, tag, flag, mode, q
<1>4. /\ q \in Pages /\ q.kind = "edit" /\ q.pc = "open" /\ q.option = option /\ q.tag = tag
      /\ q.flag = flag /\ q.mode = mode /\ q.touched = {} /\ q.opened = row /\ q.seen = defaults
  <2>0. "null" \in JsonValues
    BY DEF JsonValues
  <2>1. flag \in [Flags -> FormValues \cup JsonValues]
    BY <1>3
  <2>2. row \in Rows \cup {None} /\ mode \in Modes \cup {Junk, None}
    BY <1>0, <1>3
  <2>3. MaxTag \in Nat
    BY SettingsAssumption
  <2> QED
    BY <1>0, <1>3, <1>q, <2>0, <2>1, <2>2, <2>3 DEF Opened, Pages
<1>5. PageOK(q, tagOf', missed')
  <2>1. Kinds(q)
    BY <1>0, <1>3, <1>4 DEF Kinds
  <2>2. FlagsShown(q) /\ SearchKept(q)
    BY <1>4 DEF FlagsShown, SearchKept, flag
  <2>3. ModeShown(q)
    BY <1>4 DEF ModeShown, mode
  <2>4. OptionShown(q, missed')
    <3>1. row.option \in Options \cup {None}
      BY <1>0 DEF Rows
    <3>2. option = row.option \/ (missed' /\ option = None)
      BY <1>0, <1>2, <3>1 DEF option, Fetched
    <3> QED
      BY <1>4, <3>2 DEF OptionShown
  <2>5. TagShown(q, tagOf', missed')
    <3>1. missed' \/ Stands(tag, row.tag, tagOf)
      BY <1>0, <1>2, ShownStands DEF tag
    <3>2. tagOf' = tagOf
      BY <1>1 DEF server
    <3> QED
      BY <1>4, <3>1, <3>2 DEF TagShown
  <2>6. TagResolved(q, tagOf', missed')
    BY <1>4 DEF TagResolved
  <2> QED
    BY <1>4, <2>1, <2>2, <2>3, <2>4, <2>5, <2>6 DEF PageOK
<1>6. TagsKept
  BY <1>1 DEF TagsKept, server
<1>7. /\ page' \in [Tabs -> Pages \cup {None}]
      /\ \A u \in Tabs : page'[u] # None => PageOK(page'[u], tagOf', missed')
  BY <1>1, <1>2, <1>5, <1>6, TabStep
<1>8. TypeOK'
  BY <1>1, <1>2, <1>7 DEF SettingsInv, TypeOK, server
<1>9. ServerOK'
  BY <1>1, <1>2 DEF SettingsInv, ServerOK, server, Known
<1> QED
  BY <1>7, <1>8, <1>9 DEF SettingsInv

LEMMA OpenWizardOK ==
  ASSUME SettingsInv, NEW t \in Tabs, NEW tags \in BOOLEAN, OpenWizard(t, tags)
  PROVE  SettingsInv'
<1> DEFINE tag == ShownLabel(row.tag, tags)
           flag == [f \in Flags |-> ToJson(row.flag[f])]
           q == [Opened("wizard", row.option, tag, flag, row.mode, row, None)
                   EXCEPT !.pc = "new"]
<1>0. /\ row \in Rows /\ missed \in BOOLEAN /\ (missed \/ Known(row.tag))
  BY DEF SettingsInv, TypeOK, ServerOK
<1>1. /\ page' = [page EXCEPT ![t] = q] /\ Calls({tags})
      /\ UNCHANGED <<row, defaults, server, changes, saves>>
  BY DEF OpenWizard
<1>2. /\ missed' \in BOOLEAN /\ (missed => missed') /\ (~ tags => missed')
  BY <1>0, <1>1, CallsMiss
<1>3. /\ tag \in Labels \cup {None} /\ flag \in [Flags -> JsonValues]
      /\ row.option \in Options \cup {None} /\ row.mode \in Modes \cup {Junk, None}
  <2>1. \A f \in Flags : row.flag[f] \in {0, 1, None}
    BY <1>0 DEF Rows
  <2>2. row.option \in Options \cup {None} /\ row.mode \in Modes \cup {Junk, None}
    BY <1>0 DEF Rows
  <2> QED
    BY <2>1, <2>2, ToFormType, LabelType
<1>q. q = [Opened("wizard", row.option, tag, flag, row.mode, row, None) EXCEPT !.pc = "new"]
  OBVIOUS
<1> HIDE DEF tag, flag, q
<1>4. /\ q \in Pages /\ q.kind = "wizard" /\ q.pc = "new" /\ q.option = row.option /\ q.tag = tag
      /\ q.flag = flag /\ q.mode = row.mode /\ q.touched = {} /\ q.opened = row
  <2>1. flag \in [Flags -> FormValues \cup JsonValues]
    BY <1>3
  <2>2. MaxTag \in Nat /\ "null" \in JsonValues
    BY SettingsAssumption DEF JsonValues
  <2> QED
    BY <1>0, <1>3, <1>q, <2>1, <2>2 DEF Opened, Pages
<1>5. PageOK(q, tagOf', missed')
  <2>1. Kinds(q)
    BY <1>0, <1>3, <1>4 DEF Kinds
  <2>2. FlagsShown(q) /\ SearchKept(q)
    BY <1>4 DEF FlagsShown, SearchKept, flag
  <2>3. ModeShown(q) /\ OptionShown(q, missed')
    BY <1>4 DEF ModeShown, OptionShown
  <2>4. TagShown(q, tagOf', missed')
    <3>1. missed' \/ Stands(tag, row.tag, tagOf)
      BY <1>0, <1>2, ShownStands DEF tag
    <3>2. tagOf' = tagOf
      BY <1>1 DEF server
    <3> QED
      BY <1>4, <3>1, <3>2 DEF TagShown
  <2>5. TagResolved(q, tagOf', missed')
    BY <1>4 DEF TagResolved
  <2> QED
    BY <1>4, <2>1, <2>2, <2>3, <2>4, <2>5 DEF PageOK
<1>6. TagsKept
  BY <1>1 DEF TagsKept, server
<1>7. /\ page' \in [Tabs -> Pages \cup {None}]
      /\ \A u \in Tabs : page'[u] # None => PageOK(page'[u], tagOf', missed')
  BY <1>1, <1>2, <1>5, <1>6, TabStep
<1>8. TypeOK'
  BY <1>1, <1>2, <1>7 DEF SettingsInv, TypeOK, server
<1>9. ServerOK'
  BY <1>1, <1>2 DEF SettingsInv, ServerOK, server, Known
<1> QED
  BY <1>7, <1>8, <1>9 DEF SettingsInv

LEMMA FetchDefaultsOK ==
  ASSUME SettingsInv, NEW t \in Tabs, FetchDefaults(t)
  PROVE  SettingsInv'
<1> DEFINE p == page[t]
           q == [p EXCEPT !.pc = "open", !.seen = defaults]
<1>0. p # None /\ p.pc = "new" /\ PageOK(p, tagOf, missed) /\ defaults \in DefaultRows \cup {None}
  BY DEF SettingsInv, TypeOK, FetchDefaults
<1>1. /\ page' = [page EXCEPT ![t] = q]
      /\ UNCHANGED <<row, defaults, server, missed, changes, saves>>
  BY DEF FetchDefaults
<1>c. changes' \in 0..MaxChanges
  BY <1>1 DEF SettingsInv, TypeOK
<1>2. /\ q \in Pages /\ q.kind = p.kind /\ q.kind = "wizard" /\ q.pc = "open"
      /\ q.option = p.option /\ q.tag = p.tag
      /\ q.flag = p.flag /\ q.mode = p.mode /\ q.touched = p.touched /\ q.opened = p.opened
  BY <1>0 DEF PageOK, Kinds, Pages
<1> HIDE DEF p, q
<1>3. PageOK(q, tagOf, missed)
  <2>1. Kinds(q)
    BY <1>0, <1>2 DEF PageOK, Kinds
  <2>2. FlagsShown(q) /\ SearchKept(q) /\ ModeShown(q)
    BY <1>0, <1>2 DEF PageOK, FlagsShown, SearchKept, ModeShown
  <2>3. OptionShown(q, missed) /\ TagShown(q, tagOf, missed) /\ TagResolved(q, tagOf, missed)
    BY <1>0, <1>2 DEF PageOK, OptionShown, TagShown, TagResolved
  <2> QED
    BY <1>2, <2>1, <2>2, <2>3 DEF PageOK
<1> QED
  BY <1>1, <1>c, <1>3, PageOnly


\* A user changes a field of an open page to a value that it can take.
LEMMA Changed ==
  ASSUME SettingsInv, NEW t \in Tabs, NEW q, NEW field, Change(t, field),
         page' = [page EXCEPT ![t] = q], UNCHANGED server,
         LET p == page[t]
         IN  /\ q \in Pages /\ Kinds(q)
             /\ q.kind = p.kind /\ q.pc = p.pc /\ q.opened = p.opened /\ q.seen = p.seen
             /\ p.touched \subseteq q.touched /\ SearchKept(q)
             /\ \A f \in Flags : \/ f \in q.touched \/ q.flag[f] = p.flag[f]
                                 \/ p.kind = "settings" /\ f = "search"
             /\ "mode" \in q.touched \/ q.mode = p.mode
             /\ "option" \in q.touched \/ q.option = p.option
             /\ "tag" \in q.touched \/ q.tag = p.tag
  PROVE  SettingsInv'
<1> DEFINE p == page[t]
<1>0. p # None /\ p.pc = "open" /\ PageOK(p, tagOf, missed)
  BY DEF SettingsInv, Change
<1>1. UNCHANGED <<row, defaults, server, missed, saves>> /\ changes' \in 0..MaxChanges
  BY SettingsAssumption DEF Change, SettingsInv, TypeOK
<1>2. /\ q \in Pages /\ Kinds(q)
      /\ q.kind = p.kind /\ q.pc = "open" /\ q.opened = p.opened /\ q.seen = p.seen
      /\ p.touched \subseteq q.touched /\ SearchKept(q)
      /\ \A f \in Flags : \/ f \in q.touched \/ q.flag[f] = p.flag[f]
                          \/ p.kind = "settings" /\ f = "search"
      /\ "mode" \in q.touched \/ q.mode = p.mode
      /\ "option" \in q.touched \/ q.option = p.option
      /\ "tag" \in q.touched \/ q.tag = p.tag
  BY <1>0
<1> HIDE DEF p
<1>3. PageOK(q, tagOf, missed)
  <2>1. FlagsShown(q)
    BY <1>0, <1>2 DEF PageOK, FlagsShown
  <2>2. ModeShown(q)
    BY <1>0, <1>2 DEF PageOK, ModeShown
  <2>3. OptionShown(q, missed)
    BY <1>0, <1>2 DEF PageOK, OptionShown
  <2>4. TagShown(q, tagOf, missed)
    BY <1>0, <1>2 DEF PageOK, TagShown
  <2>5. TagResolved(q, tagOf, missed)
    BY <1>2 DEF TagResolved
  <2> QED
    BY <1>2, <2>1, <2>2, <2>3, <2>4, <2>5 DEF PageOK
<1> QED
  BY <1>1, <1>3, PageOnly

LEMMA ChangeFlagOK ==
  ASSUME SettingsInv, NEW t \in Tabs, NEW f \in Flags, NEW v \in FormValues \cup JsonValues,
         ChangeFlag(t, f, v)
  PROVE  SettingsInv'
<1> DEFINE p == page[t]
           r == [p EXCEPT !.flag[f] = v, !.touched = @ \cup {f}]
           q == IF f = "monitored" THEN Gate(r, Gated(p))
                ELSE IF f = "search" /\ r.kind = "settings" THEN [r EXCEPT !.kept = v] ELSE r
<1>0. p # None /\ p.pc = "open" /\ p \in Pages /\ Kinds(p) /\ SearchKept(p)
  BY DEF SettingsInv, ChangeFlag, Change, PageOK
<1>1. page' = [page EXCEPT ![t] = q]
  BY DEF ChangeFlag
<1>2. /\ p.kind = "edit" => v \in FormValues
      /\ p.kind = "wizard" => v \in JsonValues
      /\ p.kind = "settings" => v \in JsonValues
  BY DEF ChangeFlag, Flip, JsonValues
<1>r. r = [p EXCEPT !.flag[f] = v, !.touched = @ \cup {f}]
  OBVIOUS
<1>q. q = IF f = "monitored" THEN Gate(r, Gated(p))
          ELSE IF f = "search" /\ r.kind = "settings" THEN [r EXCEPT !.kept = v] ELSE r
  OBVIOUS
<1> HIDE DEF p, q, r
<1>3. /\ r \in Pages
      /\ r.kind = p.kind /\ r.pc = p.pc /\ r.opened = p.opened /\ r.seen = p.seen
      /\ r.snap = p.snap /\ r.kept = p.kept
      /\ r.touched = p.touched \cup {f} /\ r.flag = [p.flag EXCEPT ![f] = v]
      /\ r.mode = p.mode /\ r.option = p.option /\ r.tag = p.tag
  BY <1>0, <1>r DEF Pages
<1>4. Kinds(r)
  BY <1>0, <1>2, <1>3 DEF Kinds
<1>5. \A g \in Flags : g # f => r.flag[g] = p.flag[g]
  BY <1>0, <1>3 DEF Pages
<1>6. UNCHANGED server /\ Change(t, f)
  BY DEF ChangeFlag, Change
<1>7. /\ q \in Pages /\ Kinds(q) /\ SearchKept(q)
      /\ q.kind = r.kind /\ q.pc = r.pc /\ q.opened = r.opened /\ q.seen = r.seen
      /\ q.touched = r.touched /\ q.mode = r.mode /\ q.option = r.option /\ q.tag = r.tag
      /\ \A g \in Flags : q.flag[g] = r.flag[g] \/ (p.kind = "settings" /\ g = "search")
  <2>1. CASE f = "monitored"
    <3>1. q = Gate(r, Gated(p))
      BY <1>q, <2>1
    <3>2. r.flag["search"] = p.flag["search"]
      BY <1>5, <2>1 DEF Flags
    <3>3. "search" \in p.touched <=> "search" \in r.touched
      BY <1>3, <2>1
    <3>4. r.kind = p.kind /\ r.seen = p.seen /\ r.kept = p.kept /\ r \in Pages
      BY <1>3
    <3>5. /\ q \in Pages /\ Kinds(q) /\ SearchKept(q)
          /\ q.kind = r.kind /\ q.pc = r.pc /\ q.opened = r.opened /\ q.seen = r.seen
          /\ q.touched = r.touched /\ q.mode = r.mode /\ q.option = r.option /\ q.tag = r.tag
          /\ \A g \in Flags : q.flag[g] = r.flag[g] \/ (r.kind = "settings" /\ g = "search")
      BY <1>0, <1>4, <3>1, <3>2, <3>3, <3>4, Regated
    <3> QED
      BY <3>4, <3>5
  <2>2. CASE f = "search" /\ p.kind = "settings"
    <3>1. q = [r EXCEPT !.kept = v]
      BY <1>3, <1>q, <2>2
    <3>2. /\ q \in Pages /\ q.kept = v
          /\ q.kind = r.kind /\ q.pc = r.pc /\ q.opened = r.opened /\ q.seen = r.seen
          /\ q.touched = r.touched /\ q.mode = r.mode /\ q.option = r.option /\ q.tag = r.tag
          /\ q.flag = r.flag /\ q.snap = r.snap
      BY <1>2, <1>3, <2>2, <3>1 DEF Pages
    <3>3. Kinds(q)
      BY <1>4, <3>2 DEF Kinds
    <3>4. SearchKept(q)
      BY <1>3, <2>2, <3>2 DEF SearchKept
    <3> QED
      BY <3>2, <3>3, <3>4
  <2>3. CASE f # "monitored" /\ ~ (f = "search" /\ p.kind = "settings")
    <3>1. q = r
      BY <1>3, <1>q, <2>3
    <3>2. SearchKept(r)
      <4>1. CASE p.kind = "settings"
        <5>1. /\ r.flag["search"] = p.flag["search"]
              /\ r.flag["monitored"] = p.flag["monitored"]
          BY <1>5, <2>3, <4>1 DEF Flags
        <5>2. p.touched \subseteq r.touched
          BY <1>3
        <5> QED
          BY <1>0, <1>3, <5>1, <5>2, SearchStays
      <4>2. CASE p.kind # "settings"
        BY <1>3, <4>2 DEF SearchKept
      <4> QED
        BY <4>1, <4>2
    <3> QED
      BY <1>3, <1>4, <3>1, <3>2
  <2> QED
    BY <2>1, <2>2, <2>3
<1>8. \A g \in Flags : \/ g \in q.touched \/ q.flag[g] = p.flag[g]
                       \/ p.kind = "settings" /\ g = "search"
  BY <1>3, <1>5, <1>7
<1>9. p.touched \subseteq q.touched
  BY <1>3, <1>7
<1> QED
  BY <1>1, <1>3, <1>6, <1>7, <1>8, <1>9, Changed DEF p

LEMMA ChangeOptionOK ==
  ASSUME SettingsInv, NEW t \in Tabs, NEW o \in Options \cup {None}, ChangeOption(t, o)
  PROVE  SettingsInv'
<1> DEFINE p == page[t]
           chosen == IF p.kind = "wizard" /\ o = Payload(p.seen).option THEN None ELSE o
           q == [p EXCEPT !.option = chosen, !.touched = @ \cup {"option"}]
<1>0. p # None /\ p.pc = "open" /\ p \in Pages /\ Kinds(p) /\ SearchKept(p)
  BY DEF SettingsInv, ChangeOption, Change, PageOK
<1>1. page' = [page EXCEPT ![t] = q]
  BY DEF ChangeOption
<1>2. chosen \in Options \cup {None}
  OBVIOUS
<1>q. q = [p EXCEPT !.option = chosen, !.touched = @ \cup {"option"}]
  OBVIOUS
<1> HIDE DEF p, q, chosen
<1>3. /\ q \in Pages
      /\ q.kind = p.kind /\ q.pc = p.pc /\ q.opened = p.opened /\ q.seen = p.seen
      /\ q.snap = p.snap /\ q.flag = p.flag /\ q.kept = p.kept
      /\ q.touched = p.touched \cup {"option"} /\ q.mode = p.mode /\ q.tag = p.tag
  BY <1>0, <1>2, <1>q DEF Pages
<1>4. Kinds(q) /\ SearchKept(q)
  BY <1>0, <1>3, SearchStays DEF Kinds
<1>5. UNCHANGED server /\ Change(t, "option")
  BY DEF ChangeOption, Change
<1> QED
  BY <1>1, <1>3, <1>4, <1>5, Changed DEF p

LEMMA ChangeModeOK ==
  ASSUME SettingsInv, NEW t \in Tabs, NEW m \in Modes \cup {None}, ChangeMode(t, m)
  PROVE  SettingsInv'
<1> DEFINE p == page[t]
           r == [p EXCEPT !.mode = m, !.touched = @ \cup {"mode"}]
           q == Gate(r, Gated(p))
<1>0. p # None /\ p.pc = "open" /\ p \in Pages /\ Kinds(p) /\ SearchKept(p)
  BY DEF SettingsInv, ChangeMode, Change, PageOK
<1>1. page' = [page EXCEPT ![t] = q] /\ (p.kind = "settings" => m # None)
  BY DEF ChangeMode
<1>r. r = [p EXCEPT !.mode = m, !.touched = @ \cup {"mode"}]
  OBVIOUS
<1>q. q = Gate(r, Gated(p))
  OBVIOUS
<1> HIDE DEF p, q, r
<1>3. /\ r \in Pages
      /\ r.kind = p.kind /\ r.pc = p.pc /\ r.opened = p.opened /\ r.seen = p.seen
      /\ r.snap = p.snap /\ r.flag = p.flag /\ r.kept = p.kept /\ r.mode = m
      /\ r.touched = p.touched \cup {"mode"} /\ r.option = p.option /\ r.tag = p.tag
  BY <1>0, <1>r DEF Pages
<1>4. Kinds(r)
  BY <1>0, <1>1, <1>3 DEF Kinds
<1>5. UNCHANGED server /\ Change(t, "mode")
  BY DEF ChangeMode, Change
<1>6. "search" \in p.touched <=> "search" \in r.touched
  BY <1>3
<1>7. /\ q \in Pages /\ Kinds(q) /\ SearchKept(q)
      /\ q.kind = r.kind /\ q.pc = r.pc /\ q.opened = r.opened /\ q.seen = r.seen
      /\ q.touched = r.touched /\ q.mode = r.mode /\ q.option = r.option /\ q.tag = r.tag
      /\ \A g \in Flags : q.flag[g] = r.flag[g] \/ (p.kind = "settings" /\ g = "search")
  <2>1. r.flag["search"] = p.flag["search"]
    BY <1>3
  <2> QED
    BY <1>0, <1>3, <1>4, <1>6, <1>q, <2>1, Regated
<1>8. \A g \in Flags : \/ g \in q.touched \/ q.flag[g] = p.flag[g]
                       \/ p.kind = "settings" /\ g = "search"
  BY <1>3, <1>7
<1>9. p.touched \subseteq q.touched /\ "mode" \in q.touched
  BY <1>3, <1>7
<1> QED
  BY <1>1, <1>3, <1>5, <1>7, <1>8, <1>9, Changed DEF p

LEMMA ChangeTagOK ==
  ASSUME SettingsInv, NEW t \in Tabs, NEW l \in Labels \cup {None}, ChangeTag(t, l)
  PROVE  SettingsInv'
<1> DEFINE p == page[t]
           q == [p EXCEPT !.tag = l, !.touched = @ \cup {"tag"}]
<1>0. p # None /\ p.pc = "open" /\ p \in Pages /\ Kinds(p) /\ SearchKept(p)
  BY DEF SettingsInv, ChangeTag, Change, PageOK
<1>1. page' = [page EXCEPT ![t] = q]
  BY DEF ChangeTag
<1>q. q = [p EXCEPT !.tag = l, !.touched = @ \cup {"tag"}]
  OBVIOUS
<1> HIDE DEF p, q
<1>3. /\ q \in Pages
      /\ q.kind = p.kind /\ q.pc = p.pc /\ q.opened = p.opened /\ q.seen = p.seen
      /\ q.snap = p.snap /\ q.flag = p.flag /\ q.kept = p.kept
      /\ q.touched = p.touched \cup {"tag"} /\ q.option = p.option /\ q.mode = p.mode
  BY <1>0, <1>q DEF Pages
<1>4. Kinds(q) /\ SearchKept(q)
  BY <1>0, <1>3, SearchStays DEF Kinds
<1>5. UNCHANGED server /\ Change(t, "tag")
  BY DEF ChangeTag, Change
<1> QED
  BY <1>1, <1>3, <1>4, <1>5, Changed DEF p

LEMMA OpenSettingsOK ==
  ASSUME SettingsInv, NEW t \in Tabs, NEW options \in BOOLEAN, NEW tags \in BOOLEAN,
         OpenSettings(t, options, tags)
  PROVE  SettingsInv'
<1> DEFINE option == IF defaults.option \in Fetched(options) THEN defaults.option ELSE None
           tag == ShownLabel(defaults.tag, tags)
           flag == [f \in Flags |-> Json(defaults.flag[f])]
           mode == Normal(defaults.mode, "all")
           q == IF defaults = None
                THEN Opened("settings", None, None, [f \in Flags |-> "null"], "all", None, None)
                ELSE Gate(Opened("settings", option, tag, flag, mode, None, defaults), FALSE)
<1>0. /\ defaults \in DefaultRows \cup {None} /\ missed \in BOOLEAN
      /\ missed \/ (defaults # None => Known(defaults.tag))
  BY DEF SettingsInv, TypeOK, ServerOK
<1>1. /\ page' = [page EXCEPT ![t] = q]
      /\ Calls(IF defaults = None THEN {} ELSE {options, tags})
      /\ UNCHANGED <<row, defaults, server, changes, saves>>
  BY DEF OpenSettings
<1>2. /\ missed' \in BOOLEAN /\ (missed => missed')
      /\ defaults # None /\ ~ tags => missed'
  BY <1>0, <1>1, CallsMiss
<1>m. MaxTag \in Nat
  BY SettingsAssumption
<1>5. q \in Pages /\ PageOK(q, tagOf', missed')
  <2>1. CASE defaults = None
    <3>1. q = Opened("settings", None, None, [f \in Flags |-> "null"], "all", None, None)
      BY <2>1
    <3> HIDE DEF q
    <3>2. /\ q \in Pages /\ q.kind = "settings" /\ q.pc = "open" /\ q.seen = None
          /\ q.mode \in Modes
      BY <1>m, <3>1 DEF Opened, Pages, FormValues, JsonValues, Modes
    <3> QED
      BY <3>2 DEF PageOK, Kinds, FlagsShown, SearchKept, ModeShown, OptionShown, TagShown,
                  TagResolved
  <2>2. CASE defaults # None
    <3>0. defaults \in DefaultRows
      BY <1>0, <2>2
    <3> DEFINE w == Opened("settings", option, tag, flag, mode, None, defaults)
    <3>1. q = Gate(w, FALSE) /\ w = Opened("settings", option, tag, flag, mode, None, defaults)
      BY <2>2
    <3>2. /\ option \in Options \cup {None} /\ tag \in Labels \cup {None}
          /\ flag \in [Flags -> {"true", "false"}] /\ mode \in Modes
      <4>1. defaults.option \in Options
        BY <3>0 DEF DefaultRows
      <4>2. mode \in Modes
        BY DEF Normal, Modes
      <4> QED
        BY <4>1, <4>2, LabelType DEF Json
    <3>3. option \in {defaults.option, None}
      OBVIOUS
    <3>4. \A f \in Flags : flag[f] = Json(defaults.flag[f])
      OBVIOUS
    <3>5. missed' \/ Stands(tag, defaults.tag, tagOf')
      <4>1. missed' \/ Stands(tag, defaults.tag, tagOf)
        BY <1>0, <1>2, <2>2, ShownStands
      <4> QED
        BY <1>1, <4>1 DEF server
    <3>6. mode = Normal(defaults.mode, "all")
      OBVIOUS
    <3>s. "search" \in Flags
      BY DEF Flags
    <3> HIDE DEF q, w, option, tag, flag, mode
    <3>7. /\ w \in Pages /\ w.kind = "settings" /\ w.pc = "open" /\ w.seen = defaults
          /\ w.option = option /\ w.tag = tag /\ w.flag = flag /\ w.mode = mode
          /\ w.kept = "null"
      <4>1. flag \in [Flags -> FormValues \cup JsonValues] /\ "null" \in JsonValues
        BY <3>2 DEF JsonValues
      <4> QED
        BY <1>m, <3>0, <3>1, <3>2, <4>1 DEF Opened, Pages
    <3>8. Kinds(w)
      BY <3>2, <3>7 DEF Kinds
    <3>9. /\ q \in Pages /\ Kinds(q) /\ q.kind = "settings" /\ q.pc = "open"
          /\ q.seen = defaults /\ q.option = option /\ q.tag = tag /\ q.mode = mode
          /\ \A f \in Flags : q.flag[f] = flag[f] \/ f = "search"
      <4>1. /\ q \in Pages /\ Kinds(q)
            /\ q.kind = w.kind /\ q.pc = w.pc /\ q.seen = w.seen
            /\ q.mode = w.mode /\ q.option = w.option /\ q.tag = w.tag
            /\ \A f \in Flags : q.flag[f] = w.flag[f] \/ (w.kind = "settings" /\ f = "search")
        <5>1. PICK d \in BOOLEAN : d = FALSE
          OBVIOUS
        <5>2. q = Gate(w, d) /\ w \in Pages /\ Kinds(w)
          BY <3>1, <3>7, <3>8, <5>1
        <5> QED
          BY <5>2, GateFields
      <4> QED
        BY <3>7, <4>1
    <3>10. SearchKept(q)
      BY <3>1, <3>4, <3>7, <3>8, <3>s, GateKeeps
    <3>11. FlagsShown(q)
      BY <3>4, <3>9 DEF FlagsShown
    <3>12. ModeShown(q) /\ OptionShown(q, missed')
      BY <3>3, <3>6, <3>9 DEF ModeShown, OptionShown
    <3>13. TagShown(q, tagOf', missed') /\ TagResolved(q, tagOf', missed')
      BY <3>5, <3>9 DEF TagShown, TagResolved
    <3> QED
      BY <3>9, <3>10, <3>11, <3>12, <3>13 DEF PageOK
  <2> QED
    BY <2>1, <2>2
<1> HIDE DEF q
<1>6. TagsKept
  BY <1>1 DEF TagsKept, server
<1>7. /\ page' \in [Tabs -> Pages \cup {None}]
      /\ \A u \in Tabs : page'[u] # None => PageOK(page'[u], tagOf', missed')
  BY <1>1, <1>2, <1>5, <1>6, TabStep
<1>8. TypeOK'
  BY <1>1, <1>2, <1>7 DEF SettingsInv, TypeOK, server
<1>9. ServerOK'
  BY <1>1, <1>2 DEF SettingsInv, ServerOK, server, Known
<1> QED
  BY <1>7, <1>8, <1>9 DEF SettingsInv

\* The fields of a page that is submitted.
LEMMA SaveOf ==
  ASSUME SettingsInv, NEW t \in Tabs, NEW kind, Save(t, kind)
  PROVE  /\ page[t] # None /\ PageOK(page[t], tagOf, missed)
         /\ page[t] \in Pages /\ page[t].kind = kind /\ page[t].pc # "saving"
         /\ page[t].tag \in Labels \cup {None}
         /\ saves' \in 0..MaxSaves /\ saves' # saves
BY SettingsAssumption DEF SettingsInv, TypeOK, Save, PageOK, Pages

LEMMA BeginEditOK ==
  ASSUME SettingsInv, NEW t \in Tabs, NEW options \in BOOLEAN, NEW tags \in BOOLEAN,
         BeginEdit(t, options, tags)
  PROVE  SettingsInv'
<1> DEFINE p == page[t]
           id == TagId(p.tag, tags)
           q == [p EXCEPT !.pc = "saving", !.snap = row, !.tagId = id]
<1>0. /\ p \in Pages /\ PageOK(p, tagOf, missed) /\ p.kind = "edit"
      /\ p.tag \in Labels \cup {None} /\ saves' \in 0..MaxSaves
      /\ row \in Rows /\ missed \in BOOLEAN /\ TypeOK /\ ServerOK
  BY SaveOf DEF BeginEdit, SettingsInv, TypeOK
<1>1. /\ page' = [page EXCEPT ![t] = q] /\ Calls({options, tags}) /\ MakeTag(p.tag, tags)
      /\ UNCHANGED <<row, defaults, changes>>
  BY DEF BeginEdit
<1>2. /\ missed' \in BOOLEAN /\ (missed => missed') /\ (~ tags => missed')
  BY <1>0, <1>1, CallsMiss
<1>3. /\ served' = served
      /\ tagOf' \in [Labels -> 0..MaxTag] /\ lastTag' \in 0..MaxTag
      /\ \A l \in Labels : tagOf'[l] <= lastTag'
      /\ \A l \in Labels : tagOf[l] # 0 => tagOf'[l] = tagOf[l]
      /\ id \in 0..MaxTag
      /\ tags => Stands(p.tag, id, tagOf')
  BY <1>0, <1>1, TagMade
<1>q. q = [p EXCEPT !.pc = "saving", !.snap = row, !.tagId = id]
  OBVIOUS
<1> HIDE DEF p, q, id
<1>4. /\ q \in Pages /\ q.kind = "edit" /\ q.pc = "saving" /\ q.snap = row /\ q.tagId = id
      /\ q.flag = p.flag /\ q.mode = p.mode /\ q.option = p.option /\ q.tag = p.tag
      /\ q.touched = p.touched /\ q.opened = p.opened /\ q.seen = p.seen
  BY <1>0, <1>3, <1>q DEF Pages
<1>5. PageOK(p, tagOf', missed')
  BY <1>0, <1>2, <1>3, PageKept
<1>6. PageOK(q, tagOf', missed')
  <2>1. Kinds(q)
    BY <1>0, <1>4 DEF PageOK, Kinds
  <2>2. FlagsShown(q) /\ SearchKept(q) /\ ModeShown(q)
    BY <1>0, <1>4 DEF PageOK, FlagsShown, SearchKept, ModeShown
  <2>3. OptionShown(q, missed') /\ TagShown(q, tagOf', missed')
    BY <1>0, <1>4, <1>5 DEF PageOK, OptionShown, TagShown
  <2>4. TagResolved(q, tagOf', missed')
    BY <1>2, <1>3, <1>4 DEF TagResolved
  <2> QED
    BY <1>4, <2>1, <2>2, <2>3, <2>4 DEF PageOK
<1>7. TagsKept
  BY <1>3 DEF TagsKept
<1>8. /\ page' \in [Tabs -> Pages \cup {None}]
      /\ \A u \in Tabs : page'[u] # None => PageOK(page'[u], tagOf', missed')
  BY <1>1, <1>2, <1>6, <1>7, TabStep
<1>9. TypeOK'
  BY <1>0, <1>1, <1>2, <1>3, <1>8 DEF TypeOK
<1>10. ServerOK'
  BY <1>0, <1>1, <1>2, <1>3, KnownOn DEF ServerOK, Known
<1> QED
  BY <1>8, <1>9, <1>10 DEF SettingsInv

\* What the edit page writes.
LEMMA FormRowType ==
  ASSUME NEW p, p \in Pages
  PROVE  FormRow(p) \in Rows
<1>1. /\ p.option \in Options \cup {None} /\ p.tagId \in 0..MaxTag
      /\ Normal(p.mode, None) \in Modes \cup {None}
  BY NormalType DEF Pages
<1>2. [f \in Flags |-> FromForm(p.flag[f])] \in [Flags -> {0, 1, None}]
  BY DEF FromForm
<1> QED
  BY <1>1, <1>2 DEF FormRow, Rows

\* The row after the edit page: each column is the one of the page or stays.
LEMMA Committed ==
  ASSUME SettingsInv, NEW t \in Tabs, CommitEdit(t)
  PROVE  LET want == FormRow(page[t])
             snap == page[t].snap
         IN  /\ page[t] # None /\ PageOK(page[t], tagOf, missed) /\ page[t].kind = "edit"
             /\ page[t] \in Pages /\ snap \in Rows /\ want \in Rows /\ row \in Rows
             /\ row'.option = IF want.option # snap.option THEN want.option ELSE row.option
             /\ row'.tag = IF want.tag # snap.tag THEN want.tag ELSE row.tag
             /\ row'.mode = IF want.mode # snap.mode THEN want.mode ELSE row.mode
             /\ \A f \in Flags : row'.flag[f] =
                    IF want.flag[f] # snap.flag[f] THEN want.flag[f] ELSE row.flag[f]
             /\ row' \in Rows
             /\ page' = [page EXCEPT ![t] = None]
             /\ UNCHANGED <<defaults, server, missed, changes, saves>>
<1> DEFINE p == page[t]
           want == FormRow(p)
           snap == p.snap
           flag == [f \in Flags |->
                      IF want.flag[f] # snap.flag[f] THEN want.flag[f] ELSE row.flag[f]]
<1>1. /\ p # None /\ PageOK(p, tagOf, missed) /\ p.kind = "edit" /\ p \in Pages
      /\ snap \in Rows /\ row \in Rows
  BY DEF SettingsInv, TypeOK, CommitEdit, PageOK, Kinds
<1>2. want \in Rows
  BY <1>1, FormRowType
<1>3. row' = [option |-> IF want.option # snap.option THEN want.option ELSE row.option,
              tag |-> IF want.tag # snap.tag THEN want.tag ELSE row.tag,
              flag |-> flag,
              mode |-> IF want.mode # snap.mode THEN want.mode ELSE row.mode]
  BY DEF CommitEdit
<1>4. page' = [page EXCEPT ![t] = None] /\ UNCHANGED <<defaults, server, missed, changes, saves>>
  BY DEF CommitEdit
<1> HIDE DEF p, want, snap
<1>5. flag \in [Flags -> {0, 1, None}]
  BY <1>1, <1>2 DEF Rows
<1>6. \A f \in Flags : flag[f] =
         IF want.flag[f] # snap.flag[f] THEN want.flag[f] ELSE row.flag[f]
  OBVIOUS
<1> HIDE DEF flag
<1>7. row' \in Rows
  BY <1>1, <1>2, <1>3, <1>5 DEF Rows
<1>8. /\ row'.option = IF want.option # snap.option THEN want.option ELSE row.option
      /\ row'.tag = IF want.tag # snap.tag THEN want.tag ELSE row.tag
      /\ row'.mode = IF want.mode # snap.mode THEN want.mode ELSE row.mode
      /\ row'.flag = flag
  BY <1>3
<1> QED
  BY <1>1, <1>2, <1>4, <1>6, <1>7, <1>8 DEF p, want, snap

LEMMA CommitEditOK ==
  ASSUME SettingsInv, NEW t \in Tabs, CommitEdit(t)
  PROVE  SettingsInv'
<1>1. /\ PageOK(page[t], tagOf, missed) /\ page[t].pc = "saving"
      /\ row' \in Rows /\ row'.tag \in {row.tag, page[t].tagId}
      /\ page' = [page EXCEPT ![t] = None]
      /\ UNCHANGED <<defaults, server, missed, changes, saves>>
  BY Committed DEF FormRow, CommitEdit
<1>2. /\ missed' \in BOOLEAN /\ (missed => missed') /\ TagsKept
  BY <1>1 DEF SettingsInv, TypeOK, TagsKept, server
<1>3. /\ page' \in [Tabs -> Pages \cup {None}]
      /\ \A u \in Tabs : page'[u] # None => PageOK(page'[u], tagOf', missed')
  BY <1>1, <1>2, TabStep
<1>4. TypeOK'
  BY <1>1, <1>3 DEF SettingsInv, TypeOK, server
<1>5. missed \/ Known(page[t].tagId)
  <2>1. missed \/ Stands(page[t].tag, page[t].tagId, tagOf)
    BY <1>1 DEF PageOK, TagResolved
  <2>2. page[t].tag \in Labels \cup {None}
    BY <1>1 DEF PageOK, Pages
  <2> QED
    BY <2>1, <2>2 DEF Stands, Known
<1>6. missed \/ Known(row.tag)
  BY DEF SettingsInv, ServerOK
<1>7. missed' \/ Known(row.tag)'
  BY <1>1, <1>5, <1>6 DEF Known, server
<1>8. ServerOK'
  BY <1>1, <1>7 DEF SettingsInv, ServerOK, Known, server
<1> QED
  BY <1>3, <1>4, <1>8 DEF SettingsInv

\* A tag that the server has just given is known to it.
LEMMA StandsKnown ==
  ASSUME NEW label \in Labels \cup {None}, NEW id, NEW tags, Stands(label, id, tags)
  PROVE  id = 0 \/ \E l \in Labels : tags[l] = id
BY DEF Stands

\* What the wizard writes.
LEMMA Submitted ==
  ASSUME SettingsInv, NEW t \in Tabs, NEW tags \in BOOLEAN, SubmitWizard(t, tags)
  PROVE  LET p == page[t]
         IN  /\ p # None /\ PageOK(p, tagOf, missed) /\ p.kind = "wizard" /\ p \in Pages
             /\ p.tag \in Labels \cup {None}
             /\ row' \in Rows
             /\ row'.option = p.option /\ row'.tag = TagId(p.tag, tags)
             /\ \A f \in Flags : row'.flag[f] = FromJson(p.flag[f])
             /\ row'.mode = Normal(p.mode, None)
             /\ page' = [page EXCEPT ![t] = None]
             /\ UNCHANGED <<defaults, changes>>
             /\ missed' \in BOOLEAN /\ (missed => missed')
             /\ served' = served
             /\ tagOf' \in [Labels -> 0..MaxTag] /\ lastTag' \in 0..MaxTag
             /\ \A l \in Labels : tagOf'[l] <= lastTag'
             /\ \A l \in Labels : tagOf[l] # 0 => tagOf'[l] = tagOf[l]
             /\ missed' \/ Stands(p.tag, row'.tag, tagOf')
             /\ saves' \in 0..MaxSaves
<1> DEFINE p == page[t]
           flag == [f \in Flags |-> FromJson(p.flag[f])]
<1>0. missed \in BOOLEAN /\ TypeOK /\ ServerOK
  BY DEF SettingsInv, TypeOK
<1>1. /\ p # None /\ PageOK(p, tagOf, missed) /\ p.kind = "wizard" /\ p \in Pages
      /\ p.tag \in Labels \cup {None} /\ saves' \in 0..MaxSaves
  BY SaveOf DEF SubmitWizard
<1>2. /\ Calls({tags}) /\ MakeTag(p.tag, tags)
      /\ page' = [page EXCEPT ![t] = None] /\ UNCHANGED <<defaults, changes>>
      /\ row' = [option |-> p.option, tag |-> TagId(p.tag, tags), flag |-> flag,
                 mode |-> Normal(p.mode, None)]
  BY DEF SubmitWizard
<1>3. missed' \in BOOLEAN /\ (missed => missed') /\ (~ tags => missed')
  BY <1>0, <1>2, CallsMiss
<1> HIDE DEF p
<1>4. /\ served' = served
      /\ tagOf' \in [Labels -> 0..MaxTag] /\ lastTag' \in 0..MaxTag
      /\ \A l \in Labels : tagOf'[l] <= lastTag'
      /\ \A l \in Labels : tagOf[l] # 0 => tagOf'[l] = tagOf[l]
      /\ TagId(p.tag, tags) \in 0..MaxTag
      /\ tags => Stands(p.tag, TagId(p.tag, tags), tagOf')
  BY <1>0, <1>1, <1>2, TagMade
<1>5. flag \in [Flags -> {0, 1, None}] /\ \A f \in Flags : flag[f] = FromJson(p.flag[f])
  BY DEF FromJson
<1> HIDE DEF flag
<1>6. Normal(p.mode, None) \in Modes \cup {None} /\ p.option \in Options \cup {None}
  BY <1>1, NormalType DEF Pages
<1>7. row' \in Rows
  BY <1>2, <1>4, <1>5, <1>6 DEF Rows
<1>8. /\ row'.option = p.option /\ row'.tag = TagId(p.tag, tags)
      /\ row'.flag = flag /\ row'.mode = Normal(p.mode, None)
  BY <1>2
<1> QED
  BY <1>1, <1>2, <1>3, <1>4, <1>5, <1>7, <1>8 DEF p

LEMMA SubmitWizardOK ==
  ASSUME SettingsInv, NEW t \in Tabs, NEW tags \in BOOLEAN, SubmitWizard(t, tags)
  PROVE  SettingsInv'
<1>0. TypeOK /\ ServerOK
  BY DEF SettingsInv
<1>1. /\ page[t].tag \in Labels \cup {None} /\ row' \in Rows
      /\ page' = [page EXCEPT ![t] = None]
      /\ UNCHANGED <<defaults, changes>>
      /\ missed' \in BOOLEAN /\ (missed => missed')
      /\ served' = served
      /\ tagOf' \in [Labels -> 0..MaxTag] /\ lastTag' \in 0..MaxTag
      /\ \A l \in Labels : tagOf'[l] <= lastTag'
      /\ \A l \in Labels : tagOf[l] # 0 => tagOf'[l] = tagOf[l]
      /\ missed' \/ Stands(page[t].tag, row'.tag, tagOf')
      /\ saves' \in 0..MaxSaves
  BY Submitted
<1>2. TagsKept
  BY <1>1 DEF TagsKept
<1>3. /\ page' \in [Tabs -> Pages \cup {None}]
      /\ \A u \in Tabs : page'[u] # None => PageOK(page'[u], tagOf', missed')
  BY <1>1, <1>2, TabStep
<1>4. TypeOK'
  BY <1>0, <1>1, <1>3 DEF TypeOK
<1>5. missed' \/ Known(row.tag)'
  BY <1>1, StandsKnown DEF Known
<1>6. missed' \/ (defaults' # None => Known(defaults.tag)')
  BY <1>0, <1>1, KnownOn DEF ServerOK, Known
<1>7. ServerOK'
  BY <1>0, <1>1, <1>5, <1>6 DEF ServerOK
<1> QED
  BY <1>3, <1>4, <1>7 DEF SettingsInv

\* What the settings page writes.
LEMMA SettingsSubmitted ==
  ASSUME SettingsInv, NEW t \in Tabs, NEW tags \in BOOLEAN, SubmitSettings(t, tags)
  PROVE  LET p == page[t]
         IN  /\ p # None /\ PageOK(p, tagOf, missed) /\ p.kind = "settings" /\ p \in Pages
             /\ p.tag \in Labels \cup {None} /\ p.option \in Options
             /\ defaults' \in DefaultRows
             /\ defaults'.option = p.option /\ defaults'.mode = p.mode
             /\ \A f \in Flags : defaults'.flag[f] = (p.flag[f] = "true")
             /\ page' = [page EXCEPT ![t] = None]
             /\ UNCHANGED <<row, missed, changes>>
             /\ served' = served
             /\ tagOf' \in [Labels -> 0..MaxTag] /\ lastTag' \in 0..MaxTag
             /\ \A l \in Labels : tagOf'[l] <= lastTag'
             /\ \A l \in Labels : tagOf[l] # 0 => tagOf'[l] = tagOf[l]
             /\ Stands(p.tag, defaults'.tag, tagOf')
             /\ saves' \in 0..MaxSaves
<1> DEFINE p == page[t]
           flag == [f \in Flags |-> p.flag[f] = "true"]
<1>0. TypeOK /\ ServerOK /\ served \subseteq Options
  BY DEF SettingsInv, TypeOK
<1>1. /\ p # None /\ PageOK(p, tagOf, missed) /\ p.kind = "settings" /\ p \in Pages
      /\ p.tag \in Labels \cup {None} /\ saves' \in 0..MaxSaves
  BY SaveOf DEF SubmitSettings
<1>2. /\ MakeTag(p.tag, tags) /\ (tags \/ p.tag = None)
      /\ p.option \in served
      /\ page' = [page EXCEPT ![t] = None] /\ UNCHANGED <<row, missed, changes>>
      /\ defaults' = [option |-> p.option, tag |-> TagId(p.tag, tags), flag |-> flag,
                      mode |-> p.mode]
  BY DEF SubmitSettings
<1>m. p.mode \in Modes
  BY <1>1 DEF PageOK, Kinds
<1> HIDE DEF p
<1>3. /\ served' = served
      /\ tagOf' \in [Labels -> 0..MaxTag] /\ lastTag' \in 0..MaxTag
      /\ \A l \in Labels : tagOf'[l] <= lastTag'
      /\ \A l \in Labels : tagOf[l] # 0 => tagOf'[l] = tagOf[l]
      /\ TagId(p.tag, tags) \in 0..MaxTag
      /\ tags => Stands(p.tag, TagId(p.tag, tags), tagOf')
  BY <1>0, <1>1, <1>2, TagMade
<1>4. Stands(p.tag, TagId(p.tag, tags), tagOf')
  BY <1>2, <1>3 DEF Stands, TagId
<1>5. flag \in [Flags -> BOOLEAN] /\ \A f \in Flags : flag[f] = (p.flag[f] = "true")
  OBVIOUS
<1> HIDE DEF flag
<1>6. defaults' \in DefaultRows
  BY <1>0, <1>2, <1>3, <1>5, <1>m DEF DefaultRows
<1>7. /\ defaults'.option = p.option /\ defaults'.tag = TagId(p.tag, tags)
      /\ defaults'.flag = flag /\ defaults'.mode = p.mode
  BY <1>2
<1> QED
  BY <1>0, <1>1, <1>2, <1>3, <1>4, <1>5, <1>6, <1>7 DEF p

LEMMA SubmitSettingsOK ==
  ASSUME SettingsInv, NEW t \in Tabs, NEW tags \in BOOLEAN, SubmitSettings(t, tags)
  PROVE  SettingsInv'
<1>0. TypeOK /\ ServerOK
  BY DEF SettingsInv
<1>1. /\ page[t].tag \in Labels \cup {None} /\ defaults' \in DefaultRows
      /\ page' = [page EXCEPT ![t] = None]
      /\ UNCHANGED <<row, missed, changes>>
      /\ served' = served
      /\ tagOf' \in [Labels -> 0..MaxTag] /\ lastTag' \in 0..MaxTag
      /\ \A l \in Labels : tagOf'[l] <= lastTag'
      /\ \A l \in Labels : tagOf[l] # 0 => tagOf'[l] = tagOf[l]
      /\ Stands(page[t].tag, defaults'.tag, tagOf')
      /\ saves' \in 0..MaxSaves
  BY SettingsSubmitted
<1>2. TagsKept /\ missed' \in BOOLEAN /\ (missed => missed')
  BY <1>0, <1>1 DEF TagsKept, TypeOK
<1>3. /\ page' \in [Tabs -> Pages \cup {None}]
      /\ \A u \in Tabs : page'[u] # None => PageOK(page'[u], tagOf', missed')
  BY <1>1, <1>2, TabStep
<1>4. TypeOK'
  BY <1>0, <1>1, <1>2, <1>3 DEF TypeOK
<1>5. Known(defaults.tag)'
  BY <1>1, StandsKnown DEF Known
<1>6. missed' \/ Known(row.tag)'
  BY <1>0, <1>1, KnownOn DEF ServerOK, Known
<1>7. ServerOK'
  BY <1>0, <1>1, <1>5, <1>6 DEF ServerOK
<1> QED
  BY <1>3, <1>4, <1>7 DEF SettingsInv

LEMMA ServerLosesOK ==
  ASSUME SettingsInv, ServerLoses
  PROVE  SettingsInv'
<1>0. TypeOK /\ ServerOK /\ missed \in BOOLEAN /\ MaxChanges \in Nat
  BY SettingsAssumption DEF SettingsInv, TypeOK
<1>1. missed' = TRUE /\ UNCHANGED <<row, defaults, page, saves>> /\ changes' \in 0..MaxChanges
  BY <1>0 DEF ServerLoses, TypeOK
<1>2. /\ served' \subseteq Options /\ lastTag' = lastTag
      /\ tagOf' \in [Labels -> 0..MaxTag]
      /\ \A l \in Labels : tagOf'[l] <= lastTag
  <2>1. tagOf \in [Labels -> 0..MaxTag] /\ lastTag \in 0..MaxTag /\ MaxTag \in Nat
        /\ \A l \in Labels : tagOf[l] <= lastTag
    BY <1>0, SettingsAssumption DEF TypeOK, ServerOK
  <2>2. CASE \E o \in served : served' = served \ {o} /\ UNCHANGED <<tagOf, lastTag>>
    BY <1>0, <2>1, <2>2 DEF TypeOK
  <2>3. ASSUME NEW l \in Labels, tagOf' = [tagOf EXCEPT ![l] = 0],
               UNCHANGED <<served, lastTag>>
        PROVE  <1>2
    BY <1>0, <2>1, <2>3 DEF TypeOK
  <2> QED
    BY <2>2, <2>3 DEF ServerLoses
<1>3. ASSUME NEW t \in Tabs, page'[t] # None
      PROVE  PageOK(page'[t], tagOf', missed')
  <2>1. page'[t] = page[t] /\ PageOK(page[t], tagOf, missed)
    BY <1>1, <1>3 DEF SettingsInv
  <2> QED
    BY <1>0, <1>1, <2>1, PageKept
<1>4. TypeOK'
  BY <1>0, <1>1, <1>2 DEF TypeOK
<1>5. ServerOK'
  BY <1>1, <1>2 DEF ServerOK
<1> QED
  BY <1>3, <1>4, <1>5 DEF SettingsInv

LEMMA InitSettings == Init => SettingsInv
<1> SUFFICES ASSUME Init
             PROVE  SettingsInv
  OBVIOUS
<1>1. Cardinality(Labels) \in 0..MaxTag
  BY SettingsAssumption, FS_CardinalityType
<1>2. TypeOK
  <2> DEFINE c == Cardinality(Labels)
  <2>1. c \in 0..MaxTag /\ MaxTag \in Nat /\ MaxChanges \in Nat /\ MaxSaves \in Nat
    BY <1>1, SettingsAssumption
  <2>2. tagOf \in [Labels -> 0..c] /\ lastTag = c
    BY DEF Init
  <2> HIDE DEF c
  <2>3. tagOf \in [Labels -> 0..MaxTag] /\ lastTag \in 0..MaxTag
    BY <2>1, <2>2
  <2>4. row \in Rows /\ defaults \in DefaultRows \cup {None}
    BY SettingsAssumption DEF Init
  <2>5. /\ served \subseteq Options /\ page \in [Tabs -> Pages \cup {None}]
        /\ missed \in BOOLEAN /\ changes = 0 /\ saves = 0
    BY DEF Init
  <2>6. changes \in 0..MaxChanges /\ saves \in 0..MaxSaves
    BY <2>1, <2>5
  <2> QED
    BY <2>3, <2>4, <2>5, <2>6 DEF TypeOK
<1>3. ServerOK
  BY <1>1 DEF Init, ServerOK
<1> QED
  BY <1>2, <1>3 DEF Init, SettingsInv

LEMMA NextSettings == SettingsInv /\ [Next]_vars => SettingsInv'
<1> SUFFICES ASSUME SettingsInv, [Next]_vars
             PROVE  SettingsInv'
  OBVIOUS
<1>1. ASSUME NEW t \in Tabs, NEW o \in BOOLEAN, NEW g \in BOOLEAN,
             OpenEdit(t, o, g) \/ OpenSettings(t, o, g) \/ BeginEdit(t, o, g)
      PROVE  SettingsInv'
  BY <1>1, OpenEditOK, OpenSettingsOK, BeginEditOK
<1>2. ASSUME NEW t \in Tabs, NEW g \in BOOLEAN,
             OpenWizard(t, g) \/ SubmitWizard(t, g) \/ SubmitSettings(t, g)
      PROVE  SettingsInv'
  BY <1>2, OpenWizardOK, SubmitWizardOK, SubmitSettingsOK
<1>3. ASSUME NEW t \in Tabs, NEW f \in Flags, NEW v \in FormValues \cup JsonValues,
             ChangeFlag(t, f, v)
      PROVE  SettingsInv'
  BY <1>3, ChangeFlagOK
<1>4. ASSUME NEW t \in Tabs, NEW o \in Options \cup {None}, ChangeOption(t, o)
      PROVE  SettingsInv'
  BY <1>4, ChangeOptionOK
<1>5. ASSUME NEW t \in Tabs, NEW m \in Modes \cup {None}, ChangeMode(t, m)
      PROVE  SettingsInv'
  BY <1>5, ChangeModeOK
<1>6. ASSUME NEW t \in Tabs, NEW l \in Labels \cup {None}, ChangeTag(t, l)
      PROVE  SettingsInv'
  BY <1>6, ChangeTagOK
<1>7. ASSUME NEW t \in Tabs, CommitEdit(t) \/ FetchDefaults(t)
      PROVE  SettingsInv'
  BY <1>7, CommitEditOK, FetchDefaultsOK
<1>8. CASE ServerLoses
  BY <1>8, ServerLosesOK
<1>9. CASE UNCHANGED vars
  BY <1>9 DEF vars, server, SettingsInv, TypeOK, ServerOK, Known
<1> QED
  BY <1>1, <1>2, <1>3, <1>4, <1>5, <1>6, <1>7, <1>8, <1>9 DEF Next

LEMMA SettingsInvariant == Spec => []SettingsInv
BY InitSettings, NextSettings, PTL DEF Spec

----------------------------------------------------------------------------
(* What is stored                                                          *)

\* A page of a tab that does nothing stays as it is.
LEMMA Elsewhere ==
  ASSUME SettingsInv, NEW t \in Tabs, NEW u \in Tabs, NEW q, page' = [page EXCEPT ![u] = q],
         u # t
  PROVE  page'[t] = page[t]
BY DEF SettingsInv, TypeOK

\* Beginning to save leaves the page there.
LEMMA SavingIsPage ==
  ASSUME SettingsInv, NEW t \in Tabs, NEW options \in BOOLEAN, NEW tags \in BOOLEAN,
         BeginEdit(t, options, tags)
  PROVE  page'[t] # None
<1> DEFINE p == page[t]
           id == TagId(p.tag, tags)
           q == [p EXCEPT !.pc = "saving", !.snap = row, !.tagId = id]
<1>1. p \in Pages /\ p.tag \in Labels \cup {None} /\ row \in Rows /\ TypeOK /\ ServerOK
  BY SaveOf DEF BeginEdit, SettingsInv, TypeOK
<1>2. page' = [page EXCEPT ![t] = q] /\ MakeTag(p.tag, tags)
  BY DEF BeginEdit
<1> HIDE DEF p
<1>3. id \in 0..MaxTag
  BY <1>1, <1>2, TagMade
<1> HIDE DEF id
<1>4. q \in Pages
  BY <1>1, <1>3 DEF Pages
<1>5. page'[t] = q
  BY <1>1, <1>2 DEF TypeOK
<1> QED
  BY <1>4, <1>5, NoneAssumption

\* Only these steps store a page.
LEMMA WhoStores ==
  ASSUME SettingsInv, [Next]_vars, NEW t \in Tabs, NEW kinds, Stored(t, kinds)
  PROVE  \/ CommitEdit(t)
         \/ \E tags \in BOOLEAN : SubmitWizard(t, tags)
         \/ \E tags \in BOOLEAN : SubmitSettings(t, tags)
<1>0. /\ page[t] # None /\ page'[t] = None
      /\ page[t].pc = "saving" \/ saves' # saves
  BY DEF Stored
<1>1. ASSUME NEW u \in Tabs, NEW o \in BOOLEAN, NEW g \in BOOLEAN,
             OpenEdit(u, o, g) \/ OpenSettings(u, o, g) \/ OpenWizard(u, g)
      PROVE  FALSE
  <2>1. page[u] = None /\ \E q : page' = [page EXCEPT ![u] = q]
    BY <1>1 DEF OpenEdit, OpenSettings, OpenWizard
  <2> QED
    BY <1>0, <2>1, Elsewhere
<1>2. ASSUME NEW u \in Tabs, NEW o \in BOOLEAN, NEW g \in BOOLEAN, BeginEdit(u, o, g)
      PROVE  FALSE
  <2>1. \E q : page' = [page EXCEPT ![u] = q]
    BY <1>2 DEF BeginEdit
  <2> QED
    BY <1>0, <1>2, <2>1, Elsewhere, SavingIsPage
<1>3. ASSUME NEW u \in Tabs, NEW g \in BOOLEAN, SubmitWizard(u, g) \/ SubmitSettings(u, g)
      PROVE  SubmitWizard(t, g) \/ SubmitSettings(t, g)
  <2>1. \E q : page' = [page EXCEPT ![u] = q]
    BY <1>3 DEF SubmitWizard, SubmitSettings
  <2> QED
    BY <1>0, <1>3, <2>1, Elsewhere
<1>4. ASSUME NEW u \in Tabs, NEW field, Change(u, field), \E q : page' = [page EXCEPT ![u] = q]
      PROVE  FALSE
  BY <1>0, <1>4, Elsewhere DEF Change
<1>5. ASSUME NEW u \in Tabs, FetchDefaults(u)
      PROVE  FALSE
  <2>1. \E q : page' = [page EXCEPT ![u] = q]
    BY <1>5 DEF FetchDefaults
  <2>2. page[u].pc = "new" /\ saves' = saves
    BY <1>5 DEF FetchDefaults
  <2>3. u = t
    BY <1>0, <2>1, Elsewhere
  <2> QED
    BY <1>0, <2>2, <2>3
<1>6. ASSUME NEW u \in Tabs, CommitEdit(u)
      PROVE  CommitEdit(t)
  <2>1. \E q : page' = [page EXCEPT ![u] = q]
    BY <1>6 DEF CommitEdit
  <2> QED
    BY <1>0, <1>6, <2>1, Elsewhere
<1>7. ASSUME NEW u \in Tabs, NEW f \in Flags, NEW v \in FormValues \cup JsonValues,
             ChangeFlag(u, f, v)
      PROVE  FALSE
  <2>1. Change(u, f) /\ \E q : page' = [page EXCEPT ![u] = q]
    BY <1>7 DEF ChangeFlag
  <2> QED
    BY <1>4, <2>1
<1>8. ASSUME NEW u \in Tabs, NEW v,
             ChangeOption(u, v) \/ ChangeMode(u, v) \/ ChangeTag(u, v)
      PROVE  FALSE
  <2>1. \E field : Change(u, field)
    BY <1>8 DEF ChangeOption, ChangeMode, ChangeTag
  <2>2. \E q : page' = [page EXCEPT ![u] = q]
    BY <1>8 DEF ChangeOption, ChangeMode, ChangeTag
  <2> QED
    BY <1>4, <2>1, <2>2
<1>9. page' # page
  BY <1>0
<1>10. ~ ServerLoses /\ ~ UNCHANGED vars
  BY <1>9 DEF ServerLoses, vars
<1>11. Next
  BY <1>10
<1> QED
  BY <1>1, <1>2, <1>3, <1>5, <1>6, <1>7, <1>8, <1>10, <1>11 DEF Next

\* A label of a tag is told from another by what the server says.
LEMMA StandsOnce ==
  ASSUME NEW label, NEW id, NEW id2, NEW tags, Stands(label, id, tags), Stands(label, id2, tags)
  PROVE  id = id2
BY DEF Stands

\* What the user of page p has not touched is in the row as it was.
Survives(p) ==
    /\ \A f \in Flags \ p.touched : row'.flag[f] = row.flag[f]
    /\ "mode" \in p.touched \/ p.opened.mode = Junk \/ row'.mode = row.mode
    /\ "option" \in p.touched \/ row'.option = row.option
          \/ (missed' /\ row'.option = None)
    /\ "tag" \in p.touched \/ row'.tag = row.tag \/ missed'

LEMMA EditSurvives ==
  ASSUME SettingsInv, NEW t \in Tabs, CommitEdit(t), page[t].opened = page[t].snap
  PROVE  Survives(page[t])
<1> DEFINE p == page[t]
           want == FormRow(p)
           snap == p.snap
<1>1. /\ PageOK(p, tagOf, missed) /\ p.kind = "edit" /\ p.pc = "saving"
      /\ snap \in Rows /\ row \in Rows /\ missed' = missed
      /\ row'.option = IF want.option # snap.option THEN want.option ELSE row.option
      /\ row'.tag = IF want.tag # snap.tag THEN want.tag ELSE row.tag
      /\ row'.mode = IF want.mode # snap.mode THEN want.mode ELSE row.mode
      /\ \A f \in Flags : row'.flag[f] =
             IF want.flag[f] # snap.flag[f] THEN want.flag[f] ELSE row.flag[f]
  BY Committed DEF CommitEdit
<1>2. p.opened = snap
  OBVIOUS
<1>3. /\ want.option = p.option /\ want.tag = p.tagId /\ want.mode = Normal(p.mode, None)
      /\ \A f \in Flags : want.flag[f] = FromForm(p.flag[f])
  BY DEF FormRow
<1> HIDE DEF p, want, snap
<1>4. ASSUME NEW f \in Flags \ p.touched
      PROVE  want.flag[f] = snap.flag[f]
  <2>1. p.flag[f] = ToForm(snap.flag[f])
    BY <1>1, <1>2 DEF PageOK, FlagsShown
  <2>2. snap.flag[f] \in {0, 1, None}
    BY <1>1 DEF Rows
  <2> QED
    BY <1>3, <2>1, <2>2, ToFormType
<1>5. "mode" \in p.touched \/ snap.mode = Junk \/ want.mode = snap.mode
  <2>1. "mode" \in p.touched \/ p.mode = Normal(snap.mode, None)
    BY <1>1, <1>2 DEF PageOK, ModeShown
  <2>2. snap.mode \in Modes \cup {Junk, None}
    BY <1>1 DEF Rows
  <2> QED
    BY <1>3, <2>1, <2>2 DEF Normal
<1>6. "option" \in p.touched \/ want.option = snap.option \/ (missed /\ want.option = None)
  BY <1>1, <1>2, <1>3 DEF PageOK, OptionShown
<1>7. "tag" \in p.touched \/ want.tag = snap.tag \/ missed
  <2>1. "tag" \in p.touched \/ missed \/ Stands(p.tag, snap.tag, tagOf)
    BY <1>1, <1>2 DEF PageOK, TagShown
  <2>2. missed \/ Stands(p.tag, p.tagId, tagOf)
    BY <1>1 DEF PageOK, TagResolved
  <2> QED
    BY <1>3, <2>1, <2>2, StandsOnce
<1> QED
  BY <1>1, <1>2, <1>4, <1>5, <1>6, <1>7 DEF p, Survives

LEMMA WizardSurvives ==
  ASSUME SettingsInv, NEW t \in Tabs, NEW tags \in BOOLEAN, SubmitWizard(t, tags),
         page[t].opened = row
  PROVE  Survives(page[t])
<1> DEFINE p == page[t]
<1>1. /\ PageOK(p, tagOf, missed) /\ p.kind = "wizard" /\ p \in Pages /\ row \in Rows
      /\ p.tag \in Labels \cup {None}
      /\ row'.option = p.option /\ row'.mode = Normal(p.mode, None)
      /\ \A f \in Flags : row'.flag[f] = FromJson(p.flag[f])
      /\ missed => missed'
      /\ \A l \in Labels : tagOf[l] # 0 => tagOf'[l] = tagOf[l]
      /\ missed' \/ Stands(p.tag, row'.tag, tagOf')
  BY Submitted DEF SettingsInv, TypeOK
<1>2. p.opened = row
  OBVIOUS
<1> HIDE DEF p
<1>3. ASSUME NEW f \in Flags \ p.touched
      PROVE  row'.flag[f] = row.flag[f]
  <2>1. p.flag[f] = ToJson(row.flag[f])
    BY <1>1, <1>2 DEF PageOK, FlagsShown
  <2>2. row.flag[f] \in {0, 1, None}
    BY <1>1 DEF Rows
  <2> QED
    BY <1>1, <2>1, <2>2, ToFormType
<1>4. "mode" \in p.touched \/ row.mode = Junk \/ row'.mode = row.mode
  <2>1. "mode" \in p.touched \/ p.mode = row.mode
    BY <1>1, <1>2 DEF PageOK, ModeShown
  <2>2. row.mode \in Modes \cup {Junk, None}
    BY <1>1 DEF Rows
  <2> QED
    BY <1>1, <2>1, <2>2 DEF Normal
<1>5. "option" \in p.touched \/ row'.option = row.option
  BY <1>1, <1>2 DEF PageOK, OptionShown
<1>6. "tag" \in p.touched \/ row'.tag = row.tag \/ missed'
  <2>1. "tag" \in p.touched \/ missed' \/ Stands(p.tag, row.tag, tagOf')
    BY <1>1, <1>2, StandsOn DEF PageOK, TagShown
  <2> QED
    BY <1>1, <2>1, StandsOnce
<1> QED
  BY <1>2, <1>3, <1>4, <1>5, <1>6 DEF p, Survives

\* Saving either page of a list leaves every override that its user has not
\* touched as it was, whatever other tabs, the server and its failures do; only
\* an option or a tag that could not be shown is lost.
THEOREM OverridesSurvive == Spec => UntouchedOverridesSurvive
<1>1. ASSUME SettingsInv, [Next]_vars, NEW t \in Tabs,
             Stored(t, {"edit", "wizard"}),
             page[t].opened = (IF page[t].kind = "edit" THEN page[t].snap ELSE row)
      PROVE  Survives(page[t])
  <2>1. page[t].kind \in {"edit", "wizard"}
    BY <1>1 DEF Stored
  <2>2. CASE CommitEdit(t)
    <3>1. page[t].kind = "edit"
      BY <1>1, <2>2, Committed
    <3> QED
      BY <1>1, <2>2, <3>1, EditSurvives
  <2>3. ASSUME NEW tags \in BOOLEAN, SubmitWizard(t, tags)
        PROVE  Survives(page[t])
    <3>1. page[t].kind = "wizard"
      BY <1>1, <2>3, Submitted
    <3> QED
      BY <1>1, <2>3, <3>1, WizardSurvives
  <2>4. ASSUME NEW tags \in BOOLEAN, SubmitSettings(t, tags)
        PROVE  FALSE
    BY <1>1, <2>1, <2>4, SettingsSubmitted
  <2> QED
    BY <1>1, <2>2, <2>3, <2>4, WhoStores
<1>2. SettingsInv /\ [Next]_vars =>
        [\A t \in Tabs : LET p == page[t] IN
            Stored(t, {"edit", "wizard"})
              /\ p.opened = (IF p.kind = "edit" THEN p.snap ELSE row) =>
                /\ \A f \in Flags \ p.touched : row'.flag[f] = row.flag[f]
                /\ "mode" \in p.touched \/ p.opened.mode = Junk \/ row'.mode = row.mode
                /\ "option" \in p.touched \/ row'.option = row.option
                      \/ (missed' /\ row'.option = None)
                /\ "tag" \in p.touched \/ row'.tag = row.tag \/ missed']_vars
  BY <1>1 DEF Survives
<1> QED
  BY <1>2, SettingsInvariant, PTL DEF Spec, UntouchedOverridesSurvive

LEMMA DefaultsKept ==
  ASSUME SettingsInv, NEW t \in Tabs, NEW tags \in BOOLEAN, SubmitSettings(t, tags)
  PROVE  LET p == page[t]
         IN  /\ p.tag # None => defaults'.tag # 0 /\ defaults'.tag = tagOf'[p.tag]
             /\ p.seen # None /\ p.seen = defaults =>
                  /\ \A f \in Flags \ p.touched :
                        defaults'.flag[f] = (defaults.flag[f] /\ (f = "search" => ~ Gated(p)))
                  /\ "option" \in p.touched \/ defaults'.option = defaults.option
                  /\ "mode" \in p.touched \/ defaults'.mode = Normal(defaults.mode, "all")
                  /\ "tag" \in p.touched \/ defaults'.tag = defaults.tag \/ missed
<1> DEFINE p == page[t]
<1>1. /\ PageOK(p, tagOf, missed) /\ p.kind = "settings" /\ p.option \in Options
      /\ p.tag \in Labels \cup {None} /\ defaults \in DefaultRows \cup {None}
      /\ defaults'.option = p.option /\ defaults'.mode = p.mode
      /\ \A f \in Flags : defaults'.flag[f] = (p.flag[f] = "true")
      /\ \A l \in Labels : tagOf[l] # 0 => tagOf'[l] = tagOf[l]
      /\ Stands(p.tag, defaults'.tag, tagOf')
  BY SettingsSubmitted DEF SettingsInv, TypeOK
<1> HIDE DEF p
<1>2. p.tag # None => defaults'.tag # 0 /\ defaults'.tag = tagOf'[p.tag]
  BY <1>1 DEF Stands
<1>3. ASSUME p.seen # None, p.seen = defaults
      PROVE  /\ \A f \in Flags \ p.touched :
                   defaults'.flag[f] = (defaults.flag[f] /\ (f = "search" => ~ Gated(p)))
             /\ "option" \in p.touched \/ defaults'.option = defaults.option
             /\ "mode" \in p.touched \/ defaults'.mode = Normal(defaults.mode, "all")
             /\ "tag" \in p.touched \/ defaults'.tag = defaults.tag \/ missed
  <2>1. ASSUME NEW f \in Flags \ p.touched
        PROVE  defaults'.flag[f] = (defaults.flag[f] /\ (f = "search" => ~ Gated(p)))
    <3>1. defaults.flag[f] \in BOOLEAN
      BY <1>1, <1>3 DEF DefaultRows
    <3>2. CASE f # "search"
      <4>1. p.flag[f] = Json(defaults.flag[f])
        BY <1>1, <1>3, <3>2 DEF PageOK, FlagsShown
      <4>2. (p.flag[f] = "true") <=> defaults.flag[f]
        BY <3>1, <4>1 DEF Json
      <4> QED
        BY <1>1, <3>1, <3>2, <4>2
    <3>3. CASE f = "search"
      <4>1. IF Gated(p) THEN p.flag[f] = "false" ELSE p.flag[f] = Json(defaults.flag[f])
        BY <1>1, <1>3, <3>3 DEF PageOK, SearchKept
      <4>2. (p.flag[f] = "true") <=> defaults.flag[f] /\ ~ Gated(p)
        BY <3>1, <4>1 DEF Json
      <4>3. defaults'.flag[f] = (p.flag[f] = "true")
        BY <1>1
      <4> QED
        BY <3>1, <3>3, <4>2, <4>3
    <3> QED
      BY <3>2, <3>3
  <2>2. "option" \in p.touched \/ defaults'.option = defaults.option
    BY <1>1, <1>3, NoneAssumption DEF PageOK, OptionShown
  <2>3. "mode" \in p.touched \/ defaults'.mode = Normal(defaults.mode, "all")
    BY <1>1, <1>3 DEF PageOK, ModeShown
  <2>4. "tag" \in p.touched \/ defaults'.tag = defaults.tag \/ missed
    <3>1. "tag" \in p.touched \/ missed \/ Stands(p.tag, defaults.tag, tagOf')
      BY <1>1, <1>3, StandsOn DEF PageOK, TagShown
    <3> QED
      BY <1>1, <3>1, StandsOnce
  <2> QED
    BY <2>1, <2>2, <2>3, <2>4
<1> QED
  BY <1>2, <1>3 DEF p

\* Saving the settings page leaves every default that its user has not touched
\* as it was, but for a search that the page has gated, which is stored as no; a
\* search that was cleared only for a while comes back (SearchKept says where it
\* is meanwhile); a tag that the page shows is stored.
THEOREM DefaultsSurvive == Spec => UntouchedDefaultsSurvive
<1>1. SettingsInv /\ [Next]_vars =>
        [\A t \in Tabs : LET p == page[t] IN
            Stored(t, {"settings"}) =>
              /\ p.tag # None => defaults'.tag # 0 /\ defaults'.tag = tagOf'[p.tag]
              /\ p.seen # None /\ p.seen = defaults =>
                  /\ \A f \in Flags \ p.touched :
                        defaults'.flag[f] = (defaults.flag[f] /\ (f = "search" => ~ Gated(p)))
                  /\ "option" \in p.touched \/ defaults'.option = defaults.option
                  /\ "mode" \in p.touched \/ defaults'.mode = Normal(defaults.mode, "all")
                  /\ "tag" \in p.touched \/ defaults'.tag = defaults.tag \/ missed]_vars
  <2> SUFFICES ASSUME SettingsInv, [Next]_vars, NEW t \in Tabs, Stored(t, {"settings"})
               PROVE  \E tags \in BOOLEAN : SubmitSettings(t, tags)
    BY DefaultsKept
  <2>1. page[t].kind = "settings"
    BY DEF Stored
  <2> QED
    BY <2>1, WhoStores, Committed, Submitted
<1> QED
  BY <1>1, SettingsInvariant, PTL DEF Spec, UntouchedDefaultsSurvive

----------------------------------------------------------------------------
(* What imports use                                                        *)

\* Two settings that differ in their tags still do so when reconciled.
LEMMA ReconciledTag ==
  ASSUME NEW s, NEW u, NEW o, NEW a, NEW b, NEW flag \in [Flags -> BOOLEAN], NEW mode,
         s = [option |-> o, tag |-> a, flag |-> flag, mode |-> mode],
         u = [option |-> o, tag |-> b, flag |-> flag, mode |-> mode]
  PROVE  /\ Reconciled(s) = [Reconciled(u) EXCEPT !.tag = Reconciled(s).tag]
         /\ Reconciled(s).tag = a /\ Reconciled(u).tag = b
<1> DEFINE m == IF flag["monitored"] THEN mode ELSE "none"
           h == flag["search"] /\ flag["monitored"] /\ mode # "none"
           g == [flag EXCEPT !["search"] = h]
<1>1. /\ s.flag = flag /\ s.mode = mode
      /\ u.flag = flag /\ u.mode = mode
  OBVIOUS
<1>2. /\ Reconciled(s) = [s EXCEPT !.mode = m, !.flag["search"] = h]
      /\ Reconciled(u) = [u EXCEPT !.mode = m, !.flag["search"] = h]
  BY <1>1, Zenon DEF Reconciled
<1> HIDE DEF m, h
<1>3. /\ Reconciled(s) = [option |-> o, tag |-> a, flag |-> g, mode |-> m]
      /\ Reconciled(u) = [option |-> o, tag |-> b, flag |-> g, mode |-> m]
  BY <1>2
<1> HIDE DEF g
<1> QED
  BY <1>3

\* The boxes of both pages show the override, or else the default.
LEMMA BoxShowsFlag ==
  ASSUME NEW kind \in {"edit", "wizard"}, NEW v,
         kind = "edit" => v \in FormValues, kind = "wizard" => v \in JsonValues,
         NEW r, r = IF kind = "edit" THEN FromForm(v) ELSE FromJson(v)
  PROVE  \/ r = None /\ v \notin {"1", "true", "0", "false"}
         \/ r = 1 /\ v \in {"1", "true"}
         \/ r = 0 /\ v \notin {"1", "true"} /\ v \in {"0", "false"}
<1>1. CASE kind = "edit"
  BY <1>1 DEF FormValues, FromForm
<1>2. CASE kind = "wizard"
  BY <1>2 DEF JsonValues, FromJson
<1> QED
  BY <1>1, <1>2

\* A row that holds the fields of a page is resolved to what the page shows.
LEMMA UsedIsShown ==
  ASSUME NEW p, p \in Pages, Kinds(p), p.kind \in {"edit", "wizard"},
         NEW d \in DefaultRows \cup {None}, p.seen = d,
         NEW r \in Rows, r.option = p.option, r.mode = Normal(p.mode, None),
         \A f \in Flags : r.flag[f] = IF p.kind = "edit" THEN FromForm(p.flag[f])
                                      ELSE FromJson(p.flag[f])
  PROVE  /\ Used(r, d) = [Shown(p) EXCEPT !.tag = Used(r, d).tag]
         /\ r.tag = 0 => Used(r, d).tag = Shown(p).tag
         /\ r.tag # 0 => Used(r, d).tag = r.tag
<1> DEFINE monitorMode == IF r.mode # None THEN r.mode
                          ELSE IF d # None /\ d.mode # None THEN d.mode ELSE "all"
           override(f) == IF r.flag[f] # None THEN r.flag[f] = 1
                          ELSE IF d # None THEN d.flag[f] ELSE TRUE
           usedOption == IF r.option # None THEN r.option
                         ELSE IF d # None THEN d.option ELSE None
           usedTag == IF r.tag # 0 THEN r.tag ELSE IF d # None THEN d.tag ELSE 0
           usedFlag == [f \in Flags |-> override(f)]
           usedMode == Normal(monitorMode, "all")
           c == Payload(d)
           box(f) == IF p.flag[f] \in {"1", "true"} THEN TRUE
                     ELSE IF p.flag[f] \in {"0", "false"} THEN FALSE ELSE c.flag[f]
           shownOption == IF p.option # None THEN p.option ELSE c.option
           shownFlag == [f \in Flags |-> box(f)]
           shownMode == Normal(p.mode, c.mode)
<1>1. /\ Used(r, d) = Reconciled([option |-> usedOption, tag |-> usedTag, flag |-> usedFlag,
                                  mode |-> usedMode])
      /\ Shown(p) = Reconciled([option |-> shownOption, tag |-> c.tag, flag |-> shownFlag,
                                mode |-> shownMode])
  BY DEF Used, Shown
<1>2. /\ d = None => c.option = None /\ c.tag = 0 /\ c.mode = "all"
                     /\ \A f \in Flags : c.flag[f] = TRUE
      /\ d # None => c.option = d.option /\ c.tag = d.tag /\ c.mode = Normal(d.mode, "all")
                     /\ \A f \in Flags : c.flag[f] = d.flag[f]
  BY DEF Payload
<1>3. d # None => \A f \in Flags : d.flag[f] \in BOOLEAN
  BY DEF DefaultRows
<1> HIDE DEF c
<1>4. usedOption = shownOption
  BY <1>2
<1>5. r.tag = 0 => usedTag = c.tag
  BY <1>2
<1>6. ASSUME NEW f \in Flags
      PROVE  override(f) = box(f) /\ box(f) \in BOOLEAN
  <2>1. \/ r.flag[f] = None /\ p.flag[f] \notin {"1", "true", "0", "false"}
        \/ r.flag[f] = 1 /\ p.flag[f] \in {"1", "true"}
        \/ r.flag[f] = 0 /\ p.flag[f] \notin {"1", "true"} /\ p.flag[f] \in {"0", "false"}
    BY BoxShowsFlag DEF Kinds
  <2>2. CASE r.flag[f] = None /\ p.flag[f] \notin {"1", "true", "0", "false"}
    <3>1. CASE d = None
      BY <1>2, <2>2, <3>1, Zenon
    <3>2. CASE d # None
      BY <1>2, <1>3, <2>2, <3>2, Zenon
    <3> QED
      BY <3>1, <3>2, Zenon
  <2>3. CASE r.flag[f] = 1 /\ p.flag[f] \in {"1", "true"}
    <3>1. 1 # None
      BY NoneAssumption
    <3> QED
      BY <2>3, <3>1, Zenon
  <2>4. CASE r.flag[f] = 0 /\ p.flag[f] \notin {"1", "true"} /\ p.flag[f] \in {"0", "false"}
    <3>1. 0 # None /\ 0 # 1
      BY NoneAssumption
    <3> QED
      BY <2>4, <3>1, Zenon
  <2> QED
    BY <2>1, <2>2, <2>3, <2>4, Zenon
<1>7. usedMode = shownMode
  <2>1. CASE p.mode \in Modes
    BY <2>1, NoneAssumption DEF Normal
  <2>2. CASE p.mode \notin Modes
    BY <1>2, <2>2, NoneAssumption DEF Normal, Modes
  <2> QED
    BY <2>1, <2>2
<1>8. usedFlag = shownFlag /\ shownFlag \in [Flags -> BOOLEAN]
  BY <1>6
<1> HIDE DEF usedOption, usedTag, usedFlag, usedMode, shownOption, shownFlag, shownMode
<1>9. /\ Used(r, d) = [Shown(p) EXCEPT !.tag = Used(r, d).tag]
      /\ Used(r, d).tag = usedTag /\ Shown(p).tag = c.tag
  BY <1>1, <1>4, <1>7, <1>8, ReconciledTag
<1> QED
  BY <1>5, <1>9 DEF usedTag

UsesShown(p) ==
    LET used == Used(row', defaults)
    IN  /\ used = [Shown(p) EXCEPT !.tag = used.tag]
        /\ used.tag = (IF p.tag = None THEN Shown(p).tag ELSE tagOf'[p.tag]) \/ missed'

\* A row with the fields of a page makes imports use what it showed.
LEMMA RowUsesShown ==
  ASSUME NEW p, p \in Pages, Kinds(p), p.kind \in {"edit", "wizard"},
         defaults \in DefaultRows \cup {None}, p.seen = defaults,
         row' \in Rows, row'.option = p.option, row'.mode = Normal(p.mode, None),
         \A f \in Flags : row'.flag[f] = IF p.kind = "edit" THEN FromForm(p.flag[f])
                                         ELSE FromJson(p.flag[f]),
         missed' \/ Stands(p.tag, row'.tag, tagOf')
  PROVE  UsesShown(p)
<1>1. /\ Used(row', defaults) = [Shown(p) EXCEPT !.tag = Used(row', defaults).tag]
      /\ row'.tag = 0 => Used(row', defaults).tag = Shown(p).tag
      /\ row'.tag # 0 => Used(row', defaults).tag = row'.tag
  BY UsedIsShown
<1>2. missed' \/ (IF p.tag = None THEN row'.tag = 0
                  ELSE row'.tag # 0 /\ tagOf'[p.tag] = row'.tag)
  BY DEF Stands
<1> QED
  BY <1>1, <1>2 DEF UsesShown

\* An import that follows a save of either page uses what the page showed.
THEOREM ImportsUseWhatIsShown == Spec => ImportUsesWhatWasShown
<1>1. ASSUME SettingsInv, [Next]_vars, NEW t \in Tabs, Stored(t, {"edit", "wizard"}),
             page[t].pc # "new", page[t].seen = defaults,
             page[t].kind = "edit" => page[t].snap = row
      PROVE  UsesShown(page[t])
  <2> DEFINE p == page[t]
  <2>1. p.kind \in {"edit", "wizard"} /\ defaults \in DefaultRows \cup {None}
        /\ p.seen = defaults
    BY <1>1 DEF Stored, SettingsInv, TypeOK
  <2>2. ASSUME CommitEdit(t)
        PROVE  UsesShown(p)
    <3> DEFINE want == FormRow(p)
               snap == p.snap
    <3>1. /\ PageOK(p, tagOf, missed) /\ p.kind = "edit" /\ p \in Pages
          /\ row'.option = IF want.option # snap.option THEN want.option ELSE row.option
          /\ row'.tag = IF want.tag # snap.tag THEN want.tag ELSE row.tag
          /\ row'.mode = IF want.mode # snap.mode THEN want.mode ELSE row.mode
          /\ \A f \in Flags : row'.flag[f] =
                 IF want.flag[f] # snap.flag[f] THEN want.flag[f] ELSE row.flag[f]
          /\ row' \in Rows
          /\ UNCHANGED <<defaults, server, missed, changes, saves>>
      BY <1>1, <2>2, Committed
    <3>2. snap = row
      BY <1>1, <3>1
    <3>3. p.pc = "saving"
      BY <2>2 DEF CommitEdit
    <3>4. /\ want.option = p.option /\ want.tag = p.tagId /\ want.mode = Normal(p.mode, None)
          /\ \A f \in Flags : want.flag[f] = FromForm(p.flag[f])
      BY DEF FormRow
    <3> HIDE DEF p, want, snap
    <3>5. /\ row'.option = p.option /\ row'.tag = p.tagId /\ row'.mode = Normal(p.mode, None)
          /\ \A f \in Flags : row'.flag[f] = FromForm(p.flag[f])
      BY <3>1, <3>2, <3>4
    <3>6. Kinds(p) /\ (missed' \/ Stands(p.tag, row'.tag, tagOf'))
      BY <3>1, <3>3, <3>5 DEF PageOK, TagResolved, server
    <3> QED
      BY <2>1, <3>1, <3>5, <3>6, RowUsesShown
  <2>3. ASSUME NEW tags \in BOOLEAN, SubmitWizard(t, tags)
        PROVE  UsesShown(p)
    <3>1. /\ PageOK(p, tagOf, missed) /\ p.kind = "wizard" /\ p \in Pages
          /\ row' \in Rows /\ row'.option = p.option /\ row'.mode = Normal(p.mode, None)
          /\ \A f \in Flags : row'.flag[f] = FromJson(p.flag[f])
          /\ missed' \/ Stands(p.tag, row'.tag, tagOf')
      BY <1>1, <2>3, Submitted
    <3> HIDE DEF p
    <3>2. Kinds(p)
      BY <3>1 DEF PageOK
    <3> QED
      BY <2>1, <3>1, <3>2, RowUsesShown
  <2>4. ASSUME NEW tags \in BOOLEAN, SubmitSettings(t, tags)
        PROVE  FALSE
    BY <1>1, <2>1, <2>4, SettingsSubmitted
  <2> QED
    BY <1>1, <2>2, <2>3, <2>4, WhoStores
<1>2. SettingsInv /\ [Next]_vars =>
        [\A t \in Tabs : LET p == page[t]
                             used == Used(row', defaults) IN
            /\ Stored(t, {"edit", "wizard"})
            /\ p.pc # "new" /\ p.seen = defaults
            /\ p.kind = "edit" => p.snap = row
            => /\ used = [Shown(p) EXCEPT !.tag = used.tag]
               /\ used.tag = (IF p.tag = None THEN Shown(p).tag ELSE tagOf'[p.tag]) \/ missed']_vars
  BY <1>1 DEF UsesShown
<1> QED
  BY <1>2, SettingsInvariant, PTL DEF Spec, ImportUsesWhatWasShown

===============================================================================
