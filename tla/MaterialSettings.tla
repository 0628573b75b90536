--------------------------- MODULE MaterialSettings ---------------------------
(***************************************************************************)
(* Material types, templates, and the print settings of products that      *)
(* inherit from a template.  Every save appends: a template gets a new     *)
(* revision and, in the same transaction, every linked product gets a new  *)
(* snapshot.  Template and type writers share one advisory lock and the    *)
(* templates' row locks; a product's own saves lock only their source row. *)
(* A change of a product's template locks templates first and the product  *)
(* afterwards, and no row of a product is inserted while that is locked.   *)
(* One setting stands for all of them.                                     *)
(***************************************************************************)
EXTENDS Integers, SequencesExt

CONSTANTS Material,      \* names of material types
          Family,        \* the name seed_configured_system starts from
          Base, CopiedFamily, \* and those that it copies from templates of Base
          NoName,
          Nozzle,        \* printer and nozzle: the scope of templates and snapshots
          SeedNozzle,    \* the active one of a configured printer
          Product,
          Value, Seeded, \* values of the setting, and that of a new template
          Inherit,       \* no override
          NoWork,
          FirstTemplates, FirstProducts,
          MaxSettings    \* bound on what operators start

Template == [material : Material, nozzle : Nozzle, active : BOOLEAN,
             revisions : Seq(Value) \ {<<>>}]
Snapshot == [product : Product, nozzle : Nozzle, base : Nat \X Nat, override : Value \cup {Inherit},
             published : BOOLEAN, by : {"template", "rebase", "own"}]

ASSUME SettingsAssumption ==
    /\ IsFiniteSet(Product) /\ FirstTemplates \in Seq(Template)
    /\ FirstProducts \in [Product -> [material : Material, source : Nat \X Nat]]
    /\ \A q \in Product : FirstProducts[q].source[1] \in DOMAIN FirstTemplates
    /\ {Family} \cup CopiedFamily \subseteq Material /\ IsFiniteSet(CopiedFamily)
    /\ NoName \notin Material /\ SeedNozzle \in Nozzle
    /\ Seeded \in Value /\ Inherit \notin Value /\ MaxSettings \in Nat

VARIABLES
    catalog,      \* material_types and the deleted ones, by id
    renames,      \* audit events of renames
    templates,    \* material_templates with the settings of their revisions
    snapshots,    \* material_profiles, in version order
    products,     \* material type and source revision of each product
    saves,        \* template saves that have read and not committed
    ownSave,      \* a product's settings being saved
    rebase,       \* a change of template: its locks, and what it has planned
    calibration,  \* a calibration and its baseline
    settingsEdits

settingsVars == <<catalog, renames, templates, snapshots, products, saves, ownSave, rebase,
                  calibration, settingsEdits>>

SettingsInit ==
    /\ templates = FirstTemplates /\ products = FirstProducts
    /\ catalog = [i \in DOMAIN FirstTemplates |-> [name |-> FirstTemplates[i].material, live |-> TRUE]]
    /\ snapshots = SetToSeq({[product |-> q, nozzle |-> templates[products[q].source[1]].nozzle,
                              base |-> products[q].source, override |-> Inherit,
                              published |-> TRUE, by |-> "own"] : q \in Product})
    /\ renames = <<>> /\ saves = {} /\ ownSave = NoWork /\ rebase = NoWork
    /\ calibration = NoWork /\ settingsEdits = 0

-----------------------------------------------------------------------------
Rows(q, n) == {i \in DOMAIN snapshots : snapshots[i].product = q /\ snapshots[i].nozzle = n}
Newest(rows) == {i \in rows : \A j \in rows : j <= i}
Current(q, n) == Newest({i \in Rows(q, n) : snapshots[i].published})
Currents == UNION {Current(q, n) : q \in Product, n \in Nozzle}

Latest(t) == <<t, Len(templates[t].revisions)>>
SettingsOf(base) == templates[base[1]].revisions[base[2]]

\* sparse_profile_overrides and resolve_profile_settings
Sparse(value, override) == IF override = value THEN Inherit ELSE override
Resolved(base, override) == IF override = Inherit THEN SettingsOf(base) ELSE override

Live(name) == \E id \in DOMAIN catalog : catalog[id].live /\ catalog[id].name = name
WasDeleted(name) == \E id \in DOMAIN catalog : ~catalog[id].live /\ catalog[id].name = name

\* remember_material_type
Remembered(name, explicit) ==
    IF Live(name) \/ (~explicit /\ WasDeleted(name)) THEN catalog
    ELSE Append(catalog, [name |-> name, live |-> TRUE])

\* The advisory lock, and a template's row.
TypesFree == rebase = NoWork /\ \A s \in saves : s.kind # "direct"
RowFree(t) == (\A s \in saves : s.t # t) /\ (rebase # NoWork => t \notin rebase.locked)

\* The product's row and its profiles', which the change under way has planned for.
Held(q) == rebase # NoWork /\ rebase.product = q /\ DOMAIN rebase.plan # {}

\* Only one active template per material type and nozzle.
ScopeFree(t, m, n) ==
    \A u \in DOMAIN templates : u # t /\ templates[u].active
                                => <<templates[u].material, templates[u].nozzle>> # <<m, n>>

Edit == settingsEdits < MaxSettings /\ settingsEdits' = settingsEdits + 1

-----------------------------------------------------------------------------
(* Templates.                                                              *)

\* Its first settings, whatever they are.
NewTemplate(m, n) == [material |-> m, nozzle |-> n, active |-> TRUE, revisions |-> <<Seeded>>]

CreateTemplate(m, n) ==
    /\ Edit /\ TypesFree /\ ScopeFree(0, m, n)
    /\ templates' = Append(templates, NewTemplate(m, n))
    /\ catalog' = Remembered(m, TRUE)
    /\ UNCHANGED <<renames, snapshots, products, saves, ownSave, rebase, calibration>>

\* Mutated form: the newest of those that inherit, in place of those newest that do.
LinkedByBase(t, n) ==
    UNION {Newest({i \in Rows(q, n) : snapshots[i].published /\ snapshots[i].base[1] = t}) :
           q \in Product}

\* The newest snapshot of a scope decides whether it still inherits from the template.
Linked(t, n) == {i \in Currents : snapshots[i].nozzle = n /\ snapshots[i].base[1] = t}

\* save_template_settings up to its inserts: what it has read while others go on.
BeginSave(t, kind, v, m, n) ==
    /\ RowFree(t) /\ (kind = "direct" => TypesFree)
    /\ \A q \in Product : products[q].source[1] = t => ~Held(q)
    /\ kind # "direct" => <<m, n>> = <<templates[t].material, templates[t].nozzle>>
    /\ templates[t].active => ScopeFree(t, m, n)
    /\ LET linked == Linked(t, templates[t].nozzle)  moving == n # templates[t].nozzle
           holders == {snapshots[i].product : i \in linked} IN
       /\ moving => \A q \in holders : Current(q, n) = {}
       /\ saves' = saves \cup
            {[t |-> t, kind |-> kind, value |-> v, material |-> m, nozzle |-> n,
              amid |-> rebase # NoWork,  \* history: a change of template was under way
              sources |-> linked \cup (IF moving THEN Linked(t, n) ELSE {}),
              left |-> IF moving THEN UNION {Rows(q, templates[t].nozzle) : q \in holders} ELSE {}]}
    /\ UNCHANGED <<catalog, renames, templates, snapshots, products, ownSave, rebase>>

SaveTemplate(t, v, m, n) == Edit /\ BeginSave(t, "direct", v, m, n) /\ UNCHANGED calibration

\* The compatibility route, without the advisory lock.
CreateRevision(t, v) ==
    /\ Edit /\ BeginSave(t, "revision", v, templates[t].material, templates[t].nozzle)
    /\ UNCHANGED calibration

\* An exported document over a template whose version was reviewed.
ImportOver(t, v) ==
    /\ Edit /\ BeginSave(t, "direct", v, templates[t].material, templates[t].nozzle)
    /\ UNCHANGED calibration

CalibrateTemplate(v) ==
    /\ Edit /\ calibration # NoWork /\ UNCHANGED calibration
    /\ LET t == calibration.base[1]
       IN BeginSave(t, "calibrated", v, templates[t].material, templates[t].nozzle)

Appended(kept, new) == kept \o SetToSeq(new)

\* Overrides are reapplied; one that equals the new value becomes inherited.
Reapplied(i, s) == IF snapshots[i].override = Inherit THEN Inherit
                   ELSE Sparse(s.value, snapshots[i].override)

CommitSave(s) ==
    /\ \A i \in s.sources : ~Held(snapshots[i].product)
    /\ LET base == <<s.t, Len(templates[s.t].revisions) + 1>> IN
       /\ templates' = [templates EXCEPT ![s.t].revisions = Append(@, s.value),
                          ![s.t].material = s.material, ![s.t].nozzle = s.nozzle]
       /\ snapshots' = Appended(
            [i \in DOMAIN snapshots |-> IF i \in s.left
                                        THEN [snapshots[i] EXCEPT !.published = FALSE] ELSE snapshots[i]],
            {[product |-> snapshots[i].product, nozzle |-> s.nozzle, base |-> base,
              override |-> Reapplied(i, s), published |-> TRUE, by |-> "template"] : i \in s.sources})
       /\ products' = [q \in Product |-> IF products[q].source[1] = s.t
                                         THEN [products[q] EXCEPT !.source = base] ELSE products[q]]
    /\ catalog' = IF s.kind = "direct" THEN Remembered(s.material, templates[s.t].active) ELSE catalog
    /\ saves' = saves \ {s}
    /\ UNCHANGED <<renames, ownSave, rebase, calibration, settingsEdits>>

\* A version of a profile that another request has inserted.
SaveFails(s) ==
    /\ saves' = saves \ {s}
    /\ UNCHANGED <<catalog, renames, templates, snapshots, products, ownSave, rebase, calibration,
                   settingsEdits>>

UpdateTemplate(t, m, active) ==
    /\ Edit /\ TypesFree /\ RowFree(t)
    /\ active => ScopeFree(t, m, templates[t].nozzle)
    /\ templates' = [templates EXCEPT ![t].material = m, ![t].active = active]
    /\ catalog' = Remembered(m, active)
    /\ UNCHANGED <<renames, snapshots, products, saves, ownSave, rebase, calibration>>

\* Takes the row lock alone.
DeleteTemplate(t) ==
    /\ Edit /\ RowFree(t) /\ templates[t].active
    /\ templates' = [templates EXCEPT ![t].active = FALSE]
    /\ UNCHANGED <<catalog, renames, snapshots, products, saves, ownSave, rebase, calibration>>

-----------------------------------------------------------------------------
(* Material types.                                                         *)

CreateType(name) ==
    /\ Edit /\ TypesFree /\ ~Live(name)
    /\ catalog' = Remembered(name, TRUE)
    /\ UNCHANGED <<renames, templates, snapshots, products, saves, ownSave, rebase, calibration>>

\* Locks every template, and corrects the live labels.
RenameType(id, name) ==
    LET old == catalog[id].name
        renamed == [t \in DOMAIN templates |->
                      IF templates[t].material = old THEN [templates[t] EXCEPT !.material = name]
                      ELSE templates[t]] IN
    /\ Edit /\ TypesFree /\ saves = {}
    /\ catalog[id].live /\ ~Live(name)
    /\ \A t \in DOMAIN templates :
          templates[t].material = old /\ templates[t].active => ScopeFree(t, name, templates[t].nozzle)
    /\ catalog' = [catalog EXCEPT ![id].name = name]
    /\ renames' = Append(renames, [id |-> id, before |-> old])
    /\ templates' = renamed
    /\ products' = [q \in Product |-> IF products[q].material = old
                                      THEN [products[q] EXCEPT !.material = name] ELSE products[q]]
    /\ UNCHANGED <<snapshots, saves, ownSave, rebase, calibration>>

\* Mutated form: the choice goes whoever uses it.
AnyType(id) == catalog[id].live

Unused(id) ==
    /\ catalog[id].live
    /\ \A t \in DOMAIN templates : templates[t].active => templates[t].material # catalog[id].name

DeleteType(id) ==
    /\ Edit /\ TypesFree /\ Unused(id)
    /\ catalog' = [catalog EXCEPT ![id].live = FALSE]
    /\ UNCHANGED <<renames, templates, snapshots, products, saves, ownSave, rebase, calibration>>

\* Mutated form: a renamed family that was deleted falls back to its former name.
FormerLabel(name) ==
    LET events == {k \in DOMAIN renames : renames[k].before = name /\ catalog[renames[k].id].live}
    IN IF events # {} THEN catalog[renames[CHOOSE k \in events : \A l \in events : k <= l].id].name
       ELSE IF ~Live(name) /\ WasDeleted(name) THEN NoName ELSE name

\* seeded_material_type_name: the family's identity is its first row, whatever its name.
RenamesOf(name) == {k \in DOMAIN renames : renames[k].before = name}
FirstRename(name) == CHOOSE k \in RenamesOf(name) : \A l \in RenamesOf(name) : k <= l
SeededName(name) ==
    IF RenamesOf(name) # {}
    THEN LET row == catalog[renames[FirstRename(name)].id] IN IF row.live THEN row.name ELSE NoName
    ELSE IF ~Live(name) /\ WasDeleted(name) THEN NoName ELSE name

\* seed_configured_system, at every poll: the configured family for the active nozzle, and a
\* copy of every active template of Base for each family that derives from it.
Missing(rows, name, n) ==
    /\ SeededName(name) # NoName
    /\ \A t \in DOMAIN rows : <<rows[t].material, rows[t].nozzle>> # <<SeededName(name), n>>

WithFamily ==
    IF Missing(templates, Family, SeedNozzle)
    THEN Append(templates, NewTemplate(SeededName(Family), SeedNozzle)) ELSE templates

Bases(rows) == {t \in DOMAIN rows : rows[t].active /\ rows[t].material = Base}

Copied(base, name) == [base EXCEPT !.material = SeededName(name), !.revisions = <<Last(@)>>]

Copies(rows) ==
    {Copied(rows[p[1]], p[2]) :
        p \in {p \in Bases(rows) \X CopiedFamily : Missing(rows, p[2], rows[p[1]].nozzle)}}

\* Each as by Remembered(m, FALSE).
RememberedAll(names) ==
    Appended(catalog, {[name |-> m, live |-> TRUE] : m \in {m \in names : ~Live(m) /\ ~WasDeleted(m)}})

Seed ==
    LET seeded == Appended(WithFamily, Copies(WithFamily)) IN
    /\ TypesFree /\ seeded # templates
    /\ \A t \in Bases(templates) : RowFree(t)
    /\ templates' = seeded
    /\ catalog' = RememberedAll({seeded[t].material : t \in DOMAIN seeded \ DOMAIN templates})
    /\ UNCHANGED <<renames, snapshots, products, saves, ownSave, rebase, calibration, settingsEdits>>

-----------------------------------------------------------------------------
(* A product's settings.                                                   *)

Snap(q, n, base, override, by) ==
    [product |-> q, nozzle |-> n, base |-> base, published |-> TRUE, by |-> by,
     override |-> IF override = Inherit THEN Inherit ELSE Sparse(SettingsOf(base), override)]

\* From the editor, which works on the current snapshot, or the compatibility route.
BeginOwnSave(i, v, checked) ==
    /\ Edit /\ ownSave = NoWork /\ ~Held(snapshots[i].product)
    /\ checked => i \in Currents
    /\ ownSave' = [source |-> i, value |-> v]
    /\ UNCHANGED <<catalog, renames, templates, snapshots, products, saves, rebase, calibration>>

\* The insert may collide with another one of the same version.
CommitOwnSave(collides) ==
    /\ ownSave # NoWork /\ ownSave' = NoWork
    /\ LET source == snapshots[ownSave.source]
           new == Snap(source.product, source.nozzle, source.base, ownSave.value, "own")
       IN snapshots' = IF collides THEN snapshots ELSE Append(snapshots, new)
    /\ UNCHANGED <<catalog, renames, templates, products, saves, rebase, calibration, settingsEdits>>

ValidBase(q, t) == templates[t].active /\ templates[t].material = products[q].material

Owned(q, base, v) ==
    /\ Edit /\ ValidBase(q, base[1]) /\ ~Held(q)
    /\ snapshots' = Append(snapshots, Snap(q, templates[base[1]].nozzle, base, v, "own"))
    /\ UNCHANGED <<catalog, renames, templates, products, saves, ownSave, rebase, calibration>>

\* A scope that has none.
CreateFromTemplate(q, base) == Current(q, templates[base[1]].nozzle) = {} /\ Owned(q, base, Inherit)

CreateProfile(q, base, v) == Owned(q, base, v)

\* confirm_profile_template_base: to another revision of the same template.
ConfirmBase(i, r) ==
    LET s == snapshots[i] IN
    /\ Edit /\ r # s.base[2] /\ r \in DOMAIN templates[s.base[1]].revisions
    /\ ~Held(s.product)
    /\ ownSave # NoWork => ownSave.source # i
    /\ snapshots' = Append(snapshots, Snap(s.product, s.nozzle, <<s.base[1], r>>, s.override, "own"))
    /\ UNCHANGED <<catalog, renames, templates, products, saves, ownSave, rebase, calibration>>

\* The one in hand; its steps are in module Calibrations.
StartCalibration(q, n) ==
    /\ Edit
    /\ calibration' = [product |-> q, nozzle |-> n,
          base |-> IF Rows(q, n) = {} THEN products[q].source
                   ELSE snapshots[CHOOSE i \in Newest(Rows(q, n)) : TRUE].base]
    /\ UNCHANGED <<catalog, renames, templates, snapshots, products, saves, ownSave, rebase>>

\* What was measured, on the base that the calibration started from.
ApplyCalibration(v) ==
    /\ Edit /\ calibration # NoWork /\ ~Held(calibration.product)
    /\ snapshots' = Append(snapshots, Snap(calibration.product, calibration.nozzle,
                                           calibration.base, v, "own"))
    /\ UNCHANGED <<catalog, renames, templates, products, saves, ownSave, rebase, calibration>>

-----------------------------------------------------------------------------
(* change_profile_template.                                                *)

Matching(i, t) ==
    IF templates[t].nozzle = snapshots[i].nozzle THEN {t}
    ELSE {u \in DOMAIN templates : /\ templates[u].active
                                   /\ templates[u].material = templates[t].material
                                   /\ templates[u].nozzle = snapshots[i].nozzle}

\* The templates of the target's material type, and those its profiles inherit from.
BeginRebase(i, t) ==
    LET q == snapshots[i].product
        locked == {u \in DOMAIN templates : templates[u].material = templates[t].material}
                  \cup {snapshots[j].base[1] : j \in {k \in DOMAIN snapshots : snapshots[k].product = q}} IN
    /\ Edit /\ TypesFree /\ \A u \in locked : RowFree(u)
    /\ templates[t].active /\ templates[t].nozzle = snapshots[i].nozzle
    /\ rebase' = [product |-> q, row |-> i, target |-> t, locked |-> locked, plan |-> <<>>]
    /\ UNCHANGED <<catalog, renames, templates, snapshots, products, saves, ownSave, calibration>>

\* Once the locks of saves of its rows are released: with a new material type every scope of
\* the product moves, or none.
PlanRebase ==
    LET q == rebase.product  i == rebase.row  t == rebase.target
        moved == IF templates[t].material = products[q].material THEN {i}
                 ELSE {j \in Currents : snapshots[j].product = q} IN
    /\ rebase # NoWork /\ ~Held(q)
    /\ ownSave # NoWork => snapshots[ownSave.source].product # q
    /\ \A s \in saves : s.t # products[q].source[1]
    /\ i \in Currents /\ snapshots[i].base # Latest(t)
    /\ \A j \in moved : Cardinality(Matching(j, t)) = 1
    /\ rebase' = [rebase EXCEPT !.plan = [j \in moved |-> Latest(CHOOSE u \in Matching(j, t) : TRUE)]]
    /\ UNCHANGED <<catalog, renames, templates, snapshots, products, saves, ownSave, calibration,
                   settingsEdits>>

CommitRebase ==
    /\ rebase # NoWork /\ Held(rebase.product) /\ rebase' = NoWork
    /\ snapshots' = Appended(snapshots,
          {Snap(rebase.product, snapshots[i].nozzle, rebase.plan[i], snapshots[i].override, "rebase") :
           i \in DOMAIN rebase.plan})
    /\ products' = [products EXCEPT ![rebase.product] =
          [material |-> templates[rebase.target].material, source |-> rebase.plan[rebase.row]]]
    /\ UNCHANGED <<catalog, renames, templates, saves, ownSave, calibration, settingsEdits>>

\* What it read is not current, or two requests wait for each other and the database ends it.
RebaseFails ==
    /\ rebase # NoWork /\ rebase' = NoWork
    /\ UNCHANGED <<catalog, renames, templates, snapshots, products, saves, ownSave, calibration,
                   settingsEdits>>

-----------------------------------------------------------------------------
TemplateWriters(t) ==
    \/ \E v \in Value, m \in Material, n \in Nozzle : SaveTemplate(t, v, m, n)
    \/ \E v \in Value : CreateRevision(t, v) \/ ImportOver(t, v)
    \/ \E m \in Material, active \in BOOLEAN : UpdateTemplate(t, m, active)
    \/ DeleteTemplate(t)
    \/ \E i \in DOMAIN snapshots : BeginRebase(i, t)
    \/ \E q \in Product, r \in DOMAIN templates[t].revisions :
          CreateFromTemplate(q, <<t, r>>) \/ \E v \in Value : CreateProfile(q, <<t, r>>, v)

SettingsNext ==
    \/ \E t \in DOMAIN templates : TemplateWriters(t)
    \/ \E m \in Material, n \in Nozzle : CreateTemplate(m, n)
    \/ \E m \in Material : CreateType(m)
    \/ \E id \in DOMAIN catalog : DeleteType(id) \/ \E m \in Material : RenameType(id, m)
    \/ \E i \in DOMAIN snapshots, v \in Value, checked \in BOOLEAN : BeginOwnSave(i, v, checked)
    \/ \E i \in DOMAIN snapshots : \E r \in DOMAIN templates[snapshots[i].base[1]].revisions :
          ConfirmBase(i, r)
    \/ \E q \in Product, n \in Nozzle : StartCalibration(q, n)
    \/ \E v \in Value : ApplyCalibration(v) \/ CalibrateTemplate(v)
    \/ \E s \in saves : CommitSave(s) \/ SaveFails(s)
    \/ \E collides \in BOOLEAN : CommitOwnSave(collides)
    \/ PlanRebase \/ CommitRebase \/ RebaseFails \/ Seed

SettingsSpec == SettingsInit /\ [][SettingsNext]_settingsVars

-----------------------------------------------------------------------------
(* What is claimed.                                                        *)

SettingsTypeOK ==
    /\ \A id \in DOMAIN catalog : catalog[id].name \in Material /\ catalog[id].live \in BOOLEAN
    /\ templates \in Seq(Template) /\ snapshots \in Seq(Snapshot)
    /\ products \in [Product -> [material : Material, source : Nat \X Nat]]
    /\ \A s \in saves : s.sources \cup s.left \subseteq DOMAIN snapshots
    /\ ownSave # NoWork => ownSave.source \in DOMAIN snapshots
    /\ rebase # NoWork => DOMAIN rebase.plan \subseteq DOMAIN snapshots

\* Every active template's material type is a choice, whatever renames, deletions, saves
\* and seeding overlap (delete_material_type, remember_material_type).
ChoicesCoverTemplates ==
    \A t \in DOMAIN templates : templates[t].active => Live(templates[t].material)

\* The recurring seeding adds a family to the choices only if no choice ever had its name
\* and no operator renamed it (seeded_material_type_name, remember_material_type).
SeedingKeepsOut ==
    [][settingsEdits' = settingsEdits /\ saves' = saves
       => \A id \in DOMAIN catalog' \ DOMAIN catalog :
             /\ \A old \in DOMAIN catalog : catalog[old].name # catalog'[id].name
             /\ \A k \in DOMAIN renames : renames[k].before # catalog'[id].name]_settingsVars

\* A product moved to another template is not taken back by a save of the template it
\* left, neither by one that was under way when the change took its locks nor by a later
\* one (save_template_settings, change_profile_template).
RebaseStands ==
    [][\A s \in saves \ saves' : \A i \in Currents : \A j \in DOMAIN snapshots' \ DOMAIN snapshots :
          /\ ~s.amid /\ snapshots[i].by = "rebase" /\ snapshots'[j].by = "template"
          /\ <<snapshots'[j].product, snapshots'[j].nozzle>>
             = <<snapshots[i].product, snapshots[i].nozzle>>
          => snapshots'[j].base[1] = snapshots[i].base[1]]_settingsVars
=============================================================================
