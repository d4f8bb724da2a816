------------------------------- MODULE Ecosystem -------------------------------
(***************************************************************************)
(* The compatibility matrix of src/scpn_mif_core/ecosystem.py: a report is *)
(* put together row by row from sibling checkouts that are edited all the  *)
(* while, by interpreters that may fail or time out, and                   *)
(* tools/generate_compatibility_matrix.py writes it into two files or      *)
(* compares it with them.                                                  *)
(*                                                                         *)
(* Of a checkout is kept whether it is there, its version, whether it      *)
(* holds the package that is imported, and which of the expected surfaces  *)
(* it has; of FUSION's contract also whether one of its claims is blocked. *)
(* A package may be installed beside the checkout.  Texts are left out.    *)
(***************************************************************************)
EXTENDS Naturals, Sequences

CONSTANTS KeySets,         \* sets of siblings that are inspected together
          MAX_EDITS, MAX_CALLS,    \* edits of checkouts, calls of the generator
          Nothing, Torn            \* no file or no timestamp; half a file

VARIABLES
    keys,                  \* the siblings of this behaviour
    code_root,             \* key -> checkout
    installed,             \* key -> Nothing or the package in site-packages
    sibling_edits, calls,  \* so far
    call,                  \* "idle", or what main runs for: "write", "check"
    generated_at_utc,
    row,                   \* what has been read for the next row
    siblings,              \* the rows so far
    markdown, json,        \* the files: Nothing, Torn or a report
    passed_check,          \* history: the last call was a check that passed
    seen                   \* history: the checkouts since the call began

ecosystemVars == <<keys, code_root, installed, sibling_edits, calls, call, generated_at_utc,
                   row, siblings, markdown, json, passed_check, seen>>

Sibling(key, gate, surfaces) == [key |-> key, current_gate |-> gate, surfaces |-> surfaces]

SIBLINGS == <<
    Sibling("sc-neurocore-engine", TRUE, <<"file", "file">>),
    Sibling("scpn-phase-orchestrator", TRUE, <<"file", "file", "file">>),
    Sibling("scpn-control", TRUE, <<"module">>),
    Sibling("scpn-fusion-core", TRUE, <<"contract">>),
    Sibling("scpn-quantum-control", FALSE, <<"file", "names">>) >>

(* The siblings inspected, in the order of the table.                      *)
Chosen(n) == IF SIBLINGS[n].key \in keys THEN <<SIBLINGS[n]>> ELSE <<>>
Specs == Chosen(1) \o Chosen(2) \o Chosen(3) \o Chosen(4) \o Chosen(5)

OfKind(spec, kind) == {n \in DOMAIN spec.surfaces : spec.surfaces[n] = kind}

(* What one edit makes of a checkout.                                      *)
Edited(spec, c) ==
    {[c EXCEPT !.exists = ~@], [c EXCEPT !.version = 3 - @], [c EXCEPT !.package = ~@]}
    \cup {[c EXCEPT !.has = IF n \in @ THEN @ \ {n} ELSE @ \cup {n}] : n \in DOMAIN spec.surfaces}
    \cup {[c EXCEPT !.blocked = ~@] : n \in OfKind(spec, "contract")}

Pristine(spec) ==
    [exists |-> TRUE, version |-> 1, package |-> TRUE, has |-> DOMAIN spec.surfaces,
     blocked |-> FALSE]

(* Nothing, or a release with or without what MIF imports of this sibling. *)
Installs(spec) ==
    {Nothing} \cup [has : SUBSET (OfKind(spec, "module") \cup OfKind(spec, "contract")),
                    blocked : {FALSE} \cup {TRUE : n \in OfKind(spec, "contract")}]

SpecOf(key) == CHOOSE spec \in {Specs[n] : n \in DOMAIN Specs} : spec.key = key

Blank == [begun |-> FALSE, version |-> 0, import |-> "missing", surfaces |-> <<>>]

EcosystemInit ==
    /\ keys \in KeySets
    /\ code_root = [key \in keys |-> Pristine(SpecOf(key))]
    /\ installed \in [keys -> UNION {Installs(Specs[n]) : n \in DOMAIN Specs}]
    /\ \A key \in keys : installed[key] \in Installs(SpecOf(key))
    /\ sibling_edits = 0 /\ calls = 0 /\ call = "idle" /\ generated_at_utc = Nothing
    /\ row = Blank /\ siblings = <<>>
    /\ markdown = Nothing /\ json = Nothing
    /\ passed_check = FALSE /\ seen = [key \in keys |-> {}]

-----------------------------------------------------------------------------
Ready == {"ready", "ready_with_blockers", "ready_with_hardware_gate"}
Outstanding == {"ready_with_blockers", "ready_with_hardware_gate"}

symbols_present(r) ==
    r.surfaces # <<>> /\ \A n \in DOMAIN r.surfaces : r.surfaces[n] \in Ready

integration_gated(r) ==
    ~r.current_gate \/ r.status \in {"blocked_runtime", "blocked_surface", "missing_repo"}

evidence_blocked(r) ==
    r.status \in Outstanding \/ \E n \in DOMAIN r.surfaces : r.surfaces[n] \in Outstanding

Shows(surfaces, status) == \E n \in DOMAIN surfaces : surfaces[n] = status

(* Mutant: the hardware gate is asked before the surfaces. *)
GateBeforeSurfaces(spec, import, surfaces) ==
    IF ~spec.current_gate THEN "deferred"
    ELSE IF spec.key = "sc-neurocore-engine" THEN "ready_with_hardware_gate"
    ELSE IF Shows(surfaces, "blocked_surface") THEN "blocked_surface"
    ELSE IF Shows(surfaces, "ready_with_blockers") THEN "ready_with_blockers"
    ELSE IF import # "ok" \/ Shows(surfaces, "blocked_runtime") THEN "blocked_runtime"
    ELSE "ready"

_sibling_status(spec, import, surfaces) ==
    IF ~spec.current_gate THEN "deferred"
    ELSE IF Shows(surfaces, "blocked_surface") THEN "blocked_surface"
    ELSE IF Shows(surfaces, "ready_with_blockers") THEN "ready_with_blockers"
    ELSE IF spec.key = "sc-neurocore-engine" THEN "ready_with_hardware_gate"
    ELSE IF import # "ok" \/ Shows(surfaces, "blocked_runtime") THEN "blocked_runtime"
    ELSE "ready"

-----------------------------------------------------------------------------
Inspecting == call # "idle" /\ Len(siblings) < Len(Specs)
Current == Specs[Len(siblings) + 1]
Source == code_root[Current.key]

Finish(status, surfaces) ==
    /\ siblings' = Append(siblings,
           [key |-> Current.key, current_gate |-> Current.current_gate,
            kinds |-> Current.surfaces, version |-> row.version, import |-> row.import,
            status |-> status, surfaces |-> surfaces])
    /\ row' = Blank

Reading == UNCHANGED <<keys, code_root, installed, sibling_edits, calls, call, generated_at_utc, markdown, json, passed_check, seen>>

(* _inspect_sibling up to _pyproject_version.                              *)
BeginRow ==
    /\ Inspecting /\ ~row.begun
    /\ IF Source.exists
       THEN /\ row' = [begun |-> TRUE, version |-> Source.version, import |-> "pending",
                       surfaces |-> [n \in DOMAIN Current.surfaces |-> "unread"]]
            /\ UNCHANGED siblings
       ELSE Finish("missing_repo", <<>>)
    /\ Reading

(* Kinds of surfaces that are looked for by importing them.                *)
Imported == {"module", "contract"}

(* What shows a surface of this kind: the checkout, or the package found   *)
(* by _run_python, whose path puts the checkout before what is installed.  *)
Provided(key, kind, c) ==
    kind \in Imported => c.package \/ installed[key] # Nothing
Provider(key, kind, c) ==
    IF kind \in Imported /\ ~c.package THEN installed[key] ELSE c

(* _runtime_import: an interpreter that fails or times out gives "error".  *)
RuntimeImport ==
    /\ Inspecting /\ row.begun /\ row.import = "pending"
    /\ Source.exists
    /\ \E import \in {"error", "ok"} :
          /\ import = "ok" => Provided(Current.key, "module", Source)
          /\ row' = [row EXCEPT !.import = import]
    /\ Reading /\ UNCHANGED siblings

(* Symbols that are missing count before claims that are blocked.          *)
inspect_fusion_frc_contract(has, blocked) ==
    IF ~has THEN "blocked_surface"
    ELSE IF blocked THEN "ready_with_blockers" ELSE "ready"

(* _generic_surface_report, _module_symbol_report and the two of FUSION    *)
(* and quantum control, for what is there when they look.                  *)
SurfaceStatuses(kind, n) ==
    LET package == Provider(Current.key, kind, Source)
        has == Source.exists /\ Provided(Current.key, kind, Source) /\ n \in package.has IN
    CASE kind = "file"     -> {IF has THEN "ready" ELSE "blocked_surface"}
      [] kind = "names"    -> {IF has THEN "ready" ELSE "deferred"}
      [] kind \in Imported /\ ~Provided(Current.key, kind, Source) -> {"blocked_runtime"}
      [] kind = "module" /\ Provided(Current.key, kind, Source) ->
            {"blocked_runtime", IF has THEN "ready" ELSE "blocked_surface"}
      [] kind = "contract" /\ Provided(Current.key, kind, Source) ->
            {"blocked_runtime", inspect_fusion_frc_contract(has, package.blocked)}

Unread == {n \in DOMAIN row.surfaces : row.surfaces[n] = "unread"}

(* Names are looked for in a text of the sources that is read first.       *)
ReadFirst(m, n) ==
    \/ Current.surfaces[m] = "names"
    \/ Current.surfaces[n] # "names" /\ m <= n

ReadSurface ==
    /\ Inspecting /\ row.import \in {"ok", "error"}
    /\ \E n \in Unread :
          /\ \A m \in Unread : ReadFirst(n, m)
          /\ Current.surfaces[n] \in Imported => Source.exists
          /\ \E status \in SurfaceStatuses(Current.surfaces[n], n) :
                LET surfaces == [row.surfaces EXCEPT ![n] = status] IN
                IF Unread = {n}
                THEN Finish(_sibling_status(Current, row.import, surfaces), surfaces)
                ELSE row' = [row EXCEPT !.surfaces = surfaces] /\ UNCHANGED siblings
    /\ Reading

-----------------------------------------------------------------------------
Times == {1, 2}

(* _existing_timestamp *)
ExistingTimestamp ==
    IF json \in {Nothing, Torn} THEN Nothing ELSE json.generated_at_utc

Begin(purpose) ==
    /\ call = "idle" /\ call' = purpose
    /\ calls < MAX_CALLS /\ calls' = calls + 1
    /\ generated_at_utc' \in IF purpose = "check" /\ ExistingTimestamp # Nothing
                             THEN {ExistingTimestamp} ELSE Times
    /\ row' = Blank /\ siblings' = <<>> /\ passed_check' = FALSE
    /\ seen' = [key \in keys |-> {code_root[key]}]
    /\ UNCHANGED <<keys, code_root, installed, sibling_edits, markdown, json>>

Report == [generated_at_utc |-> generated_at_utc, siblings |-> siblings]
Reported == call # "idle" /\ Len(siblings) = Len(Specs)

UpToDate == markdown = Report /\ json = Report

Check ==
    /\ Reported /\ call = "check"
    /\ passed_check' = UpToDate /\ call' = "idle"
    /\ UNCHANGED <<keys, code_root, installed, sibling_edits, calls, generated_at_utc, row, siblings, markdown, json, seen>>

(* A file that is written is torn for a while; the page comes first.       *)
WritePage ==
    /\ Reported /\ call = "write"
    /\ \/ markdown # Torn /\ markdown' = Torn /\ UNCHANGED call
       \/ markdown = Torn /\ markdown' = Report /\ call' = "page written"
    /\ UNCHANGED <<keys, code_root, installed, sibling_edits, calls, generated_at_utc, row, siblings, json, passed_check, seen>>

WriteJson ==
    /\ Reported /\ call = "page written"
    /\ \/ json # Torn /\ json' = Torn /\ UNCHANGED call
       \/ json = Torn /\ json' = Report /\ call' = "idle"
    /\ UNCHANGED <<keys, code_root, installed, sibling_edits, calls, generated_at_utc, row, siblings, markdown, passed_check, seen>>

(* An exception, as of an interpreter whose directory went away, or the    *)
(* end of the process.                                                     *)
Die ==
    /\ call # "idle" /\ call' = "idle"
    /\ UNCHANGED <<keys, code_root, installed, sibling_edits, calls, generated_at_utc, row, siblings, markdown, json, passed_check, seen>>

Edit ==
    /\ sibling_edits < MAX_EDITS /\ sibling_edits' = sibling_edits + 1
    /\ \E key \in keys : \E checkout \in Edited(SpecOf(key), code_root[key]) :
          /\ code_root' = [code_root EXCEPT ![key] = checkout]
          /\ seen' = [seen EXCEPT ![key] = IF call = "idle" THEN @ ELSE @ \cup {checkout}]
    /\ UNCHANGED <<keys, installed, calls, call, generated_at_utc, row, siblings, markdown, json, passed_check>>

EcosystemNext ==
    \/ \E purpose \in {"write", "check"} : Begin(purpose)
    \/ BeginRow \/ RuntimeImport \/ ReadSurface
    \/ Check \/ WritePage \/ WriteJson \/ Die \/ Edit

EcosystemSpec == EcosystemInit /\ [][EcosystemNext]_ecosystemVars

-----------------------------------------------------------------------------
(* A checkout that was there, or what is installed beside it, shows the    *)
(* surface as the row does.                                                *)
Shown(r, n, c) ==
    LET provider == Provider(r.key, r.kinds[n], c) IN
    /\ c.exists /\ Provided(r.key, r.kinds[n], c) /\ n \in provider.has
    /\ r.kinds[n] = "contract" /\ r.surfaces[n] = "ready" => ~provider.blocked

(* A row lets MIF integrate only if every prescribed surface was shown by  *)
(* a state the checkout had while the report was made - by one state, if   *)
(* nobody edited it - and its version was that of such a state; it is      *)
(* plainly ready only if the package could be imported too, and no         *)
(* evidence is outstanding.                                                *)
RowIsHonest(r) ==
    /\ ~integration_gated(r) =>
          /\ symbols_present(r)
          /\ \E c \in seen[r.key] : c.exists /\ c.version = r.version
          /\ \A n \in DOMAIN r.surfaces : \E c \in seen[r.key] : Shown(r, n, c)
    /\ ~integration_gated(r) /\ ~evidence_blocked(r) =>
          /\ r.status = "ready" /\ r.import = "ok"
          /\ \E c \in seen[r.key] : c.exists /\ Provided(r.key, "module", c)

(* The rows are honest whatever was edited under the inspection; and so    *)
(* are those on either page that a passing check leaves in place, though   *)
(* an earlier call wrote it, of earlier checkouts, or died between the two.*)
MatrixIsHonest ==
    /\ \A n \in DOMAIN siblings : RowIsHonest(siblings[n])
    /\ passed_check => \A page \in {markdown, json} :
          \A n \in DOMAIN page.siblings : RowIsHonest(page.siblings[n])
=============================================================================
