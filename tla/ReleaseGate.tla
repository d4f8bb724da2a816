------------------------------ MODULE ReleaseGate ------------------------------
(***************************************************************************)
(* The files that are computed from other files and committed beside them, *)
(* the checks that compute them again, and the release that trusts both:   *)
(* tools/ and .github/workflows/release.yml.                               *)
(*                                                                         *)
(* A file's content is what it was computed from, by version; a digest is  *)
(* the content itself.  Every file is there from the start.  Generators    *)
(* are called one at a time, in any order, and may die between two writes  *)
(* or half way through one.                                                *)
(***************************************************************************)
EXTENDS Naturals, Sequences

CONSTANTS LedgerClaims,           \* what a review may record of the claims
          MAX_AGE_DAYS,           \* release.yml: --max-age-days
          MAX_EDITS, MAX_CRASHES, MAX_COMMITS, MAX_DAYS,   \* bounds
          Torn                    \* half a file

GateAssumption == MAX_AGE_DAYS \in Nat

VARIABLES
    source,               \* versions of what is written by hand
    repository,           \* file -> content
    ledger,               \* the private claim evidence ledger
    commit, dirty,        \* HEAD, and whether files were touched since
    required_gates,       \* of HEAD: "none", "success" or "failure"
    today, edits, crashes,
    released              \* history: the last step was the release of HEAD

releaseVars == <<source, repository, ledger, commit, dirty, required_gates,
                 today, edits, crashes, released>>

Sources == {"results", "rtl", "tasks", "references", "inventory"}
CapabilityFiles == {"capability_manifest", "capability_snapshot", "readme"}
CORE_ARTIFACTS == {"readme", "dispatch", "dashboard", "capability_manifest",
                   "receipt", "formal_manifest", "timing_package", "budget"}
Files == CORE_ARTIFACTS \cup CapabilityFiles \cup {"snapshot", "bundle"}

-----------------------------------------------------------------------------
(* What a fresh build of a file holds, and the files it must parse.        *)
build_budget == [references |-> source["references"]]
build_manifest == [rtl |-> source["rtl"], tasks |-> source["tasks"]]
build_package == [tasks |-> repository["formal_manifest"].tasks]
build_dashboard == [results |-> source["results"], keys |-> repository["dispatch"].whole]
Inventory == source["inventory"]
build_capability_manifest == [inventory |-> Inventory]

Hashed(t) == [f \in CORE_ARTIFACTS |-> t[f]]
build_bundle == [results |-> source["results"], digests |-> Hashed(repository)]

Parsed(f) ==
    CASE f = "timing_package" -> {"formal_manifest", "budget"}
      [] f = "dashboard"      -> {"budget"}
      [] f = "bundle"         -> {"dashboard"}
      [] OTHER                -> {}

Buildable(f) == \A g \in Parsed(f) : repository[g] # Torn

Build(f) ==
    CASE f = "budget"          -> build_budget
      [] f = "formal_manifest" -> build_manifest
      [] f = "timing_package"  -> build_package
      [] f = "dashboard"       -> build_dashboard
      [] f \in CapabilityFiles -> build_capability_manifest
      [] f = "bundle"          -> build_bundle

(* The checks of the generators: a build that raises is no better than a   *)
(* difference.                                                             *)
Matches(f) == Buildable(f) /\ repository[f] = Build(f)

check_budget == Matches("budget")
check_manifest == Matches("formal_manifest")
check_package == Matches("timing_package")
check_dashboard == Matches("dashboard")
check_bundle == Matches("bundle")

(* Mutant: the block in the README is not compared. *)
OutputsWithoutReadme == Matches("capability_manifest") /\ Matches("capability_snapshot")

assert_outputs_current == \A f \in CapabilityFiles : Matches(f)

(* tests/unit/test_dispatch.py: every kernel is listed in the table, and   *)
(* the packaged snapshot is the table to the byte.                         *)
DispatchTests == repository["dispatch"].whole /\ repository["snapshot"] = repository["dispatch"]

-----------------------------------------------------------------------------
(* update_dispatch: the measured order goes into the table as it is found, *)
(* with a new timestamp, and the table is copied.                          *)
rewrite_dispatch == [whole |-> repository["dispatch"].whole, results |-> source["results"], last_updated |-> today]

Outputs(generator) ==
    CASE generator = "update_dispatch"     -> <<"dispatch", "snapshot">>
      [] generator = "capability_manifest" -> <<"capability_manifest", "capability_snapshot", "readme">>
      [] OTHER                             -> <<generator>>

Generators == {"update_dispatch", "capability_manifest", "budget", "formal_manifest",
               "timing_package", "dashboard", "bundle"}

NewContent(generator, f) ==
    IF generator = "update_dispatch" THEN rewrite_dispatch ELSE Build(f)

(* A torn table still parses line by line, with kernels missing.           *)
TornContent(f) == IF f = "dispatch" THEN [repository[f] EXCEPT !.whole = FALSE] ELSE Torn

(* The README is written around its old prose, so a torn one is refused.   *)
Completed(generator) == IF repository["readme"] = Torn /\ generator = "capability_manifest" THEN 2
                        ELSE Len(Outputs(generator))

(* The repository with the first n outputs written, the next one half.     *)
Written(generator, n, half) ==
    [f \in Files |->
        IF \E m \in 1 .. n : Outputs(generator)[m] = f THEN NewContent(generator, f)
        ELSE IF half /\ Outputs(generator)[n + 1] = f THEN TornContent(f)
        ELSE repository[f]]

Changed(t) ==
    /\ repository' = t
    /\ dirty' = (dirty \/ t # repository)

write(generator) ==
    /\ \A n \in DOMAIN Outputs(generator) : Buildable(Outputs(generator)[n])
    /\ \/ /\ Changed(Written(generator, Completed(generator), FALSE))
          /\ UNCHANGED crashes
       \/ /\ crashes < MAX_CRASHES /\ crashes' = crashes + 1
          /\ \E n \in 0 .. Completed(generator) - 1, half \in BOOLEAN :
                Changed(Written(generator, n, half))
    /\ released' = FALSE
    /\ UNCHANGED <<source, ledger, commit, required_gates, today, edits>>

-----------------------------------------------------------------------------
(* The review of the claims at a clean HEAD, and its public receipt.       *)

_claim_findings(claim) == claim.public => claim.passed /\ ~claim.blocked

Review ==
    /\ ~dirty
    /\ \E claim \in LedgerClaims :
          ledger' = [claim |-> claim, reviewed_commit |-> commit, updated_utc |-> today]
    /\ released' = FALSE
    /\ UNCHANGED <<source, repository, commit, dirty, required_gates, today, edits, crashes>>

build_review_receipt ==
    [ledger_sha256 |-> ledger.claim, reviewed_commit |-> ledger.reviewed_commit,
     reviewed_utc |-> ledger.updated_utc]

Emit ==
    /\ _claim_findings(ledger.claim)
    /\ \/ Changed([repository EXCEPT !["receipt"] = build_review_receipt]) /\ UNCHANGED crashes
       \/ /\ crashes < MAX_CRASHES /\ crashes' = crashes + 1
          /\ Changed([repository EXCEPT !["receipt"] = Torn])
    /\ released' = FALSE
    /\ UNCHANGED <<source, ledger, commit, required_gates, today, edits>>

validate_review_receipt(receipt) ==
    /\ receipt # Torn
    /\ receipt.reviewed_commit = commit - 1
    /\ receipt.reviewed_utc + MAX_AGE_DAYS >= today

-----------------------------------------------------------------------------
ReleaseInit ==
    /\ source = [s \in Sources |-> 1]
    /\ ledger \in [claim : {c \in LedgerClaims : _claim_findings(c)},
                   reviewed_commit : {0}, updated_utc : {0}]
    /\ repository = LET table == [whole |-> TRUE, results |-> 1, last_updated |-> 0]
                  rest == [f \in Files |->
                      CASE f \in {"dispatch", "snapshot"} -> table
                        [] f = "receipt" -> build_review_receipt
                        [] f = "budget" -> [references |-> 1]
                        [] f = "formal_manifest" -> [rtl |-> 1, tasks |-> 1]
                        [] f = "timing_package" -> [tasks |-> 1]
                        [] f = "dashboard" -> [results |-> 1, keys |-> TRUE]
                        [] OTHER -> [inventory |-> 1]]
              IN  [rest EXCEPT !["bundle"] = [results |-> 1, digests |-> Hashed(rest)]]
    /\ commit = 1 /\ dirty = FALSE /\ required_gates = "none"
    /\ today = 0 /\ edits = 0 /\ crashes = 0 /\ released = FALSE

Edit ==
    /\ edits < MAX_EDITS /\ edits' = edits + 1
    /\ \E s \in Sources : source' = [source EXCEPT ![s] = @ + 1]
    /\ dirty' = TRUE /\ released' = FALSE
    /\ UNCHANGED <<repository, ledger, commit, required_gates, today, crashes>>

Commit ==
    /\ dirty /\ commit < MAX_COMMITS
    /\ commit' = commit + 1 /\ dirty' = FALSE /\ required_gates' = "none"
    /\ released' = FALSE
    /\ UNCHANGED <<source, repository, ledger, today, edits, crashes>>

(* ci.yml and formal.yml, as far as they look at these files.              *)
core_gate ==
    /\ check_budget /\ check_manifest /\ check_package /\ check_dashboard /\ check_bundle
    /\ assert_outputs_current
    /\ DispatchTests

formal_gate == check_manifest

RunGates ==
    /\ ~dirty /\ required_gates = "none"
    /\ required_gates' = IF core_gate /\ formal_gate THEN "success" ELSE "failure"
    /\ released' = FALSE
    /\ UNCHANGED <<source, repository, ledger, commit, dirty, today, edits, crashes>>

(* A tag on HEAD; the gates are not run again, the receipt is read now.    *)
Release ==
    /\ ~dirty /\ required_gates = "success"
    /\ validate_review_receipt(repository["receipt"])
    /\ released' = TRUE
    /\ UNCHANGED <<source, repository, ledger, commit, dirty, required_gates, today, edits, crashes>>

Day ==
    /\ today < MAX_DAYS /\ today' = today + 1
    /\ released' = FALSE
    /\ UNCHANGED <<source, repository, ledger, commit, dirty, required_gates, edits, crashes>>

ReleaseNext ==
    \/ \E generator \in Generators : write(generator)
    \/ Review \/ Emit \/ Edit \/ Commit \/ RunGates \/ Release \/ Day

ReleaseSpec == ReleaseInit /\ [][ReleaseNext]_releaseVars

-----------------------------------------------------------------------------
(* The files that follow from the hand-written ones, all the way down.     *)
Derived == [budget |-> [references |-> source["references"]],
            formal_manifest |-> [rtl |-> source["rtl"], tasks |-> source["tasks"]],
            timing_package |-> [tasks |-> source["tasks"]],
            dashboard |-> [results |-> source["results"], keys |-> TRUE],
            capability_manifest |-> [inventory |-> source["inventory"]],
            capability_snapshot |-> [inventory |-> source["inventory"]],
            readme |-> [inventory |-> source["inventory"]]]

(* However edits, generators, their crashes, reviews and commits came in   *)
(* turn: in what is released every derived file but the dispatch table is  *)
(* the one its ultimate sources give, the table, which no gate compares    *)
(* with the benchmarks, is whole and the wheel's, the bundle digests the   *)
(* very files beside it, and the receipt among them is of a fresh review   *)
(* of the commit before, which let no claim of the ledger it digests be    *)
(* public against its evidence.                                            *)
ReleaseIsConsistent ==
    released =>
        /\ \A f \in DOMAIN Derived : repository[f] = Derived[f]
        /\ repository["snapshot"] = repository["dispatch"] /\ repository["dispatch"].whole
        /\ repository["bundle"] = [results |-> source["results"], digests |-> Hashed(repository)]
        /\ LET receipt == repository["receipt"] IN
              /\ receipt.reviewed_commit = commit - 1
              /\ today - receipt.reviewed_utc <= MAX_AGE_DAYS
              /\ receipt.ledger_sha256.public =>
                    receipt.ledger_sha256.passed /\ ~receipt.ledger_sha256.blocked
=============================================================================
