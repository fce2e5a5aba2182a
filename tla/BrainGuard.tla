----------------------------- MODULE BrainGuard -----------------------------
(***************************************************************************)
(* What stands between a build and a trading container: the guard that the *)
(* council's container runs before its loop (docker/brain_guard.py, with   *)
(* the static check of nse/execution/options_runner.py) and the readiness  *)
(* check an operator runs on the host (docker/preflight.py), which runs    *)
(* the guard too.                                                          *)
(*                                                                         *)
(* A build is what importing each module loads: whatever it imports, in    *)
(* turn, and the packages it lies in.  What cannot be imported leaves a    *)
(* part of that behind.                                                    *)
(***************************************************************************)
EXTENDS FiniteSets

CONSTANTS
    Modules,       \* the repository's modules that matter here
    Runner,        \* nse.execution.options_runner
    Client,        \* nse.execution.sentinel_client
    BrainModules,  \* BRAIN_MODULES
    Forbidden,     \* FORBIDDEN_MODULES and what lies below them
    Builds         \* [loads : Modules -> SUBSET Modules, named : SUBSET Modules]

ASSUME BrainGuardAssumption ==
    /\ {Runner, Client} \cup BrainModules \cup Forbidden \subseteq Modules
    /\ \A b \in Builds :
        /\ b.loads \in [Modules -> SUBSET Modules]
        /\ \A m \in Modules : m \in b.loads[m]
        /\ \A m \in Modules : \A n \in b.loads[m] : b.loads[n] \subseteq b.loads[m]
        /\ b.named \subseteq b.loads[Runner]  \* what the import statements of Runner name

VARIABLES
    build,     \* the build in the image
    broken,    \* modules whose own code raises
    env,       \* the container's environment
    duty,      \* "boot", or "preflight": the guard runs inside the larger check
    stage,     \* where the guard is
    sysModules,    \* the modules of ours in sys.modules
    before,    \* the guard's copy of it
    toImport,  \* what its loop has left
    complaints \* its failures

guardVars == <<build, broken, env, duty, stage, sysModules, before, toImport, complaints>>

Environments ==
    [url : {"unset", "loopback", "service"}, armed : BOOLEAN]

Stages == {"static", "snapshot", "imports", "judge", "started", "refused"}

Reached(m) == build.loads[m]

Imports(m) == Reached(m) \cap broken = {}

\* The import of m, as far as it gets.
Imported(m) ==
    IF Imports(m) THEN {sysModules \cup Reached(m)}
    ELSE {sysModules \cup part : part \in SUBSET (Reached(m) \ broken)}

GuardInit ==
    /\ build \in Builds
    /\ broken \in {{}} \cup {{m} : m \in BrainModules}
    /\ env \in Environments
    /\ duty \in {"boot", "preflight"}
    \* check_sentinel has asked the client for its interval by then.
    /\ sysModules = IF duty = "preflight" /\ Imports(Client) THEN Reached(Client) ELSE {}
    /\ stage = "static" /\ before = {} /\ toImport = BrainModules /\ complaints = {}

---------------------------------------------------------------------------
(* check *)

\* 1. test_no_order_imports has to be imported to be run; it parses one file.
StaticCheck ==
    /\ stage = "static" /\ stage' = "snapshot"
    /\ sysModules' \in Imported(Runner)
    /\ complaints' = complaints
        \cup (IF ~Imports(Runner) THEN {"static check did not run"}
              ELSE IF build.named \cap Forbidden # {} THEN {"runner names the broker"} ELSE {})
    /\ UNCHANGED <<build, broken, env, duty, before, toImport>>

\* 2. before = set(sys.modules)
Snapshot ==
    /\ stage = "snapshot" /\ stage' = "imports"
    /\ before' = sysModules
    /\ UNCHANGED <<build, broken, env, duty, sysModules, toImport, complaints>>

ImportBrain(m) ==
    /\ stage = "imports" /\ m \in toImport
    /\ toImport' = toImport \ {m}
    /\ sysModules' \in Imported(m)
    /\ complaints' = IF Imports(m) THEN complaints ELSE complaints \cup {"failed to import"}
    /\ UNCHANGED <<build, broken, env, duty, stage, before>>

\* Fault: what is looked for is the brain tier's own modules.
LeakedTopLevel == {m \in sysModules \ before : m \in Forbidden /\ m \in BrainModules}

\* pulled, and what of it can place an order.
Leaked == (sysModules \ before) \cap Forbidden

Compared ==
    /\ stage = "imports" /\ toImport = {} /\ stage' = "judge"
    /\ complaints' = complaints
        \cup (IF Leaked # {} THEN {"leak"}
              ELSE IF \A m \in BrainModules : ~Imports(m) THEN {"proved nothing"} ELSE {})
    /\ UNCHANGED <<build, broken, env, duty, sysModules, before, toImport>>

\* 3. The route to the sentinel, the arming flag, and the verdict.
Judge ==
    /\ stage = "judge"
    /\ complaints' = complaints
        \cup (IF env.url # "service" THEN {"no route to the sentinel"} ELSE {})
        \cup (IF env.armed THEN {"armed"} ELSE {})
    /\ stage' = IF complaints' = {} THEN "started" ELSE "refused"
    /\ UNCHANGED <<build, broken, env, duty, sysModules, before, toImport>>

GuardNext ==
    \/ StaticCheck
    \/ Snapshot
    \/ \E m \in Modules : ImportBrain(m)
    \/ Compared
    \/ Judge

GuardSpec == GuardInit /\ [][GuardNext]_guardVars

---------------------------------------------------------------------------
(* Properties *)

\* The guard refuses a build in which importing the brain tier loads a module that places
\* orders ("This catches a transitive import the AST check on a single file cannot see").
\* The code does not: the static check of step 1 imports the runner, with everything it
\* imports in turn, before the copy that step 2 compares with.  In this repository the
\* package nse.execution imports the NSE runner, which imports the broker, so that the broker
\* is loaded in the council's process each time the guard passes.
GuardSeesLeaks == stage = "started" => sysModules \cap Forbidden = {}

\* What the guard does catch: an order-placing module in the started process came with the
\* runner, or with the client when preflight asked before; no other module of the tier brings
\* one unseen, whatever order they are imported in and whatever they share.
OnlyTheRunnerLeaks ==
    stage = "started" =>
        \A m \in sysModules \cap Forbidden :
            m \in Reached(Runner) \/ (duty = "preflight" /\ m \in Reached(Client))
=============================================================================
