----------------------------- MODULE StackAudit -----------------------------
(***************************************************************************)
(* scripts/stack-conformance, as CI runs it (bun run stack:check --ci): a  *)
(* repository is classified by the signatures of its files and by its      *)
(* stack.json, graded by the checks that fit its kind and intent, and, when*)
(* it is a workspace, so is each member, depth first.  Four of the checks  *)
(* that can fail CI stand for all: a root-only one of any intent but exempt*)
(* and one of production only, one that members inherit the files of, and  *)
(* the classification itself.  A yellow result fails nothing and is left   *)
(* out.                                                                    *)
(***************************************************************************)
EXTENDS Integers, FiniteSets, Sequences

CONSTANTS MaxFeatures,  \* bound on the features of the root; a member has one less
          MaxScopes     \* bound on the scopes of a repository
ASSUME AuditAssumption == MaxFeatures \in Nat \ {0} /\ MaxScopes \in Nat \ {0}

\* What a directory shows: dependencies, files, and entries of its package.json.
Features ==
    {"package", "next", "expo", "aws-cdk-lib", "cdk.json", "cdk.json's own lib", "handlers",
     "bin", "entry", "members", "index.html", "docs", "plugin"}
Directories(most) == {f \in SUBSET Features : Cardinality(f) <= most}

\* A stack.json that is missing, too large, or not valid declares nothing.  One kind
\* stands for all that a pin may name.
Undeclared   == [kind |-> "none", intent |-> "none", pin |-> "none"]
Declarations ==
    {Undeclared}
    \cup [kind : {"a shape", "other"}, intent : {"production", "sandbox", "exempt"},
          pin : {"none", "next-app"}]

-----------------------------------------------------------------------------
(* kinds.ts *)

IsWorkspaceRoot(f) == "members" \in f
Consumable(f)      == "entry" \in f
HasPackage(f) == f \cap {"package", "next", "expo", "aws-cdk-lib", "bin", "entry"} # {}
AppMarkers(f) ==
    \/ f \cap {"next", "expo", "aws-cdk-lib", "cdk.json", "handlers", "members"} # {}
    \/ "bin" \in f /\ ~Consumable(f)

AppKinds  == {"next-app", "expo-app", "cdk-service", "lambda-service"}
Signed    == AppKinds \cup {"workspace", "package", "cli", "cdk-library", "static-site",
                            "docs-repo", "toolkit"}

Fits(kind, f, isMember) ==
    LET noFramework == f \cap {"next", "expo"} = {}
        plain       == ~AppMarkers(f) /\ "plugin" \notin f
    IN  CASE kind = "workspace"   -> IsWorkspaceRoot(f)
          [] kind = "next-app"    -> "next" \in f /\ ~IsWorkspaceRoot(f)
          [] kind = "expo-app"    -> "expo" \in f /\ ~IsWorkspaceRoot(f)
          [] kind = "cdk-service" -> /\ "cdk.json" \in f
                                     /\ f \cap {"aws-cdk-lib", "cdk.json's own lib"} # {}
                                     /\ ~IsWorkspaceRoot(f) /\ noFramework
          [] kind = "lambda-service" -> /\ "handlers" \in f /\ ~Consumable(f)
                                        /\ "cdk.json" \notin f
                                        /\ ~IsWorkspaceRoot(f) /\ noFramework
          [] kind = "cdk-library" -> /\ "aws-cdk-lib" \in f /\ "cdk.json" \notin f
                                     /\ Consumable(f)
          [] kind = "cli"         -> /\ "bin" \in f /\ ~Consumable(f)
                                     /\ f \cap {"handlers", "cdk.json"} = {}
                                     /\ ~IsWorkspaceRoot(f) /\ noFramework
          [] kind = "package"     -> isMember /\ HasPackage(f) /\ ~AppMarkers(f)
          [] kind = "static-site" -> "index.html" \in f /\ plain
          [] kind = "docs-repo"   -> "docs" \in f /\ "index.html" \notin f /\ plain
          [] OTHER                -> HasPackage(f) /\ "plugin" \in f

DetectKind(f, isMember) ==
    LET hits == {kind \in Signed : Fits(kind, f, isMember)}
    IN  CASE hits = {}             -> "unknown"
          [] Cardinality(hits) > 1 -> "ambiguous"
          [] OTHER                 -> CHOOSE kind \in hits : TRUE

-----------------------------------------------------------------------------
(* classify and the checks *)

EffectiveKind(detected, d) ==
    CASE d.kind = "other" /\ detected = "unknown" -> "other"
      [] d.pin # "none"                           -> d.pin
      [] OTHER                                    -> detected

\* Mutant: a member without a declaration is graded as production.
OwnIntent(d, inherited) == IF d = Undeclared THEN "production" ELSE d.intent

Intent(d, inherited) ==
    CASE d # Undeclared       -> d.intent
      [] inherited # "none"   -> inherited
      [] OTHER                -> "production"

AnyKind == Signed \cup {"other"}
Applicable(kind, intent, isMember) ==
    {check \in {"lockfile", "claude-md", "ci-workflow", "kind-resolvable"} :
        /\ check \in {"lockfile", "claude-md"} => kind \in AnyKind /\ ~isMember
        /\ check = "ci-workflow" => kind \in AppKinds \cup {"workspace"}
        /\ intent = "production" \/ (check = "lockfile" /\ intent = "sandbox")}

\* A member with no workflow of its own sees its parent's.
SeenWorkflows(own, parents, isMember) ==
    IF isMember /\ own = "none" THEN parents ELSE own

\* The red results; wrong says what is missing or foreign at the root.
RedChecks(detected, d, workflows, wrong) ==
    {check \in {"lockfile", "claude-md"} : check = wrong}
    \cup (IF workflows = "ci" THEN {} ELSE {"ci-workflow"})
    \cup (IF detected = "ambiguous" /\ d.kind # "other"
          THEN {"kind-resolvable"} ELSE {})

-----------------------------------------------------------------------------
VARIABLES
    toAudit,        \* the scopes to come, as calls of auditRepoAt: what each inherits
    scopes,         \* how many scopes the repository has so far
    ciRed,          \* some audited scope was red
    rootIntent,     \* the intent the root was graded with
    claims,         \* what the stack.json files seen claimed
    unvisited,      \* a scope has members that no call is made for
    defective,      \* a scope of one shape lacks what the standard asks, or has two shapes
    auditExit       \* -1 before the end

auditVars == <<toAudit, scopes, ciRed, rootIntent, claims, unvisited, defective, auditExit>>

Call(isMember, intent, workflows) ==
    [isMember |-> isMember, intent |-> intent, workflows |-> workflows]

AuditInit ==
    /\ toAudit = <<Call(FALSE, "none", "none")>>
    /\ scopes = 1
    /\ ciRed = FALSE /\ rootIntent = "none"
    /\ claims = {} /\ unvisited = FALSE /\ defective = FALSE
    /\ auditExit = -1

\* The scope's own shape, whatever its stack.json makes of it, is not in order.
Defective(detected, isMember, workflows, wrong) ==
    \/ detected = "ambiguous"
    \/ ~isMember /\ detected # "unknown" /\ wrong # "nothing"
    \/ detected \in AppKinds \cup {"workspace"} /\ workflows # "ci"

\* One call: grade the scope, then call for its members if it is graded as a workspace.
AuditScope(f, d, own, wrong, members) ==
    LET call      == Head(toAudit)
        intent    == Intent(d, call.intent)
        detected  == DetectKind(f, call.isMember)
        kind      == EffectiveKind(detected, d)
        workflows == SeenWorkflows(own, call.workflows, call.isMember)
        calls     == IF kind # "workspace" THEN <<>>
                     ELSE [i \in 1..members |-> Call(TRUE, intent, workflows)]
    IN  /\ ciRed' = (ciRed \/ Applicable(kind, intent, call.isMember)
                                \cap RedChecks(detected, d, workflows, wrong) # {})
        /\ toAudit' = calls \o Tail(toAudit)
        /\ scopes' = scopes + members
        /\ rootIntent' = IF call.isMember THEN rootIntent ELSE intent
        /\ claims' = claims \cup IF d = Undeclared THEN {}
                                 ELSE {d.intent} \cup {c \in {d.kind} : c = "other"}
                                                 \cup {"pin" : p \in {d.pin} \ {"none"}}
        /\ unvisited' = (unvisited \/ Len(calls) # members)
        /\ defective' = (defective \/ Defective(detected, call.isMember, workflows, wrong))

Audit ==
    /\ toAudit # <<>>
    /\ LET isMember == Head(toAudit).isMember
       IN  \E f \in Directories(IF isMember THEN MaxFeatures - 1 ELSE MaxFeatures),
              d \in Declarations, own \in {"none", "ci", "others"},
              wrong \in IF isMember THEN {"nothing"} ELSE {"nothing", "lockfile", "claude-md"},
              members \in 0..(MaxScopes - scopes) :
                /\ members = 0 <=> ~IsWorkspaceRoot(f)
                /\ AuditScope(f, d, own, wrong, members)
    /\ UNCHANGED auditExit

Exit ==
    /\ toAudit = <<>> /\ auditExit = -1
    /\ auditExit' = IF ciRed THEN 1 ELSE 0
    /\ UNCHANGED <<toAudit, scopes, ciRed, rootIntent, claims, unvisited, defective>>

AuditNext == Audit \/ Exit

AuditSpec == AuditInit /\ [][AuditNext]_auditVars

-----------------------------------------------------------------------------
\* What CI concludes is true of the whole repository.  Where no stack.json claims
\* anything but production, a clean exit means that every member of every workspace,
\* at any depth, was graded, that none has two shapes and that none lacks what its
\* shape is asked; a failing exit means that one does.  A repository whose root is
\* exempt, and whose members claim nothing else, never fails (standard.ts:132-138).
VerdictCoversEveryMember ==
    /\ auditExit # -1 /\ claims \subseteq {"production"} =>
         /\ auditExit = 0 => ~unvisited /\ ~defective
         /\ auditExit = 1 => defective
    /\ rootIntent = "exempt" /\ claims = {"exempt"} => auditExit # 1

=============================================================================
