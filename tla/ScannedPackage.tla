---------------------------- MODULE ScannedPackage ----------------------------
(***************************************************************************)
(* The package a scan is about, and what the registry client keeps of it   *)
(* while the three pillars ask: the document for ten seconds, the download *)
(* count for five minutes.  What RegistryClient proves of the client is    *)
(* taken for granted here: an absence rests on two answers, so a package   *)
(* that is listed is never absent.  Any lookup may go unanswered.          *)
(***************************************************************************)
EXTENDS Integers, FiniteSets

VARIABLES
  package,   \* the package asked for, as the registry has it
  ai,        \* PackageScanRequest.ai_suggested
  admin,     \* ~/.cidas/config.json
  registry   \* what the client keeps: [document, count]

packageVars == <<package, ai, admin, registry>>

NoValue == -1      \* Python's None, where a number is expected

Packages ==
  [known : BOOLEAN, listed : BOOLEAN, placeholder : BOOLEAN,
   hits : SUBSET {"typo", "affix", "homoglyph"}, downloads : Nat, age : Nat \cup {NoValue},
   repository : BOOLEAN, advisories : {"none", "vulnerable", "malware"}]

Admins ==
  [affix : BOOLEAN, corroborate : BOOLEAN, shield_manifest_gating : BOOLEAN,
   shield_native_trigger_check : BOOLEAN, package_file_scan : BOOLEAN, llm : BOOLEAN]

PackageInit == registry = [document |-> FALSE, count |-> NoValue]

Answers ==
  IF registry.document THEN {"exists"}
  ELSE {IF package.listed THEN "exists" ELSE "absent", "undetermined"}

Remember(status) ==
  registry' = [registry EXCEPT !.document = @ \/ status = "exists"]

\* A count that could not be fetched is 0, and is kept like any other.
Counts == IF registry.count # NoValue THEN {registry.count} ELSE {package.downloads, 0}

\* A scan that waits for timeouts and retries outlives the ten seconds.
Expire ==
  /\ registry.document
  /\ registry' = [registry EXCEPT !.document = FALSE]
  /\ UNCHANGED <<package, ai, admin>>
=============================================================================
