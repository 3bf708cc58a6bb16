----------------------------- MODULE Permission -----------------------------
(***************************************************************************)
(* The permission engine (internal/permission): what is decided about one  *)
(* tool call, from the rules, the mode in force and the approvals the      *)
(* operator asked to have remembered.  A pattern, or the name of a tool,   *)
(* is modelled by the set of requests it matches.                          *)
(***************************************************************************)
CONSTANTS Request,       \* tool calls, up to what the engine sees of them
          Mutating,      \* ... of tools that report Mutating()
          Command,       \* ... that carry a command line (exec)
          DefaultRules,
          RulesFile,     \* what the rules file says, or NoRulesFile
          rememberKey    \* the key an approval of a request is kept under

Rules == [denyCommands : SUBSET SUBSET Command,
          allowCommands : SUBSET SUBSET Command,
          denyPaths : SUBSET SUBSET Request,
          autoAllowTools : SUBSET SUBSET Request]
NoRulesFile == [absent |-> TRUE]

ASSUME PermissionAssumption ==
    /\ Mutating \subseteq Request
    /\ Command \subseteq Request
    /\ DefaultRules \in Rules
    /\ RulesFile \in Rules \/ RulesFile = NoRulesFile
    /\ DOMAIN rememberKey = Request

Mode == {"plan", "approve", "auto"}
Key == {rememberKey[r] : r \in Request}

\* Mutation of LoadRules: the file replaces the defaults.
LoadRulesReplacing == IF RulesFile = NoRulesFile THEN DefaultRules ELSE RulesFile

\* A rules file adds to the lists and replaces the auto-allowed tools, if it
\* names any.
LoadRules ==
    IF RulesFile = NoRulesFile THEN DefaultRules
    ELSE [denyCommands |-> DefaultRules.denyCommands \cup RulesFile.denyCommands,
          allowCommands |-> DefaultRules.allowCommands \cup RulesFile.allowCommands,
          denyPaths |-> DefaultRules.denyPaths \cup RulesFile.denyPaths,
          autoAllowTools |-> IF RulesFile.autoAllowTools # {} THEN RulesFile.autoAllowTools
                             ELSE DefaultRules.autoAllowTools]

Matches(patterns, r) == \E p \in patterns : r \in p
AutoTool == UNION LoadRules.autoAllowTools

\* Deny rules and the allow list: no mode and no approval reaches past them.
RuleDenied(r) ==
    \/ Matches(LoadRules.denyCommands, r)
    \/ /\ r \in Command
       /\ LoadRules.allowCommands # {}
       /\ ~Matches(LoadRules.allowCommands, r)
    \/ Matches(LoadRules.denyPaths, r)

\* The auto-allow list is looked at before the mode, plan mode included.
Evaluate(mode, remembered, r) ==
    CASE RuleDenied(r) -> "deny"
      [] ~RuleDenied(r) /\ r \in (Request \ Mutating) \cup AutoTool -> "allow"
      [] ~RuleDenied(r) /\ r \in Mutating \ AutoTool ->
           CASE mode = "plan" -> "deny"
             [] mode = "auto" -> "allow"
             [] mode = "approve" ->
                  IF rememberKey[r] \in remembered THEN "allow" ELSE "ask"
=============================================================================
