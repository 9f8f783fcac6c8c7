----------------------------- MODULE CommandLine -----------------------------
(***************************************************************************)
(* The three services of src/src/command.c.  They share no state: a        *)
(* behaviour is one call of one of them, the others staying as they are.   *)
(***************************************************************************)
EXTENDS Wildcard, TargetPath, Options

VARIABLE call  \* which service is called

commandVars == <<wildcardVars, targetVars, optionsVars, call>>

NoWildcard == /\ pattern = <<>> /\ text = <<>> /\ cursor = 1 /\ best = 1
              /\ best_size = 0 /\ p = 1 /\ t = 1 /\ star = 0 /\ retry = 0
              /\ verdict = "anchor"
NoTarget == /\ destination = <<>> /\ package = <<>> /\ format = <<>>
            /\ many = FALSE /\ stage = "start" /\ path = <<>> /\ fcb = NoFcb
NoOptions == /\ typed = <<>> /\ argv = <<>> /\ read_index = 1 /\ write_index = 1
             /\ found = {} /\ options = Defaults /\ parse = "running"

CommandInit == \/ call = "match" /\ WildcardInit /\ NoTarget /\ NoOptions
               \/ call = "target" /\ TargetInit /\ NoWildcard /\ NoOptions
               \/ call = "options" /\ OptionsInit /\ NoWildcard /\ NoTarget

Match  == call = "match" /\ WildcardNext /\ UNCHANGED <<targetVars, optionsVars, call>>
Target == call = "target" /\ TargetNext /\ UNCHANGED <<wildcardVars, optionsVars, call>>
Parse  == call = "options" /\ OptionsNext /\ UNCHANGED <<wildcardVars, targetVars, call>>

CommandNext == Match \/ Target \/ Parse

\* The matcher runs on: nothing in it waits.
CommandSpec == CommandInit /\ [][CommandNext]_commandVars /\ WF_commandVars(Match)
-----------------------------------------------------------------------------
\* The matcher says yes of exactly the names that match.
MatchIsExact == ListedMatches /\ MatchesListed

\* No turn of the matcher's loops is for nothing: every match comes to an end.
Decides == call = "match" ~> verdict \in {"yes", "no"}
=============================================================================
