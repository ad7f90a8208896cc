----------------------------- MODULE GsdCommands -----------------------------
(***************************************************************************)
(* The catalogue of GSD commands (lib/gsdCommands.ts): the parameters each  *)
(* command asks for, all of them required, and the preset sequences; and    *)
(* the backend's own table of prompt templates (ws/sequencer.py), of which  *)
(* only the placeholders matter here.                                       *)
(***************************************************************************)

Project ==
  [c \in {"new-project", "define-requirements", "create-roadmap", "research-phase"} |->
     IF c = "research-phase" THEN {"phase"} ELSE {}]

PhaseLifecycle ==
  [c \in {"discuss-phase", "plan-phase", "execute-phase", "verify-phase",
          "plan-phase-gaps", "plan-phase-reviews"} |-> {"phase"}]

Execution ==
  [c \in {"execute-plan", "check-plan", "uat", "quick", "clear"} |->
     CASE c = "execute-plan" -> {"phase", "plan"}
       [] c \in {"check-plan", "uat"} -> {"phase"}
       [] c = "quick" -> {"task"}
       [] c = "clear" -> {}]

Milestone ==
  [c \in {"retro", "close-milestone", "new-milestone", "status"} |->
     IF c = "new-milestone" THEN {"name"} ELSE {}]

Required ==
  [c \in UNION {DOMAIN Project, DOMAIN PhaseLifecycle, DOMAIN Execution, DOMAIN Milestone} |->
     CASE c \in DOMAIN Project -> Project[c]
       [] c \in DOMAIN PhaseLifecycle -> PhaseLifecycle[c]
       [] c \in DOMAIN Execution -> Execution[c]
       [] c \in DOMAIN Milestone -> Milestone[c]]

Preset ==
  [new_project |-> <<"new-project", "define-requirements", "create-roadmap">>,
   milestone_cycle |-> <<"discuss-phase", "plan-phase", "execute-phase", "verify-phase">>]

\* GSD_PROMPT_TEMPLATES: the {{placeholders}} of each template.
NoParameter == {"new-project", "define-requirements", "create-roadmap", "clear", "retro",
                "close-milestone", "status"}
OfPhase == {"research-phase", "discuss-phase", "plan-phase", "execute-phase", "verify-phase",
            "plan-phase-gaps", "plan-phase-reviews", "check-plan", "uat"}
Placeholder ==
  [c \in NoParameter \cup OfPhase \cup {"execute-plan", "quick", "new-milestone"} |->
     CASE c \in NoParameter -> {}
       [] c \in OfPhase -> {"phase"}
       [] c = "execute-plan" -> {"phase", "plan"}
       [] c = "quick" -> {"task"}
       [] c = "new-milestone" -> {"name"}]

\* expand_prompt: what is left of the placeholders; a command without a template is
\* its own prompt.
Expand(command, filled) ==
  IF command \in DOMAIN Placeholder THEN Placeholder[command] \ filled ELSE {}
=============================================================================
