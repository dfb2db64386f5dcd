-------------------------- MODULE CompilePipeline --------------------------
(***************************************************************************)
(* A program on its way through compile_path and out of the executable:    *)
(* parsed, lowered, generated, run, or rejected on the way.                *)
(***************************************************************************)
EXTENDS CompiledCode

CONSTANT Programs   \* the programs considered

VARIABLES
  source,   \* the program as parsed
  stage,    \* how far it got
  hir,      \* what lowering made of it
  code,     \* what code generation made of that
  outcome   \* what its run showed, or why it was rejected

vars == <<source, stage, hir, code, outcome>>

None == "none"

Init ==
  /\ source \in Programs
  /\ stage = "parsed"
  /\ hir = <<>>
  /\ code = None
  /\ outcome = None

\* Variant: the error is lost.
RejectSilently(why) == stage' = "rejected" /\ UNCHANGED outcome

Reject(why) == stage' = "rejected" /\ outcome' = why

Lowered ==
  /\ stage = "parsed"
  /\ LET low == LowerProgram(source) IN
     IF low.ok
     THEN /\ stage' = "lowered"
          /\ hir' = low.items
          /\ UNCHANGED outcome
     ELSE Reject("malformed") /\ UNCHANGED hir
  /\ UNCHANGED <<source, code>>

\* What code generation returned.
Returned(out) ==
  \/ out.ok /\ stage' = "generated" /\ code' = out /\ UNCHANGED outcome
  \/ ~out.ok /\ Reject(out.why) /\ UNCHANGED code

Generated ==
  /\ stage = "lowered"
  /\ Returned(CompileProgram(hir))
  /\ UNCHANGED <<source, hir>>

Ran ==
  /\ stage = "generated"
  /\ stage' = "ran"
  /\ outcome' = Run(code)
  /\ UNCHANGED <<source, hir, code>>

Next == Lowered \/ Generated \/ Ran

Spec == Init /\ [][Next]_vars

-----------------------------------------------------------------------------
(* Properties.                                                             *)

\* A program moves through the stages, and is rejected for a named reason.
TypeOK ==
  /\ stage \in {"parsed", "lowered", "generated", "ran", "rejected"}
  /\ stage \in {"lowered", "generated", "ran"} => Len(hir) = Len(source)
  /\ stage = "rejected" =>
       outcome \in {"malformed", "undefined", "immutable", "letrec", "procedure value",
                    "kind", "branches", "arity", "not a procedure", "duplicate"}

\* Lowering keeps the meaning: each operand of a derived form is evaluated as
\* often and in the order that R7RS says, and its value is the form's.
LoweringKeepsMeaning ==
  stage = "lowered" /\ Meaning(source).ok => Meaning(hir) = Meaning(source)

\* A program that compiles and means something computes what it means: boxes
\* are shared by all who see a variable, closures capture the right variable,
\* letrec closures find one another, inner variables hide outer ones.
MeaningKept ==
  stage = "ran" /\ Meaning(source).ok => Observed(outcome) = Meaning(source)

\* No program whatever makes the code take a word for a heap object, a box or
\* a closure it is not: the shapes that compile_expr tracks are true.
ShapesTrue ==
  stage = "ran" => outcome.v # Broken

\* A program whose variables are all bound, in which no procedure refers to a
\* variable of the top level, and which assigns none but those of define, let,
\* let* bodies and parameters, is never told that a variable is undefined or
\* immutable: the analyses of names see every use.
NamesResolved ==
  stage = "rejected" => outcome \notin {"undefined", "immutable"}
=============================================================================
