-------------------------- MODULE RunPipelineProofs --------------------------
(***************************************************************************)
(* Proofs about RunPipeline, for every set of processes, texts, modules    *)
(* and libraries.  Runs of one module that work at once, or of which the   *)
(* tool still does after the death of the process, know each other as      *)
(* disturbed, so a run that is not has the files of its module for itself: *)
(* at each step it holds, in memory or in a file, what its own program     *)
(* makes.                                                                  *)
(***************************************************************************)
EXTENDS RunPipeline, TLAPS

\* Two that work in one directory, or their tools, are disturbed, both of them.
Exclusive ==
  \A r, s \in Runs :
    r # s /\ pc[r] \in Working /\ pc[s] \in Working /\ Module(r) = Module(s) =>
      r \in disturbed /\ s \in disturbed

\* What a run nobody disturbed has at each step.
Own(r) ==
  /\ pc[r] \in {"pre", "preOpen", "ir", "irOpen"} => unit[r] = program[r]
  /\ pc[r] = "opt" => pre[Module(r)] = program[r]
  /\ pc[r] \in {"optOpen", "optWrite", "clangOpen", "clangWrite"} => tool[r] = program[r]
  /\ pc[r] = "readPost" => post[Module(r)] = program[r]
  /\ pc[r] \in {"staticlib", "clang"} => ir[Module(r)] = program[r]
  /\ pc[r] = "exec" => exe[Module(r)].program = program[r]
  /\ pc[r] \in {"running", "done"} => shown[r].program = program[r]
  /\ pc[r] = "failed" => r \in faulted

OwnInv == \A r \in Runs : Alone(r) => Own(r)

\* Whatever lies in the directory of m, or is in the hands of its runs.
Of(m) == {Absent, Torn} \union {p \in Programs : ModuleOf[p] = m}

ModuleInv ==
  /\ \A m \in Modules :
       /\ pre[m] \in Of(m) /\ post[m] \in Of(m)
       /\ ir[m] \in Of(m) /\ exe[m].program \in Of(m)
  /\ \A r \in Runs :
       IF pc[r] = "idle"
       THEN unit[r] = Absent /\ tool[r] = Absent /\ shown[r] = NoExecutable
       ELSE unit[r] \in Of(Module(r)) /\ tool[r] \in Of(Module(r))
            /\ shown[r].program \in Of(Module(r))

Inv == TypeOK /\ Exclusive /\ OwnInv /\ ModuleInv

-----------------------------------------------------------------------------

\* What a step of s leaves to the others.
Frame(s) ==
  /\ pc[s] \in Working /\ pc'[s] # "idle"
  /\ program' = program /\ disturbed' = disturbed /\ started' = started
  /\ faulted \subseteq faulted'
  /\ \A r \in Runs \ {s} :
       pc'[r] = pc[r] /\ unit'[r] = unit[r] /\ tool'[r] = tool[r] /\ shown'[r] = shown[r]
  /\ \A m \in Modules \ {Module(s)} :
       pre'[m] = pre[m] /\ post'[m] = post[m] /\ ir'[m] = ir[m] /\ exe'[m] = exe[m]

\* Nothing is built and nobody runs.
LEMMA InitInv == Init => Inv
<1> SUFFICES ASSUME Init PROVE Inv
  OBVIOUS
<1> USE DEF Init
<1>1. Absent \in Contents /\ NoExecutable \in Executables /\ NoExecutable.program = Absent
  BY BoundsAssumption DEF Contents, NoExecutable, Executables, Linked
<1>2. TypeOK
  BY <1>1, BoundsAssumption DEF TypeOK
<1>3. Exclusive /\ OwnInv
  BY DEF Exclusive, OwnInv, Own, Working
<1>4. ModuleInv
  BY <1>1 DEF ModuleInv, Of
<1> QED
  BY <1>2, <1>3, <1>4 DEF Inv

\* The step of a process at work keeps the kinds, and to its own directory.
LEMMA WorkTypeOK ==
  ASSUME TypeOK, NEW s \in Runs, Work(s)
  PROVE  TypeOK' /\ Frame(s)
<1> USE DEF TypeOK, Frame, Working, Ended, ToolAtWork
<1>1. program[s] \in Programs /\ Module(s) \in Modules /\ Absent \in Contents
      /\ Torn \in Contents /\ Programs \subseteq Contents
      /\ NoExecutable \in Executables /\ TornExecutable \in Executables
      /\ \A p \in Contents, v \in 0 .. MaxEdits + 1 : Linked(p, v) \in Executables
      /\ runtime \in 0 .. MaxEdits + 1
  <2>1. pc[s] # "idle"
    BY DEF Work, Rewrite, Link, Compile, OpenPre, WritePre, OptReads, OptOpens, OptWrites,
       ReadPost, OpenIr, WriteIr, EnsureRuntimeStaticlib, ClangReads, ClangOpens,
       ClangWrites, Execute, ProgramEnds, Goto, Fault, Refuse, Fail, ToolEnds
  <2> QED
    BY <2>1, ModuleOfAssumption, BoundsAssumption
    DEF Module, Contents, Executables, NoExecutable, TornExecutable, Linked
<1> USE <1>1 DEF Goto, Hold, Take, Release, Quiet, Fault, Refuse, Fail, ToolEnds, buildVars, deps, history
\* A step that fails.
<1>0. ASSUME NEW from \in Working, Fail(s, from), faulted' \in {faulted, faulted \union {s}},
             UNCHANGED buildVars
      PROVE  TypeOK' /\ Frame(s)
  <2>1. /\ \E to \in {"failed", "killed"} : Goto(s, from, to) /\ (s \in orphaned => to = "killed")
        /\ unit' = [unit EXCEPT ![s] = Absent] /\ tool' = [tool EXCEPT ![s] = Absent]
        /\ UNCHANGED <<program, shown, deps, started, disturbed, orphaned, kills>>
    BY <1>0
  <2> QED
    BY <1>0, <2>1
<1>2. CASE Compile(s)
  BY <1>2 DEF Compile
<1>3. CASE OpenPre(s)
  <2>1. CASE Fault(s, "pre") /\ UNCHANGED buildVars
    BY <1>0, <2>1
  <2>2. CASE ~Fault(s, "pre")
    <3>1. TypeOK'
      BY <1>3, <2>2 DEF OpenPre
    <3>2. Frame(s)
      BY <1>3, <2>2 DEF OpenPre
    <3> QED
      BY <3>1, <3>2
  <2> QED
    BY <1>3, <2>1, <2>2 DEF OpenPre
<1>4. CASE WritePre(s)
  <2>1. unit[s] \in Contents
    OBVIOUS
  <2>2. CASE Fault(s, "preOpen") /\ UNCHANGED buildVars
    BY <1>0, <2>2
  <2>3. CASE ~Fault(s, "preOpen")
    <3>1. TypeOK'
      BY <1>4, <2>1, <2>3 DEF WritePre
    <3>2. Frame(s)
      BY <1>4, <2>3 DEF WritePre
    <3> QED
      BY <3>1, <3>2
  <2> QED
    BY <1>4, <2>2, <2>3 DEF WritePre
<1>5. CASE OptReads(s)
  <2>1. CASE (Refuse(s, "opt") \/ Fault(s, "opt")) /\ UNCHANGED buildVars
    BY <1>0, <2>1
  <2>2. CASE ~(Refuse(s, "opt") \/ Fault(s, "opt"))
    <3>1. TypeOK'
      BY <1>5, <2>2 DEF OptReads
    <3>2. Frame(s)
      BY <1>5, <2>2 DEF OptReads
    <3> QED
      BY <3>1, <3>2
  <2> QED
    BY <1>5, <2>1, <2>2 DEF OptReads
<1>6. CASE OptOpens(s)
  BY <1>6 DEF OptOpens
<1>7. CASE OptWrites(s)
  <2>1. /\ \E to \in {"readPost", "failed", "killed"} :
             Goto(s, "optWrite", to) /\ (s \in orphaned => to = "killed")
        /\ unit' \in {unit, [unit EXCEPT ![s] = Absent]}
        /\ tool' = [tool EXCEPT ![s] = Absent]
        /\ faulted' \in {faulted, faulted \union {s}}
        /\ UNCHANGED <<program, shown, pre, ir, exe, deps, started, disturbed, orphaned, kills>>
    BY <1>7 DEF OptWrites
  <2>2. \E content \in Contents : post' = [post EXCEPT ![Module(s)] = content]
    BY <1>7 DEF OptWrites
  <2> QED
    BY <2>1, <2>2
<1>8. CASE ReadPost(s)
  <2>1. UNCHANGED buildVars
    BY <1>8 DEF ReadPost
  <2>2. CASE Fault(s, "readPost") \/ Refuse(s, "readPost")
    BY <1>0, <2>1, <2>2
  <2>3. CASE ~(Fault(s, "readPost") \/ Refuse(s, "readPost"))
    <3>1. TypeOK'
      <4>1. post[Module(s)] \in Contents /\ Linked(post[Module(s)], runtime) \in Executables
        OBVIOUS
      <4>2. /\ \E to \in {"done", "ir"} : Goto(s, "readPost", to)
            /\ unit' = [unit EXCEPT ![s] = post[Module(s)]]
            /\ shown' \in {shown, [shown EXCEPT ![s] = Linked(post[Module(s)], runtime)]}
            /\ UNCHANGED <<tool, program, deps, history>>
        BY <1>8, <2>3 DEF ReadPost
      <4> QED
        BY <2>1, <4>1, <4>2
    <3>2. Frame(s)
      BY <1>8, <2>3 DEF ReadPost
    <3> QED
      BY <3>1, <3>2
  <2> QED
    BY <2>2, <2>3
<1>9. CASE OpenIr(s)
  <2>1. CASE Fault(s, "ir") /\ UNCHANGED buildVars
    BY <1>0, <2>1
  <2>2. CASE ~Fault(s, "ir")
    <3>1. TypeOK'
      BY <1>9, <2>2 DEF OpenIr
    <3>2. Frame(s)
      BY <1>9, <2>2 DEF OpenIr
    <3> QED
      BY <3>1, <3>2
  <2> QED
    BY <1>9, <2>1, <2>2 DEF OpenIr
<1>10. CASE WriteIr(s)
  <2>1. CASE Fault(s, "irOpen") /\ UNCHANGED buildVars
    BY <1>0, <2>1
  <2>2. CASE ~Fault(s, "irOpen")
    <3>1. TypeOK'
      BY <1>10, <2>2 DEF WriteIr
    <3>2. Frame(s)
      BY <1>10, <2>2 DEF WriteIr
    <3> QED
      BY <3>1, <3>2
  <2> QED
    BY <1>10, <2>1, <2>2 DEF WriteIr
<1>11. CASE EnsureRuntimeStaticlib(s)
  <2>1. CASE (Fault(s, "staticlib")) /\ UNCHANGED buildVars
    BY <1>0, <2>1
  <2>2. CASE ~(Fault(s, "staticlib"))
    <3>1. TypeOK'
      BY <1>11, <2>2 DEF EnsureRuntimeStaticlib
    <3>2. Frame(s)
      BY <1>11, <2>2 DEF EnsureRuntimeStaticlib
    <3> QED
      BY <3>1, <3>2
  <2> QED
    BY <1>11, <2>1, <2>2 DEF EnsureRuntimeStaticlib
<1>12. CASE ClangReads(s)
  <2>1. CASE (Refuse(s, "clang") \/ Fault(s, "clang")) /\ UNCHANGED buildVars
    BY <1>0, <2>1
  <2>2. CASE ~(Refuse(s, "clang") \/ Fault(s, "clang"))
    <3>1. TypeOK'
      BY <1>12, <2>2 DEF ClangReads
    <3>2. Frame(s)
      BY <1>12, <2>2 DEF ClangReads
    <3> QED
      BY <3>1, <3>2
  <2> QED
    BY <1>12, <2>1, <2>2 DEF ClangReads
<1>13. CASE ClangOpens(s)
  BY <1>13 DEF ClangOpens
<1>14. CASE ClangWrites(s)
  <2>1. /\ \E to \in {"exec", "failed", "killed"} :
             Goto(s, "clangWrite", to) /\ (s \in orphaned => to = "killed")
        /\ unit' \in {unit, [unit EXCEPT ![s] = Absent]}
        /\ tool' = [tool EXCEPT ![s] = Absent]
        /\ faulted' \in {faulted, faulted \union {s}}
        /\ UNCHANGED <<program, shown, pre, post, ir, deps, started, disturbed, orphaned, kills>>
    BY <1>14 DEF ClangWrites
  <2>2. \E content \in Executables : exe' = [exe EXCEPT ![Module(s)] = content]
    BY <1>14 DEF ClangWrites
  <2> QED
    BY <2>1, <2>2
<1>15. CASE Execute(s)
  <2>1. CASE (Refuse(s, "exec") \/ Fault(s, "exec")) /\ UNCHANGED buildVars
    BY <1>0, <2>1
  <2>2. CASE ~(Refuse(s, "exec") \/ Fault(s, "exec"))
    <3>1. TypeOK'
      BY <1>15, <2>2 DEF Execute
    <3>2. Frame(s)
      BY <1>15, <2>2 DEF Execute
    <3> QED
      BY <3>1, <3>2
  <2> QED
    BY <1>15, <2>1, <2>2 DEF Execute
<1>16. CASE ProgramEnds(s)
  BY <1>16 DEF ProgramEnds
<1> QED
  BY <1>2, <1>3, <1>4, <1>5, <1>6, <1>7, <1>8, <1>9, <1>10, <1>11, <1>12, <1>13, <1>14, <1>15,
     <1>16 DEF Work, Rewrite, Link

\* Such a step takes a run that nobody disturbs from what it had to what it has.
LEMMA WorkOwn ==
  ASSUME Inv, NEW s \in Runs, Work(s), Alone(s)
  PROVE  Own(s)'
<1>1. /\ TypeOK /\ program[s] \in Programs /\ Module(s) \in Modules
      /\ program' = program /\ Module(s)' = Module(s) /\ pc \in [Runs -> {"idle"} \union Working \union Ended]
  BY WorkTypeOK, ModuleOfAssumption DEF Inv, TypeOK, Frame, Module, Working
<1>2. Own(s)
  BY DEF Inv, OwnInv
<1> USE <1>1, <1>2, ContentsAssumption
    DEF TypeOK, Own, Goto, Hold, Take, Release, Quiet, Fault, Refuse, Fail, ToolEnds, buildVars,
        Linked, Contents
<1>3. CASE Compile(s)
  BY <1>3 DEF Compile
<1>4. CASE OpenPre(s)
  BY <1>4 DEF OpenPre
<1>5. CASE WritePre(s)
  BY <1>5 DEF WritePre
<1>6. CASE OptReads(s)
  BY <1>6 DEF OptReads
<1>7. CASE OptOpens(s)
  BY <1>7 DEF OptOpens
<1>8. CASE OptWrites(s)
  BY <1>8 DEF OptWrites
<1>9. CASE ReadPost(s)
  BY <1>9 DEF ReadPost
<1>10. CASE OpenIr(s)
  BY <1>10 DEF OpenIr
<1>11. CASE WriteIr(s)
  BY <1>11 DEF WriteIr
<1>12. CASE EnsureRuntimeStaticlib(s)
  BY <1>12 DEF EnsureRuntimeStaticlib
<1>13. CASE ClangReads(s)
  BY <1>13 DEF ClangReads
<1>14. CASE ClangOpens(s)
  BY <1>14 DEF ClangOpens
<1>15. CASE ClangWrites(s)
  BY <1>15 DEF ClangWrites
<1>16. CASE Execute(s)
  BY <1>16 DEF Execute
<1>17. CASE ProgramEnds(s)
  BY <1>17 DEF ProgramEnds
<1> QED
  BY <1>3, <1>4, <1>5, <1>6, <1>7, <1>8, <1>9, <1>10, <1>11, <1>12, <1>13, <1>14, <1>15, <1>16,
     <1>17 DEF Work, Rewrite, Link

\* What a process at work may hold or write, by the directory m of its module.
OfModule(r, m) ==
  /\ unit[r] \in Of(m) /\ tool[r] \in Of(m) /\ shown[r].program \in Of(m)
  /\ pre[m] \in Of(m) /\ post[m] \in Of(m) /\ ir[m] \in Of(m) /\ exe[m].program \in Of(m)

\* It puts nothing of another module into its directory or its hands.
LEMMA WorkOfModule ==
  ASSUME TypeOK, NEW s \in Runs, NEW m \in Modules, m = Module(s), OfModule(s, m), Work(s),
         program[s] \in Of(m)
  PROVE  OfModule(s, m)'
<1>1. Absent \in Of(m) /\ Torn \in Of(m) /\ Of(m)' = Of(m)
  BY DEF Of
<1>2. \A p, v : Linked(p, v).program = p
  BY DEF Linked
<1>3. NoExecutable.program = Absent /\ TornExecutable.program = Torn
  BY DEF NoExecutable, TornExecutable, Linked
<1> USE <1>1, <1>2, <1>3
    DEF TypeOK, OfModule, Goto, Hold, Take, Release, Quiet, Fault, Refuse, Fail, ToolEnds, buildVars
<1>4. CASE Compile(s)
  BY <1>4 DEF Compile
<1>5. CASE OpenPre(s)
  BY <1>5 DEF OpenPre
<1>6. CASE WritePre(s)
  BY <1>6 DEF WritePre
<1>7. CASE OptReads(s)
  BY <1>7 DEF OptReads
<1>8. CASE OptOpens(s)
  BY <1>8 DEF OptOpens
<1>9. CASE OptWrites(s)
  BY <1>9 DEF OptWrites
<1>10. CASE ReadPost(s)
  BY <1>10 DEF ReadPost
<1>11. CASE OpenIr(s)
  BY <1>11 DEF OpenIr
<1>12. CASE WriteIr(s)
  BY <1>12 DEF WriteIr
<1>13. CASE EnsureRuntimeStaticlib(s)
  BY <1>13 DEF EnsureRuntimeStaticlib
<1>14. CASE ClangReads(s)
  BY <1>14 DEF ClangReads
<1>15. CASE ClangOpens(s)
  BY <1>15 DEF ClangOpens
<1>16. CASE ClangWrites(s)
  BY <1>16 DEF ClangWrites
<1>17. CASE Execute(s)
  BY <1>17 DEF Execute
<1>18. CASE ProgramEnds(s)
  BY <1>18 DEF ProgramEnds
<1> QED
  BY <1>4, <1>5, <1>6, <1>7, <1>8, <1>9, <1>10, <1>11, <1>12, <1>13, <1>14, <1>15, <1>16, <1>17,
     <1>18 DEF Work, Rewrite, Link

\* So every file of the module's directory stays of the module.
LEMMA WorkModule ==
  ASSUME Inv, NEW s \in Runs, Work(s)
  PROVE  ModuleInv'
<1>1. Frame(s) /\ TypeOK
  BY WorkTypeOK DEF Inv
<1>2. program[s] \in Programs /\ Module(s) \in Modules /\ program[s] \in Of(Module(s))
      /\ pc[s] # "idle"
  BY <1>1, ModuleOfAssumption DEF TypeOK, Frame, Module, Of, Working
<1>3. OfModule(s, Module(s))
  BY <1>2 DEF Inv, ModuleInv, OfModule
<1>4. \A r \in Runs : Module(r)' = Module(r)
  BY <1>1 DEF Frame, Module
<1>5. \A m \in Modules : m = Module(s) => OfModule(s, m)'
  BY <1>1, <1>2, <1>3, WorkOfModule
<1>6. \A m \in Modules : Of(m)' = Of(m)
  BY DEF Of
<1>7. \A m \in Modules :
        /\ pre'[m] \in Of(m) /\ post'[m] \in Of(m)
        /\ ir'[m] \in Of(m) /\ exe'[m].program \in Of(m)
  BY <1>1, <1>5, <1>6 DEF Frame, OfModule, Inv, ModuleInv
<1>8. unit'[s] \in Of(Module(s)) /\ tool'[s] \in Of(Module(s)) /\ shown'[s].program \in Of(Module(s))
  BY <1>2, <1>5, <1>6 DEF OfModule
<1>9. ASSUME NEW r \in Runs \ {s}
      PROVE  pc'[r] = pc[r] /\ unit'[r] = unit[r] /\ tool'[r] = tool[r] /\ shown'[r] = shown[r]
  BY <1>1 DEF Frame
<1>10. \A r \in Runs : Of(Module(r))' = Of(Module(r))
  BY <1>4 DEF Of
<1> QED
  BY <1>1, <1>2, <1>4, <1>6, <1>7, <1>8, <1>9, <1>10 DEF ModuleInv, Inv, Frame

\* It keeps the invariant; the others see nothing of it, but in its own module.
LEMMA FrameInv ==
  ASSUME Inv, NEW s \in Runs, Frame(s)
  PROVE  Exclusive' /\ \A r \in Runs \ {s} : Alone(r)' => Own(r)'
<1>1. \A r \in Runs : Module(r)' = Module(r)
  BY DEF Frame, Module
<1>2. \A r \in Runs : pc'[r] \in Working => pc[r] \in Working
  BY DEF Frame
<1>3. Exclusive'
  BY <1>1, <1>2 DEF Inv, Exclusive, Frame
<1>4. ASSUME NEW r \in Runs \ {s}, Alone(r)'
      PROVE  Own(r)'
  <2>1. Own(r) /\ pc'[r] = pc[r] /\ Alone(r)
    BY <1>4 DEF Inv, OwnInv, Frame, Alone
  <2>2. CASE pc[r] \in Working
    <3>1. Module(r) # Module(s) /\ Module(r) \in Modules
      BY <1>4, <2>1, <2>2, ModuleOfAssumption DEF Inv, Exclusive, Frame, Alone, TypeOK, Module,
         Working
    <3> QED
      BY <1>1, <2>1, <3>1 DEF Own, Frame
  <2>3. CASE pc[r] \notin Working
    BY <1>1, <2>1, <2>3 DEF Own, Frame, Working
  <2> QED
    BY <2>2, <2>3
<1> QED
  BY <1>3, <1>4

\* A step of a process at work keeps the invariant.
LEMMA WorkInv ==
  ASSUME Inv, NEW s \in Runs, Work(s)
  PROVE  Inv'
<1>1. TypeOK' /\ Frame(s)
  BY WorkTypeOK DEF Inv
<1>2. Alone(s)' => Own(s)'
  BY <1>1, WorkOwn DEF Frame, Alone
<1>3. Exclusive' /\ OwnInv'
  BY <1>1, <1>2, FrameInv DEF OwnInv
<1> QED
  BY <1>1, <1>3, WorkModule DEF Inv

\* A process that is killed leaves its files as they are, and to its tool what
\* that has read.
LEMMA KillInv ==
  ASSUME Inv, NEW s \in Runs, Kill(s)
  PROVE  Inv'
<1> USE DEF Kill, KillAll, KillProcess, Release, Hold, Take, buildVars, deps
<1>1. TypeOK'
  <2>1. kills' \in 0 .. MaxKills
    BY BoundsAssumption DEF Inv, TypeOK
  <2>2. CASE KillAll(s)
    BY <2>1, <2>2 DEF Inv, TypeOK, Working, Ended, Contents, ToolAtWork
  <2>3. CASE KillProcess(s)
    BY <2>1, <2>3 DEF Inv, TypeOK, Working, Ended, Contents, ToolAtWork
  <2> QED
    BY <2>2, <2>3
<1>2. Frame(s)
  BY DEF Inv, TypeOK, Frame, Working, ToolAtWork
<1>3. Alone(s) => Own(s)'
  <2>1. CASE KillAll(s)
    BY <2>1 DEF Own, Inv, TypeOK
  <2>2. CASE KillProcess(s)
    BY <2>2 DEF Own, Inv, OwnInv, TypeOK, Module, ToolAtWork
  <2> QED
    BY <2>1, <2>2
<1>4. Exclusive' /\ OwnInv'
  BY <1>2, <1>3, FrameInv DEF OwnInv, Alone
<1>5. ModuleInv'
  BY DEF Inv, TypeOK, ModuleInv, Of, Module, Working, ToolAtWork
<1> QED
  BY <1>1, <1>4, <1>5 DEF Inv

\* A process that starts while others of its module work disturbs them.
LEMMA StartInv ==
  ASSUME Inv, NEW s \in Runs, NEW p \in Programs, Start(s, p)
  PROVE  Inv'
<1> USE DEF Start, Goto, buildVars, deps
<1>1. pc[s] = "idle" /\ pc'[s] = "compile" /\ Module(s)' = ModuleOf[p] /\ ModuleOf[p] \in Modules
      /\ \A r \in Runs \ {s} : pc'[r] = pc[r] /\ program'[r] = program[r] /\ Module(r)' = Module(r)
  BY ModuleOfAssumption DEF Inv, TypeOK, Module
<1>2. TypeOK'
  <2>1. InProgress(ModuleOf[p]) \subseteq Runs
    BY DEF InProgress
  <2> QED
    BY <1>1, <2>1 DEF Inv, TypeOK, Working, ToolAtWork
<1>3. disturbed \subseteq disturbed'
  OBVIOUS
<1>4. \A r \in Runs \ {s} : pc[r] \in Working /\ Module(r) = ModuleOf[p] => r \in disturbed' /\ s \in disturbed'
  BY DEF InProgress
<1>5. Exclusive'
  BY <1>1, <1>3, <1>4 DEF Inv, Exclusive
<1>6. OwnInv'
  BY <1>1, <1>3 DEF Inv, OwnInv, Own, Alone
<1>7. ModuleInv'
  BY <1>1 DEF Inv, ModuleInv, Of, NoExecutable, Linked
<1> QED
  BY <1>2, <1>5, <1>6, <1>7 DEF Inv

\* So does every step.
LEMMA StepInv == Inv /\ [Next]_vars => Inv'
<1> SUFFICES ASSUME Inv, [Next]_vars PROVE Inv'
  OBVIOUS
<1>1. CASE EditRuntime
  BY <1>1, BoundsAssumption
  DEF EditRuntime, Inv, TypeOK, Exclusive, OwnInv, Own, Alone, ModuleInv, Of, Module, buildVars,
      history
<1>2. CASE UNCHANGED vars
  BY <1>2 DEF vars, Inv, TypeOK, Exclusive, OwnInv, Own, Alone, ModuleInv, Of, Module,
     buildVars, deps, history
<1> QED
  BY <1>1, <1>2, WorkInv, KillInv, StartInv DEF Next

-----------------------------------------------------------------------------

\* The invariant holds in every state.
THEOREM Invariance == Spec => []Inv
BY InitInv, StepInv, PTL DEF Spec

\* Every variable of the pipeline keeps a value of its kind.
THEOREM TypeCorrect == Spec => []TypeOK
BY Invariance, PTL DEF Inv

\* A run that no other of its module, nor the tool of a killed one, disturbed
\* shows its own program, whatever earlier runs, their failures, their deaths and
\* the tools that went on after them left in build.
THEOREM OwnProgramShown == Spec => []RunShowsOwnProgram
<1>1. Inv => RunShowsOwnProgram
  BY DEF Inv, OwnInv, Own, RunShowsOwnProgram
<1> QED
  BY <1>1, Invariance, PTL

\* Such a run fails only by a fault of its own.
THEOREM FailuresHaveCauses == Spec => []FailureHasCause
<1>1. Inv => FailureHasCause
  BY DEF Inv, OwnInv, Own, FailureHasCause
<1> QED
  BY <1>1, Invariance, PTL

\* What a run shows is of its own module.
THEOREM ModulesStayIsolated == Spec => []ModulesIsolated
<1>1. Inv => ModulesIsolated
  BY ContentsAssumption DEF Inv, ModuleInv, Of, ModulesIsolated
<1> QED
  BY <1>1, Invariance, PTL

-----------------------------------------------------------------------------
(* The version of the runtime a run is linked with.                        *)

CurrentIsLast == \A name \in Libraries : name > CurrentName => library[name] = 0

\* No library and no start is ahead of the sources.
VersionsInv ==
  /\ \A name \in Libraries : library[name] <= runtime
  /\ \A r \in Runs : started[r] <= runtime /\ (pc[r] # "idle" => started[r] >= 1)

\* From cargo's end on, the current library is as new as the run; and so is the
\* executable, and what it shows.
Fresh(r) ==
  /\ pc[r] \in {"clang", "clangOpen", "clangWrite"} => library[CurrentName] >= started[r]
  /\ CurrentIsLast /\ Alone(r) =>
       /\ pc[r] = "exec" => exe[Module(r)].runtime >= started[r]
       /\ pc[r] \in {"running", "done"} => shown[r].runtime >= started[r]

RuntimeInv == VersionsInv /\ \A r \in Runs : Fresh(r)

\* A step at work never takes a library back.
LEMMA WorkVersions ==
  ASSUME TypeOK, VersionsInv, NEW s \in Runs, Work(s)
  PROVE  /\ VersionsInv' /\ (CurrentIsLast' => CurrentIsLast)
         /\ library'[CurrentName] >= library[CurrentName]
<1>1. Frame(s) /\ TypeOK'
  BY WorkTypeOK
<1>2. pc[s] # "idle"
  BY <1>1 DEF Frame, Working
<1>3. UNCHANGED <<library, runtime>>
      \/ (runtime' = runtime /\ library' = [library EXCEPT ![CurrentName] = runtime])
  BY DEF Work, Rewrite, Link, Compile, OpenPre, WritePre, OptReads, OptOpens, OptWrites,
     ReadPost, OpenIr, WriteIr, EnsureRuntimeStaticlib, ClangReads, ClangOpens,
     ClangWrites, Execute, ProgramEnds, Fault, Refuse, Fail, ToolEnds, Quiet, deps
<1>4. \A r \in Runs : pc'[r] # "idle" => pc[r] # "idle"
  BY <1>1, <1>2 DEF Frame
<1>5. library \in [Libraries -> Nat] /\ runtime \in Nat /\ Libraries \subseteq Nat /\ CurrentName \in Libraries
  BY BoundsAssumption, LibrariesAssumption DEF TypeOK
<1> QED
  BY <1>1, <1>3, <1>4, <1>5 DEF VersionsInv, CurrentIsLast, Frame

\* Such a step takes no undisturbed run to an older runtime than it may have.
LEMMA WorkFresh ==
  ASSUME Inv, RuntimeInv, NEW s \in Runs, Work(s)
  PROVE  Fresh(s)'
<1>1. /\ TypeOK /\ program[s] \in Programs /\ Module(s) \in Modules
      /\ program' = program /\ Module(s)' = Module(s)
      /\ disturbed' = disturbed /\ started' = started
  BY WorkTypeOK, ModuleOfAssumption DEF Inv, TypeOK, Frame, Module, Working
<1>2. /\ library'[CurrentName] >= library[CurrentName]
      /\ CurrentIsLast' => CurrentIsLast
      /\ started[s] <= runtime
  BY WorkVersions DEF Inv, RuntimeInv, VersionsInv
<1>3. Fresh(s) /\ (pc[s] # "idle" => started[s] >= 1)
  BY DEF RuntimeInv, VersionsInv
<1>4. library \in [Libraries -> Nat] /\ runtime \in Nat /\ Libraries \subseteq Nat
      /\ CurrentName \in Libraries /\ started \in [Runs -> Nat]
  BY BoundsAssumption, LibrariesAssumption DEF Inv, TypeOK
<1>5. ASSUME NEW name \in Libraries, Chosen(name), CurrentIsLast,
             library[CurrentName] >= started[s], started[s] >= 1
      PROVE  library[name] >= started[s]
  BY <1>4, <1>5 DEF Chosen, CurrentIsLast
<1>6. \A p, v : Linked(p, v).runtime = v
  BY DEF Linked
<1> USE <1>1, <1>2, <1>3, <1>4, <1>5, <1>6
    DEF TypeOK, Fresh, Alone, Goto, Hold, Take, Release, Quiet, Fault, Refuse, Fail, ToolEnds, buildVars,
        deps
<1>7. CASE Compile(s)
  BY <1>7 DEF Compile
<1>8. CASE OpenPre(s)
  BY <1>8 DEF OpenPre
<1>9. CASE WritePre(s)
  BY <1>9 DEF WritePre
<1>10. CASE OptReads(s)
  BY <1>10 DEF OptReads
<1>11. CASE OptOpens(s)
  BY <1>11 DEF OptOpens
<1>12. CASE OptWrites(s)
  BY <1>12 DEF OptWrites
<1>13. CASE ReadPost(s)
  BY <1>13 DEF ReadPost
<1>14. CASE OpenIr(s)
  BY <1>14 DEF OpenIr
<1>15. CASE WriteIr(s)
  BY <1>15 DEF WriteIr
<1>16. CASE EnsureRuntimeStaticlib(s)
  BY <1>16 DEF EnsureRuntimeStaticlib
<1>17. CASE ClangReads(s)
  BY <1>17 DEF ClangReads
<1>18. CASE ClangOpens(s)
  BY <1>18 DEF ClangOpens
<1>19. CASE ClangWrites(s)
  BY <1>19 DEF ClangWrites
<1>20. CASE Execute(s)
  BY <1>20 DEF Execute
<1>21. CASE ProgramEnds(s)
  BY <1>21 DEF ProgramEnds
<1> QED
  BY <1>7, <1>8, <1>9, <1>10, <1>11, <1>12, <1>13, <1>14, <1>15, <1>16, <1>17, <1>18, <1>19,
     <1>20, <1>21 DEF Work, Rewrite, Link

\* The steps of others take nothing from such a run.
LEMMA FrameFresh ==
  ASSUME Inv, RuntimeInv, NEW s \in Runs, Frame(s), library'[CurrentName] >= library[CurrentName],
         CurrentIsLast' => CurrentIsLast, TypeOK', NEW r \in Runs \ {s}
  PROVE  Fresh(r)'
<1>1. Fresh(r) /\ pc'[r] = pc[r] /\ Alone(r)' = Alone(r) /\ Module(r)' = Module(r) /\ shown'[r] = shown[r]
      /\ started' = started
  BY DEF Inv, RuntimeInv, Frame, Alone, Module
<1>2. pc[r] \in Working /\ Alone(r) => exe'[Module(r)] = exe[Module(r)]
  BY ModuleOfAssumption DEF Inv, Exclusive, Frame, Alone, TypeOK, Module, Working
<1>3. library \in [Libraries -> Nat] /\ library' \in [Libraries -> Nat] /\ CurrentName \in Libraries
      /\ started[r] \in Nat
  BY BoundsAssumption, LibrariesAssumption DEF Inv, TypeOK
<1> QED
  BY <1>1, <1>2, <1>3 DEF Fresh, Working

\* Every step keeps the runs up to date.
LEMMA RuntimeStep == Inv /\ RuntimeInv /\ [Next]_vars => RuntimeInv'
<1> SUFFICES ASSUME Inv, RuntimeInv, [Next]_vars PROVE RuntimeInv'
  OBVIOUS
<1>1. ASSUME NEW s \in Runs, Work(s) PROVE RuntimeInv'
  <2>1. Frame(s) /\ TypeOK'
    BY <1>1, WorkTypeOK DEF Inv
  <2>2. /\ VersionsInv' /\ (CurrentIsLast' => CurrentIsLast)
        /\ library'[CurrentName] >= library[CurrentName]
    BY <1>1, WorkVersions DEF Inv, RuntimeInv
  <2> QED
    BY <1>1, <2>1, <2>2, WorkFresh, FrameFresh DEF RuntimeInv
<1>2. ASSUME NEW s \in Runs, Kill(s) PROVE RuntimeInv'
  <2>1. library' = library /\ runtime' = runtime /\ started' = started /\ exe' = exe /\ shown' = shown
        /\ disturbed' = disturbed /\ program' = program /\ pc[s] # "idle"
        /\ (pc' = [pc EXCEPT ![s] = "killed"] \/ pc' = pc)
    BY <1>2 DEF Kill, KillAll, KillProcess, deps, buildVars, Working, ToolAtWork
  <2> QED
    BY <2>1 DEF RuntimeInv, VersionsInv, Fresh, CurrentIsLast, Alone, Module, Inv, TypeOK
<1>3. ASSUME NEW s \in Runs, NEW p \in Programs, Start(s, p) PROVE RuntimeInv'
  <2>1. library' = library /\ runtime' = runtime /\ started' = [started EXCEPT ![s] = runtime] /\ exe' = exe
        /\ shown' = shown /\ disturbed \subseteq disturbed' /\ pc' = [pc EXCEPT ![s] = "compile"]
        /\ program' = [program EXCEPT ![s] = p]
    BY <1>3 DEF Start, deps, buildVars, Goto
  <2>2. VersionsInv'
    BY <2>1, BoundsAssumption DEF RuntimeInv, VersionsInv, Inv, TypeOK
  <2>3. \A r \in Runs : Fresh(r)'
    BY <2>1 DEF RuntimeInv, Fresh, CurrentIsLast, Alone, Module, Inv, TypeOK
  <2> QED
    BY <2>2, <2>3 DEF RuntimeInv
<1>4. CASE EditRuntime
  BY <1>4, BoundsAssumption
  DEF EditRuntime, RuntimeInv, VersionsInv, Fresh, CurrentIsLast, Alone, Module, Inv, TypeOK,
      buildVars, history
<1>5. CASE UNCHANGED vars
  BY <1>5 DEF vars, RuntimeInv, VersionsInv, Fresh, CurrentIsLast, Alone, Module, buildVars,
     deps, history
<1> QED
  BY <1>1, <1>2, <1>3, <1>4, <1>5 DEF Next

\* A run is linked with a runtime no older than the sources at its start, where
\* the current library is the last of target/debug/deps.
THEOREM RuntimeStaysUpToDate == Spec => []RuntimeUpToDate
<1>1. Init => RuntimeInv
  BY BoundsAssumption DEF Init, RuntimeInv, VersionsInv, Fresh
<1>2. Inv /\ RuntimeInv => RuntimeUpToDate
  BY DEF RuntimeInv, Fresh, CurrentIsLast, RuntimeUpToDate
<1> QED
  BY <1>1, <1>2, InitInv, StepInv, RuntimeStep, PTL DEF Spec

=============================================================================
