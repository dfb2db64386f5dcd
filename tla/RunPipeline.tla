----------------------------- MODULE RunPipeline -----------------------------
(***************************************************************************)
(* run_path of src/driver.rs with rewrite_statepoints of                   *)
(* src/backend/pipeline.rs, and gc-pipeline-example, which ends after it:  *)
(* processes that hand IR to opt, clang and the executable through the     *)
(* files of build/<module>.  The files outlive a process, and are shared   *)
(* by all whose input has that module name; every write truncates first.   *)
(*                                                                         *)
(* IR is known by the program it was made of.  opt, cargo, clang and the   *)
(* executable are external: they may fail, and read and write their files  *)
(* in steps of their own.  They are children of the process, which only    *)
(* waits for them: where it is killed and they are not, they go on.        *)
(***************************************************************************)
EXTENDS Naturals, FiniteSets

CONSTANTS
  Runs,          \* the processes
  Programs,      \* the texts an input file may hold
  Modules,       \* their module names
  ModuleOf,      \* sanitize_module_name of the file that holds a text
  Example,       \* the module that gc-pipeline-example builds
  Absent, Torn,  \* contents of a file: none, or part of one
  Libraries,     \* names of runtime libraries in target/debug/deps, in order
  CurrentName,   \* the one cargo writes now
  MaxEdits,      \* bound: changes to the runtime's sources
  MaxKills       \* bound: processes killed

ASSUME ModuleOfAssumption == ModuleOf \in [Programs -> Modules]
ASSUME ExampleAssumption == Example \in Programs
ASSUME ContentsAssumption ==
  Absent \notin Programs /\ Torn \notin Programs /\ Absent # Torn
ASSUME LibrariesAssumption ==
  Libraries \subseteq Nat /\ IsFiniteSet(Libraries) /\ CurrentName \in Libraries
ASSUME BoundsAssumption == MaxEdits \in Nat /\ MaxKills \in Nat

VARIABLES
  pc,          \* the step each process is at
  program,     \* the text its input file held when it started
  unit,        \* the IR it has in memory
  tool,        \* what the opt or clang it waits for has read
  shown,       \* what it showed at its end
  pre, post,   \* build/<m>/<m>.pre.ll, written for opt, and .post.ll, by opt
  ir, exe,     \* build/<m>/<m>.ll, written for clang, and <m>, by clang
  library,     \* the version of the runtime each library was built from, or 0
  runtime,     \* the version of the runtime's sources
  started,     \* history: that version when a process started
  disturbed,   \* history: processes that ran while another of their module did,
               \* or the tool of one that was killed
  faulted,     \* history: processes whose program, tools or disk failed
  orphaned,    \* processes killed while their tool was at work, and it went on
  kills        \* processes killed

buildVars == <<pre, post, ir, exe>>
deps == <<library, runtime>>
history == <<started, disturbed, faulted, orphaned, kills>>
vars == <<pc, program, unit, tool, shown, buildVars, deps, history>>

Working == {"compile", "pre", "preOpen", "opt", "optOpen", "optWrite", "readPost",
            "ir", "irOpen", "staticlib", "clang", "clangOpen",
            "clangWrite", "exec", "running"}
Ended == {"done", "failed", "killed"}

\* Where a tool reads and writes files while its process waits for it.
ToolAtWork == {"opt", "optOpen", "optWrite", "staticlib", "clang", "clangOpen", "clangWrite"}

Contents == Programs \union {Absent, Torn}

\* An executable: the IR and the version of the runtime in it.
Linked(p, version) == [program |-> p, runtime |-> version]
Executables == [program : Contents, runtime : 0 .. MaxEdits + 1]
NoExecutable == Linked(Absent, 0)
TornExecutable == Linked(Torn, 0)

Init ==
  /\ pc = [r \in Runs |-> "idle"]
  /\ program = [r \in Runs |-> Absent]
  /\ unit = [r \in Runs |-> Absent]
  /\ tool = [r \in Runs |-> Absent]
  /\ shown = [r \in Runs |-> NoExecutable]
  /\ pre = [m \in Modules |-> Absent]
  /\ post = [m \in Modules |-> Absent]
  /\ ir = [m \in Modules |-> Absent]
  /\ exe = [m \in Modules |-> NoExecutable]
  /\ library \in [Libraries -> {0, 1}]
  /\ runtime = 1
  /\ started = [r \in Runs |-> 0]
  /\ disturbed = {}
  /\ faulted = {}
  /\ orphaned = {}
  /\ kills = 0

-----------------------------------------------------------------------------

Module(r) == ModuleOf[program[r]]

\* The processes of a module at work, and those of which the tool still is.
InProgress(m) == {s \in Runs : pc[s] \in Working /\ Module(s) = m}

Goto(r, from, to) == pc[r] = from /\ pc' = [pc EXCEPT ![r] = to]

\* The tool of r ends, which takes r to its next step, if there still is an r.
ToolEnds(r, from, to) == Goto(r, from, IF r \in orphaned THEN "killed" ELSE to)

Hold(r, content) == unit' = [unit EXCEPT ![r] = content]
Take(r, content) == tool' = [tool EXCEPT ![r] = content]

\* The memory of a process, and of its tool, that has ended.
Release(r) == Hold(r, Absent) /\ Take(r, Absent)

\* A step of r, or the tool it waits for, that fails: r returns the error with ?.
Fail(r, from) ==
  /\ ToolEnds(r, from, "failed")
  /\ Release(r)
  /\ UNCHANGED <<program, shown, deps, started, disturbed, orphaned, kills>>

Fault(r, from) == Fail(r, from) /\ faulted' = faulted \union {r}
Refuse(r, from) == Fail(r, from) /\ UNCHANGED faulted

\* What all steps of a process at work leave alone.
Quiet == UNCHANGED <<program, deps, history>>

\* Variant: the input file is not kept.
StartForgetting(r, p) ==
  /\ Goto(r, "idle", "compile")
  /\ started' = [started EXCEPT ![r] = runtime]
  /\ UNCHANGED <<program, unit, tool, shown, buildVars, deps, disturbed, faulted,
                 orphaned, kills>>

\* A process starts on its input file, which holds p at this time.
Start(r, p) ==
  /\ Goto(r, "idle", "compile")
  /\ program' = [program EXCEPT ![r] = p]
  /\ started' = [started EXCEPT ![r] = runtime]
  /\ disturbed' = IF InProgress(ModuleOf[p]) = {} THEN disturbed
                  ELSE disturbed \union InProgress(ModuleOf[p]) \union {r}
  /\ UNCHANGED <<unit, tool, shown, buildVars, deps, faulted, orphaned, kills>>

\* compile_path and synthesize_native_main, or the example's module.
Compile(r) ==
  \/ /\ Goto(r, "compile", "pre")
     /\ Hold(r, program[r])
     /\ UNCHANGED <<tool, shown, buildVars>>
     /\ Quiet
  \/ Fault(r, "compile") /\ UNCHANGED buildVars

\* Variant: an input of opt that is there already is taken for good.
WritePreOnce(r) ==
  /\ Goto(r, "pre", IF pre[Module(r)] = Absent THEN "preOpen" ELSE "opt")
  /\ pre' = [pre EXCEPT ![Module(r)] = IF @ = Absent THEN Torn ELSE @]
  /\ UNCHANGED <<unit, tool, shown, post, ir, exe>>
  /\ Quiet

\* Variant: waits for one who seems to write the file.
OpenPreLocked(r) ==
  /\ Goto(r, "pre", "preOpen")
  /\ pre[Module(r)] # Torn
  /\ pre' = [pre EXCEPT ![Module(r)] = Torn]
  /\ UNCHANGED <<unit, tool, shown, post, ir, exe>>
  /\ Quiet

\* create_dir_all, and fs::write of the input of opt, which opens and then writes.
OpenPre(r) ==
  \/ /\ Goto(r, "pre", "preOpen")
     /\ pre' = [pre EXCEPT ![Module(r)] = Torn]
     /\ UNCHANGED <<unit, tool, shown, post, ir, exe>>
     /\ Quiet
  \/ Fault(r, "pre") /\ UNCHANGED buildVars

\* Variant: the input of opt does not lie in the directory of the module.
WritePreShared(r) ==
  /\ Goto(r, "preOpen", "opt")
  /\ pre' = [m \in Modules |-> unit[r]]
  /\ UNCHANGED <<unit, tool, shown, post, ir, exe>>
  /\ Quiet

WritePre(r) ==
  \/ /\ Goto(r, "preOpen", "opt")
     /\ pre' = [pre EXCEPT ![Module(r)] = unit[r]]
     /\ UNCHANGED <<unit, tool, shown, post, ir, exe>>
     /\ Quiet
  \/ Fault(r, "preOpen") /\ UNCHANGED buildVars

\* opt reads all of its input; part of a text may pass for a module.
OptReads(r) ==
  \/ /\ Goto(r, "opt", "optOpen")
     /\ pre[Module(r)] # Absent
     /\ Take(r, pre[Module(r)])
     /\ UNCHANGED <<unit, shown, buildVars>>
     /\ Quiet
  \/ Refuse(r, "opt") /\ pre[Module(r)] \in {Absent, Torn} /\ UNCHANGED buildVars
  \/ Fault(r, "opt") /\ UNCHANGED buildVars

OptOpens(r) ==
  /\ Goto(r, "optOpen", "optWrite")
  /\ post' = [post EXCEPT ![Module(r)] = Torn]
  /\ UNCHANGED <<unit, tool, shown, pre, ir, exe>>
  /\ Quiet

\* opt leaves its output, or fails and leaves none, or a part.
OptWrites(r) ==
  \/ /\ ToolEnds(r, "optWrite", "readPost")
     /\ post' = [post EXCEPT ![Module(r)] = tool[r]]
     /\ Take(r, Absent)
     /\ UNCHANGED <<unit, shown, pre, ir, exe>>
     /\ Quiet
  \/ /\ Fault(r, "optWrite")
     /\ \E left \in {Absent, Torn} : post' = [post EXCEPT ![Module(r)] = left]
     /\ UNCHANGED <<pre, ir, exe>>

\* rewrite_statepoints reads the output back; the example is shown from there.
ReadPost(r) ==
  \/ /\ Goto(r, "readPost", IF program[r] = Example THEN "done" ELSE "ir")
     /\ post[Module(r)] # Absent
     /\ Hold(r, post[Module(r)])
     /\ shown' = IF program[r] = Example
                 THEN [shown EXCEPT ![r] = Linked(post[Module(r)], runtime)] ELSE shown
     /\ UNCHANGED <<tool, buildVars>>
     /\ Quiet
  \/ Refuse(r, "readPost") /\ post[Module(r)] = Absent /\ UNCHANGED buildVars
  \/ Fault(r, "readPost") /\ UNCHANGED buildVars

OpenIr(r) ==
  \/ /\ Goto(r, "ir", "irOpen")
     /\ ir' = [ir EXCEPT ![Module(r)] = Torn]
     /\ UNCHANGED <<unit, tool, shown, pre, post, exe>>
     /\ Quiet
  \/ Fault(r, "ir") /\ UNCHANGED buildVars

WriteIr(r) ==
  \/ /\ Goto(r, "irOpen", "staticlib")
     /\ ir' = [ir EXCEPT ![Module(r)] = unit[r]]
     /\ UNCHANGED <<unit, tool, shown, pre, post, exe>>
     /\ Quiet
  \/ Fault(r, "irOpen") /\ UNCHANGED buildVars

\* Variant: cargo is not run where there is a library.
UseLibrary(r) ==
  /\ ToolEnds(r, "staticlib", "clang")
  /\ library' = IF \A name \in Libraries : library[name] = 0
                THEN [library EXCEPT ![CurrentName] = runtime] ELSE library
  /\ UNCHANGED <<program, unit, tool, shown, buildVars, runtime, history>>

\* ensure_runtime_staticlib and rust_runtime_native_libs: cargo brings the
\* library up to date.
EnsureRuntimeStaticlib(r) ==
  \/ /\ ToolEnds(r, "staticlib", "clang")
     /\ library' = [library EXCEPT ![CurrentName] = runtime]
     /\ UNCHANGED <<program, unit, tool, shown, buildVars, runtime, history>>
  \/ Fault(r, "staticlib") /\ UNCHANGED buildVars

\* Variant: the exit status of clang is not looked at.
ClangReadsUnchecked(r) ==
  \/ /\ Goto(r, "clang", "clangOpen")
     /\ ir[Module(r)] \in Programs
     /\ Take(r, ir[Module(r)])
     /\ UNCHANGED <<unit, shown, buildVars>>
     /\ Quiet
  \/ /\ ToolEnds(r, "clang", "exec")
     /\ UNCHANGED <<unit, tool, shown, buildVars>>
     /\ Quiet

\* Part of the IR lacks the main that synthesize_native_main puts at its end.
ClangReads(r) ==
  \/ /\ Goto(r, "clang", "clangOpen")
     /\ ir[Module(r)] \in Programs
     /\ Take(r, ir[Module(r)])
     /\ UNCHANGED <<unit, shown, buildVars>>
     /\ Quiet
  \/ Refuse(r, "clang") /\ ir[Module(r)] \notin Programs /\ UNCHANGED buildVars
  \/ Fault(r, "clang") /\ UNCHANGED buildVars

ClangOpens(r) ==
  /\ Goto(r, "clangOpen", "clangWrite")
  /\ exe' = [exe EXCEPT ![Module(r)] = TornExecutable]
  /\ UNCHANGED <<unit, tool, shown, pre, post, ir>>
  /\ Quiet

\* The last of the libraries of target/debug/deps in the order of their names.
Chosen(name) ==
  /\ library[name] # 0
  /\ \A other \in Libraries : other > name => library[other] = 0

ClangWrites(r) ==
  \/ /\ ToolEnds(r, "clangWrite", "exec")
     /\ \E name \in Libraries :
          /\ Chosen(name)
          /\ exe' = [exe EXCEPT ![Module(r)] = Linked(tool[r], library[name])]
     /\ Take(r, Absent)
     /\ UNCHANGED <<unit, shown, pre, post, ir>>
     /\ Quiet
  \/ /\ Fault(r, "clangWrite")
     /\ \E left \in {NoExecutable, TornExecutable} : exe' = [exe EXCEPT ![Module(r)] = left]
     /\ UNCHANGED <<pre, post, ir>>

\* The executable starts as it is at this time.
Execute(r) ==
  \/ /\ Goto(r, "exec", "running")
     /\ exe[Module(r)] # NoExecutable
     /\ shown' = [shown EXCEPT ![r] = exe[Module(r)]]
     /\ UNCHANGED <<unit, tool, buildVars>>
     /\ Quiet
  \/ Refuse(r, "exec") /\ exe[Module(r)].program \in {Absent, Torn} /\ UNCHANGED buildVars
  \/ Fault(r, "exec") /\ UNCHANGED buildVars

\* The program ends, with whatever status: run_path returns what it showed.
ProgramEnds(r) ==
  /\ Goto(r, "running", "done")
  /\ Release(r)
  /\ UNCHANGED <<shown, buildVars>>
  /\ Quiet

\* A process is killed, and the tool it waits for with it, or before it.
KillAll(r) ==
  /\ pc[r] \in Working
  /\ pc' = [pc EXCEPT ![r] = "killed"]
  /\ Release(r)
  /\ UNCHANGED orphaned

\* Only the process is killed: nothing of it tells the tool it waits for to stop.
\* (An executable that goes on touches no file of build.)
KillProcess(r) ==
  /\ pc[r] \in ToolAtWork /\ r \notin orphaned
  /\ orphaned' = orphaned \union {r}
  /\ Hold(r, Absent)
  /\ UNCHANGED <<pc, tool>>

Kill(r) ==
  /\ kills < MaxKills
  /\ KillAll(r) \/ KillProcess(r)
  /\ kills' = kills + 1
  /\ UNCHANGED <<program, shown, buildVars, deps, started, disturbed, faulted>>

\* Someone changes the sources of the runtime.
EditRuntime ==
  /\ runtime <= MaxEdits
  /\ runtime' = runtime + 1
  /\ UNCHANGED <<pc, program, unit, tool, shown, buildVars, library, history>>

Rewrite(r) ==
  OpenPre(r) \/ WritePre(r) \/ OptReads(r) \/ OptOpens(r) \/ OptWrites(r) \/ ReadPost(r)

Link(r) ==
  \/ OpenIr(r) \/ WriteIr(r) \/ EnsureRuntimeStaticlib(r)
  \/ ClangReads(r) \/ ClangOpens(r) \/ ClangWrites(r)

Work(r) == Compile(r) \/ Rewrite(r) \/ Link(r) \/ Execute(r) \/ ProgramEnds(r)

Next ==
  \/ \E r \in Runs : (\E p \in Programs : Start(r, p)) \/ Work(r) \/ Kill(r)
  \/ EditRuntime

Spec == Init /\ [][Next]_vars

\* Processes, tools and programs that run go on.
FairSpec == Spec /\ \A r \in Runs : WF_vars(Work(r))

-----------------------------------------------------------------------------
(* Properties.                                                             *)

\* Every variable holds a value of its kind; a process with a program has one
\* from its start on.
TypeOK ==
  /\ pc \in [Runs -> {"idle"} \union Working \union Ended]
  /\ program \in [Runs -> Programs \union {Absent}]
  /\ \A r \in Runs : pc[r] # "idle" => program[r] \in Programs
  /\ unit \in [Runs -> Contents] /\ tool \in [Runs -> Contents]
  /\ shown \in [Runs -> Executables]
  /\ pre \in [Modules -> Contents] /\ post \in [Modules -> Contents]
  /\ ir \in [Modules -> Contents] /\ exe \in [Modules -> Executables]
  /\ library \in [Libraries -> 0 .. MaxEdits + 1]
  /\ runtime \in 1 .. MaxEdits + 1
  /\ started \in [Runs -> 0 .. MaxEdits + 1]
  /\ disturbed \subseteq Runs /\ faulted \subseteq Runs
  /\ orphaned \subseteq {r \in Runs : pc[r] \in ToolAtWork \union {"killed"}}
  /\ kills \in 0 .. MaxKills

\* No other process of its module, nor the tool of one that was killed, worked
\* while it did.
Alone(r) == r \notin disturbed

\* A run that nothing of its module disturbed shows its own program: never the
\* executable, the IR or the part of one that an earlier run left in
\* build/<module>, however it ended and whatever its tool wrote after its death.
RunShowsOwnProgram ==
  \A r \in Runs : pc[r] = "done" /\ Alone(r) => shown[r].program = program[r]

\* Such a run fails only by a fault of its own program, tools or disk: what an
\* earlier run, killed at any step, or its tool left behind never makes it fail.
FailureHasCause ==
  \A r \in Runs : pc[r] = "failed" /\ Alone(r) => r \in faulted

\* Runs of other modules do not show in a run, however they overlap.
ModulesIsolated ==
  \A r \in Runs :
    pc[r] = "done" /\ shown[r].program \in Programs =>
      ModuleOf[shown[r].program] = Module(r)

\* A run is linked with a runtime no older than the sources at its start, unless
\* target/debug/deps keeps a library whose name sorts after the current one.
RuntimeUpToDate ==
  (\A name \in Libraries : name > CurrentName => library[name] = 0) =>
    \A r \in Runs :
      pc[r] = "done" /\ Alone(r) => shown[r].runtime >= started[r]

\* A run that was started comes to its end.
Returns == \A r \in Runs : pc[r] = "compile" ~> pc[r] \in Ended

=============================================================================
