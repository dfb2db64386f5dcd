---------------------------- MODULE CompileDriver ----------------------------
(***************************************************************************)
(* compile_paths of src/driver.rs: one worker thread per input file, the   *)
(* joins in the order of the inputs, and the files of --emit-ir-dir, named *)
(* after the sanitized stem of the input and written after the last join.  *)
(* What compile_path makes of a file depends on the file alone, so it is   *)
(* fixed from the start, in outcome; when each worker is through is not.   *)
(***************************************************************************)
EXTENDS Integers, Sequences

CONSTANTS
  InputLists,   \* sequences of file stems to choose from
  Alphanumeric, \* the characters a module name keeps
  Torn          \* the content of a file whose writing failed halfway

\* A stem is a sequence of characters.
ASSUME InputsAssumption == \A list \in InputLists : list \in Seq(Seq(STRING))
ASSUME AlphanumericAssumption == Alphanumeric \subseteq STRING
ASSUME TornAssumption == Torn \notin Nat

VARIABLES
  inputs, emit,  \* the arguments: files, and whether --emit-ir-dir is given
  outcome,       \* what compile_path makes of each: "ok", "error" or "panic"
  worker,        \* each worker: "none", "running" or "ended"
  compiled,      \* the units joined, each known by the index of its input
  written,       \* how many of them were written
  files,         \* the output directory, a function on module names
  result         \* what compile_paths returned, and the index it is about

arguments == <<inputs, emit, outcome>>
vars == <<arguments, worker, compiled, written, files, result>>

N == Len(inputs)

Outcomes == {"ok", "error", "panic"}

Running == <<"running", 0>>

\* sanitize_module_name.
ModuleName(stem) ==
  IF stem = <<>> THEN <<"m", "o", "d", "u", "l", "e">>
  ELSE [k \in DOMAIN stem |-> IF stem[k] \in Alphanumeric THEN stem[k] ELSE "_"]

Name(i) == ModuleName(inputs[i])

Init ==
  /\ inputs \in InputLists
  /\ emit \in BOOLEAN
  /\ outcome \in [1 .. Len(inputs) -> Outcomes]
  /\ worker = [i \in 1 .. Len(inputs) |-> "none"]
  /\ compiled = <<>>
  /\ written = 0
  /\ files = [name \in {} |-> 0]
  /\ result = Running

Return(kind, index) == result' = <<kind, index>>

-----------------------------------------------------------------------------

NoInput ==
  /\ result = Running
  /\ N = 0
  /\ Return("usage", 0)
  /\ UNCHANGED <<arguments, worker, compiled, written, files>>

NextToSpawn(i) == worker[i] = "none" /\ \A j \in 1 .. i - 1 : worker[j] # "none"

\* Variant: a handle without its thread.
SpawnNothing(i) ==
  /\ result = Running /\ NextToSpawn(i)
  /\ worker' = [worker EXCEPT ![i] = "handle"]
  /\ UNCHANGED <<arguments, compiled, written, files, result>>

SpawnWorker(i) ==
  /\ result = Running
  /\ NextToSpawn(i)
  /\ worker' = [worker EXCEPT ![i] = "running"]
  /\ UNCHANGED <<arguments, compiled, written, files, result>>

\* thread::Builder::spawn fails; the workers there are stay behind.
SpawnFails(i) ==
  /\ result = Running
  /\ NextToSpawn(i)
  /\ Return("spawn", i)
  /\ UNCHANGED <<arguments, worker, compiled, written, files>>

\* compile_path comes to its end, whether or not anyone waits for it any more.
EndWorker(i) ==
  /\ worker[i] = "running"
  /\ worker' = [worker EXCEPT ![i] = "ended"]
  /\ UNCHANGED <<arguments, compiled, written, files, result>>

AllSpawned == \A i \in 1 .. N : worker[i] # "none"

\* Variant: takes the workers as they end.
JoinFirstEnded ==
  /\ result = Running /\ AllSpawned
  /\ \E i \in 1 .. N :
       /\ worker[i] = "ended" /\ \A k \in DOMAIN compiled : compiled[k] # i
       /\ IF outcome[i] = "ok"
          THEN compiled' = Append(compiled, i) /\ UNCHANGED result
          ELSE Return(outcome[i], i) /\ UNCHANGED compiled
  /\ UNCHANGED <<arguments, worker, written, files>>

\* handle.join of the next handle, and the two ? on what it gives.
JoinWorker ==
  /\ result = Running
  /\ AllSpawned
  /\ Len(compiled) < N
  /\ LET i == Len(compiled) + 1
     IN /\ worker[i] = "ended"
        /\ \/ /\ outcome[i] = "ok"
              /\ compiled' = Append(compiled, i)
              /\ UNCHANGED result
           \/ /\ outcome[i] # "ok"
              /\ Return(outcome[i], i)
              /\ UNCHANGED compiled
  /\ UNCHANGED <<arguments, worker, written, files>>

AllCompiled == N > 0 /\ Len(compiled) = N

\* Variant: writes each unit as soon as it was joined.
UnitToWriteAtOnce == result = Running /\ emit /\ written < Len(compiled)

UnitToWrite == result = Running /\ emit /\ AllCompiled /\ written < N

Stored(name, content) ==
  files' = [x \in DOMAIN files \union {name} |-> IF x = name THEN content ELSE files[x]]

\* create_dir_all fails.
NoDirectory ==
  /\ UnitToWrite
  /\ written = 0
  /\ Return("io", 0)
  /\ UNCHANGED <<arguments, worker, compiled, written, files>>

\* Variant: keeps a file that is there.
WriteNewUnit ==
  /\ UnitToWrite
  /\ LET unit == compiled[written + 1]
     IN IF Name(unit) \in DOMAIN files THEN UNCHANGED files ELSE Stored(Name(unit), unit)
  /\ written' = written + 1
  /\ UNCHANGED <<arguments, worker, compiled, result>>

WriteUnit ==
  /\ UnitToWrite
  /\ LET unit == compiled[written + 1] IN Stored(Name(unit), unit)
  /\ written' = written + 1
  /\ UNCHANGED <<arguments, worker, compiled, result>>

\* Variant: some failures are passed over, and the loop goes on.
WriteFailsOrSkips ==
  /\ UnitToWrite
  /\ LET unit == compiled[written + 1]
     IN \/ (Stored(Name(unit), Torn) \/ UNCHANGED files) /\ Return("io", unit) /\ UNCHANGED written
        \/ Stored(Name(unit), Torn) /\ written' = written + 1 /\ UNCHANGED result
  /\ UNCHANGED <<arguments, worker, compiled>>

\* fs::write fails, before or after it truncated the file.
WriteFails ==
  /\ UnitToWrite
  /\ LET unit == compiled[written + 1]
     IN /\ Stored(Name(unit), Torn) \/ UNCHANGED files
        /\ Return("io", unit)
  /\ UNCHANGED <<arguments, worker, compiled, written>>

ReturnUnits ==
  /\ result = Running
  /\ AllCompiled
  /\ emit => written = N
  /\ Return("ok", 0)
  /\ UNCHANGED <<arguments, worker, compiled, written, files>>

Caller ==
  \/ NoInput
  \/ \E i \in 1 .. N : SpawnWorker(i) \/ SpawnFails(i)
  \/ JoinWorker
  \/ NoDirectory \/ WriteUnit \/ WriteFails
  \/ ReturnUnits

Next == Caller \/ \E i \in 1 .. N : EndWorker(i)

Spec == Init /\ [][Next]_vars

\* Every thread runs, and compile_path loops over nothing but its input.
FairSpec == Spec /\ WF_vars(Caller) /\ WF_vars(\E i \in 1 .. N : EndWorker(i))

-----------------------------------------------------------------------------
(* Properties.                                                             *)

\* Every variable holds a value of its kind.
TypeOK ==
  /\ inputs \in InputLists
  /\ emit \in BOOLEAN
  /\ outcome \in [1 .. N -> Outcomes]
  /\ worker \in [1 .. N -> {"none", "running", "ended"}]
  /\ compiled \in Seq(1 .. N) /\ Len(compiled) <= N
  /\ written \in 0 .. N
  /\ files \in [DOMAIN files -> 1 .. N \union {Torn}]
  /\ result \in {"running", "usage", "spawn", "error", "panic", "io", "ok"} \X (0 .. N)

\* The units come in the order of the inputs, each compiled, in whatever order
\* the workers ended.
UnitsInInputOrder ==
  \A k \in DOMAIN compiled : compiled[k] = k /\ outcome[k] = "ok"

\* A failure reported is that of the first input that fails, not of the worker
\* that failed first; and a compilation that succeeds has no input that fails.
FirstFailureReported ==
  /\ result[1] \in {"error", "panic"} =>
       /\ outcome[result[2]] = result[1]
       /\ \A j \in 1 .. result[2] - 1 : outcome[j] = "ok"
  /\ result[1] = "ok" => \A j \in 1 .. N : outcome[j] = "ok"

\* No file is touched unless every input compiled.
NoFileOfPartialCompilation ==
  DOMAIN files # {} => emit /\ \A j \in 1 .. N : outcome[j] = "ok"

\* After a success each file holds the unit of the last input of its name, and
\* every input has a file of its name: the others of that name are lost.
LastOfNameSurvives ==
  result[1] = "ok" /\ emit =>
    \A i \in 1 .. N :
      /\ Name(i) \in DOMAIN files
      /\ (\A j \in i + 1 .. N : Name(j) # Name(i)) => files[Name(i)] = i

\* The file of a name is whole, and the last of that name among the first k inputs.
LastAmong(k, name) ==
  /\ files[name] # Torn
  /\ files[name] \in 1 .. k /\ Name(files[name]) = name
  /\ \A j \in files[name] + 1 .. k : Name(j) # name

\* A write that fails half way is the last: the inputs before the one reported have
\* their files, of each name the last of them; those behind it have none; and no
\* file but its own is torn.
FailedWriteStopsThere ==
  result[1] = "io" =>
    /\ \A i \in 1 .. result[2] - 1 : Name(i) \in DOMAIN files
    /\ \A name \in DOMAIN files :
         \/ files[name] = Torn /\ result[2] > 0 /\ name = Name(result[2])
         \/ LastAmong(result[2] - 1, name)

\* compile_paths returns.
Returns == <>(result # Running)

=============================================================================
