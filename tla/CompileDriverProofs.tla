------------------------- MODULE CompileDriverProofs -------------------------
(***************************************************************************)
(* Proofs about CompileDriver, for every list of inputs.  The inductive    *)
(* invariant says what each phase has established: the joins, in order,    *)
(* that the units so far are the first inputs and compiled; the writes,    *)
(* that the files so far are those of a loop over the units.               *)
(***************************************************************************)
EXTENDS CompileDriver, SequenceTheorems, FiniteSetTheorems, WellFoundedInduction, TLAPS

\* Files appear only once the joins are done, and written counts the loop.
PhaseInv ==
  /\ written > 0 \/ DOMAIN files # {} => emit /\ AllCompiled
  /\ result[1] = "ok" => AllCompiled /\ (emit => written = N)

\* Unless a write failed, every unit written has a file of its name, which
\* holds the last unit of that name so far.
FilesInv ==
  result[1] \in {"running", "ok"} =>
    \A i \in 1 .. written :
      /\ Name(i) \in DOMAIN files
      /\ (\A j \in i + 1 .. written : Name(j) # Name(i)) => files[Name(i)] = i

\* Until then no other file is there, and each holds what the loop left in it.
WholeInv ==
  result[1] \in {"running", "ok"} => \A name \in DOMAIN files : LastAmong(written, name)

Inv == /\ TypeOK /\ UnitsInInputOrder /\ FirstFailureReported
       /\ PhaseInv /\ FilesInv /\ WholeInv /\ FailedWriteStopsThere

-----------------------------------------------------------------------------

\* The number of inputs is a natural number, and stays what it is.
LEMMA InputCount ==
  ASSUME TypeOK
  PROVE  N \in Nat
BY InputsAssumption DEF TypeOK, N

\* The initial states satisfy the invariant.
LEMMA InitInv == Init => Inv
<1> SUFFICES ASSUME Init PROVE Inv
  OBVIOUS
<1>1. N \in Nat
  BY InputsAssumption DEF Init, N
<1>2. TypeOK
  BY <1>1 DEF Init, TypeOK, N, Running, Outcomes
<1>3. UnitsInInputOrder /\ FirstFailureReported
  BY DEF Init, UnitsInInputOrder, FirstFailureReported, Running
<1>4. PhaseInv /\ FilesInv /\ WholeInv /\ FailedWriteStopsThere
  BY DEF Init, PhaseInv, FilesInv, WholeInv, FailedWriteStopsThere, Running
<1> QED
  BY <1>2, <1>3, <1>4 DEF Inv

\* Joining worker Len(compiled) + 1 keeps the units in the order of the inputs.
LEMMA JoinInv ==
  ASSUME Inv, JoinWorker
  PROVE  Inv'
<1> USE DEF Inv
<1>1. N \in Nat /\ N' = N
  BY InputCount DEF JoinWorker, arguments, N
<1>2. Len(compiled) \in Nat /\ Len(compiled) + 1 \in 1 .. N
  BY <1>1 DEF JoinWorker, TypeOK
<1>3. outcome \in [1 .. N -> Outcomes] /\ outcome[Len(compiled) + 1] \in Outcomes
  BY <1>2 DEF TypeOK
<1>4. CASE compiled' = Append(compiled, Len(compiled) + 1)
           /\ outcome[Len(compiled) + 1] = "ok" /\ result' = result
  <2>1. TypeOK'
    BY <1>1, <1>2, <1>4 DEF JoinWorker, TypeOK, arguments
  <2>2. UnitsInInputOrder'
    BY <1>1, <1>2, <1>4 DEF JoinWorker, TypeOK, UnitsInInputOrder, arguments
  <2>3. result' = Running
    BY <1>4 DEF JoinWorker
  <2>4. FirstFailureReported'
    BY <2>3 DEF FirstFailureReported, Running
  <2>5. written = 0 /\ DOMAIN files = {}
    <3>1. ~AllCompiled
      BY <1>1, <1>2 DEF JoinWorker, AllCompiled
    <3>2. ~(written > 0) /\ DOMAIN files = {}
      BY <3>1 DEF PhaseInv
    <3>3. written \in 0 .. N
      BY DEF TypeOK
    <3> QED
      BY <1>1, <3>2, <3>3
  <2>6. PhaseInv' /\ FilesInv' /\ WholeInv' /\ FailedWriteStopsThere'
    BY <2>3, <2>5
    DEF JoinWorker, PhaseInv, FilesInv, WholeInv, LastAmong, FailedWriteStopsThere, Name, arguments,
        Running
  <2> QED
    BY <2>1, <2>2, <2>4, <2>6
<1>5. CASE compiled' = compiled /\ outcome[Len(compiled) + 1] # "ok"
           /\ result' = <<outcome[Len(compiled) + 1], Len(compiled) + 1>>
  <2>1. outcome[Len(compiled) + 1] \in {"error", "panic"}
    BY <1>3, <1>5 DEF Outcomes
  <2>2. TypeOK'
    BY <1>1, <1>2, <1>5, <2>1 DEF JoinWorker, TypeOK, arguments
  <2>3. UnitsInInputOrder'
    BY <1>5 DEF JoinWorker, UnitsInInputOrder, arguments
  <2>4. \A j \in 1 .. Len(compiled) : outcome[j] = "ok"
    BY DEF UnitsInInputOrder, TypeOK
  <2>5. FirstFailureReported'
    BY <1>1, <1>2, <1>5, <2>1, <2>4 DEF JoinWorker, FirstFailureReported, arguments
  <2>6. PhaseInv' /\ FilesInv'
    BY <1>1, <1>5, <2>1
    DEF JoinWorker, PhaseInv, FilesInv, AllCompiled, arguments
  <2>7. WholeInv' /\ FailedWriteStopsThere'
    BY <1>5, <2>1 DEF WholeInv, FailedWriteStopsThere
  <2> QED
    BY <2>2, <2>3, <2>5, <2>6, <2>7
<1> QED
  BY <1>4, <1>5 DEF JoinWorker, Return

\* Writing the next unit extends the files by one step of the loop.
LEMMA WriteInv ==
  ASSUME Inv, WriteUnit
  PROVE  Inv'
<1> USE DEF Inv
<1>1. N \in Nat /\ N' = N
  BY InputCount DEF WriteUnit, arguments, N
<1>2. /\ result = Running /\ result' = Running /\ emit /\ AllCompiled /\ AllCompiled'
      /\ written < N /\ written' = written + 1 /\ written \in Nat
  BY <1>1 DEF WriteUnit, UnitToWrite, AllCompiled, TypeOK, arguments
<1>3. compiled[written + 1] = written + 1
  <2>1. compiled \in Seq(1 .. N) /\ Len(compiled) = N
    BY <1>2 DEF TypeOK, AllCompiled
  <2>2. written + 1 \in DOMAIN compiled
    BY <1>1, <1>2, <2>1
  <2> QED
    BY <2>2 DEF UnitsInInputOrder
<1> DEFINE unit == written + 1
<1>4. files' = [x \in DOMAIN files \union {Name(unit)} |->
                  IF x = Name(unit) THEN unit ELSE files[x]]
  BY <1>3 DEF WriteUnit, Stored
<1>5. TypeOK'
  BY <1>1, <1>2, <1>4 DEF WriteUnit, TypeOK, arguments
<1>6. UnitsInInputOrder' /\ FirstFailureReported'
  BY <1>1, <1>2 DEF WriteUnit, UnitsInInputOrder, FirstFailureReported, arguments
<1>7. PhaseInv'
  BY <1>1, <1>2 DEF WriteUnit, PhaseInv, Running, arguments
<1>8. \A i : Name(i)' = Name(i)
  BY DEF WriteUnit, Name, arguments
<1>9. FilesInv'
  <2>1. SUFFICES ASSUME NEW i \in 1 .. unit
                 PROVE  /\ Name(i) \in DOMAIN files'
                        /\ (\A j \in i + 1 .. unit : Name(j) # Name(i)) => files'[Name(i)] = i
    BY <1>2, <1>8 DEF FilesInv
  <2>2. CASE i = unit
    BY <1>4, <2>2
  <2>3. CASE i # unit
    <3>1. i \in 1 .. written
      BY <1>2, <2>3
    <3>2. /\ Name(i) \in DOMAIN files
          /\ (\A j \in i + 1 .. written : Name(j) # Name(i)) => files[Name(i)] = i
      BY <1>2, <3>1 DEF FilesInv, Running
    <3>3. unit \in i + 1 .. unit /\ \A j \in i + 1 .. written : j \in i + 1 .. unit
      BY <1>2, <3>1
    <3> QED
      BY <1>4, <3>2, <3>3
  <2> QED
    BY <2>2, <2>3
<1>10. WholeInv'
  <2>1. SUFFICES ASSUME NEW name \in DOMAIN files'
                 PROVE  LastAmong(written, name)'
    BY <1>2 DEF WholeInv, Running
  <2>2. unit \in Nat /\ unit # Torn
    BY <1>2, TornAssumption
  <2>3. CASE name = Name(unit)
    BY <1>2, <1>4, <1>8, <2>2, <2>3 DEF LastAmong
  <2>4. CASE name # Name(unit)
    <3>1. name \in DOMAIN files /\ LastAmong(written, name) /\ files'[name] = files[name]
      BY <1>2, <1>4, <2>1, <2>4 DEF WholeInv, Running
    <3>2. \A j \in files[name] + 1 .. unit : Name(j) # name
      BY <1>2, <2>4, <3>1 DEF LastAmong
    <3> QED
      BY <1>2, <1>8, <3>1, <3>2 DEF LastAmong
  <2> QED
    BY <2>3, <2>4
<1>11. FailedWriteStopsThere'
  BY <1>2 DEF FailedWriteStopsThere, Running
<1> QED
  BY <1>5, <1>6, <1>7, <1>9, <1>10, <1>11

\* A failed write leaves at most one torn file, and the run over.
LEMMA WriteFailsInv ==
  ASSUME Inv, WriteFails
  PROVE  Inv'
<1> USE DEF Inv
<1>1. N \in Nat /\ N' = N
  BY InputCount DEF WriteFails, arguments, N
<1>2. emit /\ AllCompiled /\ AllCompiled' /\ written < N /\ written \in Nat
  BY <1>1 DEF WriteFails, UnitToWrite, AllCompiled, TypeOK, arguments
<1>3. compiled[written + 1] = written + 1
  <2>1. compiled \in Seq(1 .. N) /\ Len(compiled) = N
    BY <1>2 DEF TypeOK, AllCompiled
  <2>2. written + 1 \in DOMAIN compiled
    BY <1>1, <1>2, <2>1
  <2> QED
    BY <2>2 DEF UnitsInInputOrder
<1>4. result' = <<"io", written + 1>>
  BY <1>3 DEF WriteFails, Return
<1>5. files' \in [DOMAIN files' -> 1 .. N \union {Torn}]
  BY DEF WriteFails, Stored, TypeOK
<1>6. TypeOK'
  BY <1>1, <1>2, <1>4, <1>5 DEF WriteFails, TypeOK, arguments
<1>7. UnitsInInputOrder' /\ FirstFailureReported'
  BY <1>4 DEF WriteFails, UnitsInInputOrder, FirstFailureReported, arguments
<1>8. PhaseInv' /\ FilesInv'
  BY <1>2, <1>4 DEF WriteFails, PhaseInv, FilesInv, arguments
<1>9. \A i : Name(i)' = Name(i)
  BY DEF WriteFails, Name, arguments
<1>10. WholeInv'
  BY <1>4 DEF WholeInv
<1>11. FailedWriteStopsThere'
  <2>1. result = Running /\ result'[1] = "io" /\ result'[2] = written + 1
    BY <1>4 DEF WriteFails, UnitToWrite
  <2>2. \A i \in 1 .. written : Name(i) \in DOMAIN files
    BY <2>1 DEF FilesInv, Running
  <2>3. \A name \in DOMAIN files : LastAmong(written, name)
    BY <2>1 DEF WholeInv, Running
  <2>4. CASE UNCHANGED files
    BY <1>2, <1>9, <2>1, <2>2, <2>3, <2>4 DEF FailedWriteStopsThere, LastAmong
  <2>5. CASE files' = [x \in DOMAIN files \union {Name(written + 1)} |->
                        IF x = Name(written + 1) THEN Torn ELSE files[x]]
    <3>1. \A name \in DOMAIN files' :
            \/ name = Name(written + 1) /\ files'[name] = Torn
            \/ name \in DOMAIN files /\ files'[name] = files[name]
      BY <2>5
    <3>2. DOMAIN files \subseteq DOMAIN files'
      BY <2>5
    <3> QED
      BY <1>2, <1>9, <2>1, <2>2, <2>3, <3>1, <3>2 DEF FailedWriteStopsThere, LastAmong
  <2> QED
    BY <1>3, <2>4, <2>5 DEF WriteFails, Stored
<1> QED
  BY <1>6, <1>7, <1>8, <1>10, <1>11

\* Every step keeps the invariant.
LEMMA NextInv == Inv /\ [Next]_vars => Inv'
<1> SUFFICES ASSUME Inv, [Next]_vars PROVE Inv'
  OBVIOUS
<1>1. N \in Nat
  BY InputCount DEF Inv
<1> USE DEF Inv, TypeOK, UnitsInInputOrder, FirstFailureReported, PhaseInv, FilesInv,
            WholeInv, LastAmong, FailedWriteStopsThere, AllCompiled, Name, N, arguments, Running, Return
<1>2. CASE NoInput
  BY <1>1, <1>2 DEF NoInput
<1>3. ASSUME NEW i \in 1 .. N, SpawnWorker(i) PROVE Inv'
  BY <1>1, <1>3 DEF SpawnWorker
<1>4. ASSUME NEW i \in 1 .. N, SpawnFails(i) PROVE Inv'
  BY <1>1, <1>4 DEF SpawnFails
<1>5. ASSUME NEW i \in 1 .. N, EndWorker(i) PROVE Inv'
  BY <1>1, <1>5 DEF EndWorker
<1>6. CASE JoinWorker
  BY <1>6, JoinInv
<1>7. CASE NoDirectory
  BY <1>1, <1>7 DEF NoDirectory, UnitToWrite
<1>8. CASE WriteUnit
  BY <1>8, WriteInv
<1>9. CASE WriteFails
  BY <1>9, WriteFailsInv
<1>10. CASE ReturnUnits
  BY <1>1, <1>10 DEF ReturnUnits
<1>11. CASE UNCHANGED vars
  BY <1>11 DEF vars
<1> QED
  BY <1>2, <1>3, <1>4, <1>5, <1>6, <1>7, <1>8, <1>9, <1>10, <1>11 DEF Next, Caller

\* The inductive invariant of compile_paths.
THEOREM Invariance == Spec => []Inv
BY InitInv, NextInv, PTL DEF Spec

\* compile_paths: the variables hold values of their kinds.
THEOREM TypeCorrect == Spec => []TypeOK
<1>1. Inv => TypeOK
  BY DEF Inv
<1> QED
  BY <1>1, Invariance, PTL

\* The units joined are the first inputs, in order, whatever the schedule.
THEOREM OrderKept == Spec => []UnitsInInputOrder
<1>1. Inv => UnitsInInputOrder
  BY DEF Inv
<1> QED
  BY <1>1, Invariance, PTL

\* The failure reported does not depend on the schedule.
THEOREM FailureDetermined == Spec => []FirstFailureReported
<1>1. Inv => FirstFailureReported
  BY DEF Inv
<1> QED
  BY <1>1, Invariance, PTL

\* No input that fails leaves a file of the others behind.
THEOREM AllOrNothing == Spec => []NoFileOfPartialCompilation
<1>1. Inv => NoFileOfPartialCompilation
  BY InputCount
  DEF Inv, TypeOK, NoFileOfPartialCompilation, PhaseInv, AllCompiled, UnitsInInputOrder
<1> QED
  BY <1>1, Invariance, PTL

\* After a success, the last of the inputs of a name has the file.
THEOREM LastWins == Spec => []LastOfNameSurvives
<1>1. Inv => LastOfNameSurvives
  BY InputCount DEF Inv, TypeOK, LastOfNameSurvives, PhaseInv, FilesInv, AllCompiled
<1> QED
  BY <1>1, Invariance, PTL

\* A write that fails is the last: whole files before it, none behind it.
THEOREM FailedWriteIsLast == Spec => []FailedWriteStopsThere
<1>1. Inv => FailedWriteStopsThere
  BY DEF Inv
<1> QED
  BY <1>1, Invariance, PTL

-----------------------------------------------------------------------------
(* compile_paths comes to its end.                                         *)

Unspawned == {i \in 1 .. N : worker[i] = "none"}
Alive == {i \in 1 .. N : worker[i] = "running"}

\* What the caller has to join, to write and to return; and the threads with two steps
\* before them, or one.
CallerWork == (N - Len(compiled)) + (N - written) + (IF result = Running THEN 1 ELSE 0)
Work == 2 * Cardinality(Unspawned) + Cardinality(Alive) + CallerWork

\* Where the caller is not at a join of a thread that runs: it has one to spawn or to
\* join, a unit to write, or all that it returns.
CallerGoesOn ==
  \/ N = 0
  \/ \E i \in 1 .. N : NextToSpawn(i)
  \/ AllSpawned /\ Len(compiled) < N /\ worker[Len(compiled) + 1] = "ended"
  \/ UnitToWrite
  \/ AllCompiled /\ (emit => written = N)

\* A set of natural numbers has a least member.
LEMMA LeastMember ==
  ASSUME NEW S \in SUBSET Nat, S # {}
  PROVE  \E m \in S : \A k \in S : m <= k
<1> DEFINE less == {ss \in Nat \X Nat : ss[1] < ss[2]}
<1>1. OpToRel(<, Nat) = less
  BY DEF OpToRel
<1>2. \A j, k \in Nat : j < k => <<j, k>> \in less
  OBVIOUS
<1> HIDE DEF less
<1>3. IsWellFoundedOn(less, Nat)
  BY <1>1, NatLessThanWellFounded
<1>4. PICK m \in S : \A k \in S : ~(<<k, m>> \in less)
  BY <1>3, WFMin
<1>5. \A k \in S : ~(k < m)
  BY <1>2, <1>4
<1> QED
  BY <1>5

\* There are as many threads as inputs.
LEMMA ThreadCounts ==
  ASSUME TypeOK
  PROVE  /\ IsFiniteSet(Unspawned) /\ Cardinality(Unspawned) \in 0 .. N
         /\ IsFiniteSet(Alive) /\ Cardinality(Alive) \in Nat
<1>1. N \in Nat
  BY InputCount
<1>2. IsFiniteSet(1 .. N) /\ Cardinality(1 .. N) = N
  BY <1>1, FS_Interval
<1>3. Unspawned \in SUBSET (1 .. N) /\ Alive \in SUBSET (1 .. N)
  BY DEF Unspawned, Alive
<1>4. IsFiniteSet(Unspawned) /\ IsFiniteSet(Alive) /\ Cardinality(Unspawned) <= N
  BY <1>2, <1>3, FS_Subset
<1> QED
  BY <1>1, <1>4, FS_CardinalityType

LEMMA CallerCount ==
  ASSUME TypeOK
  PROVE  /\ Len(compiled) \in 0 .. N /\ written \in 0 .. N /\ CallerWork \in 0 .. 2 * N + 1
<1>1. N \in Nat /\ Len(compiled) \in 0 .. N /\ written \in 0 .. N
  BY InputCount DEF TypeOK
<1> QED
  BY <1>1 DEF CallerWork

\* The number of inputs does not change.
LEMMA InputsStay == Next => N' = N
BY DEF Next, Caller, NoInput, SpawnWorker, SpawnFails, JoinWorker, NoDirectory, WriteUnit,
       WriteFails, ReturnUnits, EndWorker, N, arguments

\* Every step of the caller and of a worker leaves less to do.
LEMMA StepShrinks ==
  ASSUME Inv, Next
  PROVE  Work' < Work
<1>1. TypeOK /\ N \in Nat /\ N' = N
  BY InputCount, InputsStay DEF Inv
<1>2. worker \in [1 .. N -> {"none", "running", "ended"}]
  BY <1>1 DEF TypeOK
<1>3. /\ IsFiniteSet(Unspawned) /\ Cardinality(Unspawned) \in Nat
      /\ IsFiniteSet(Alive) /\ Cardinality(Alive) \in Nat /\ CallerWork \in Nat
  BY <1>1, ThreadCounts, CallerCount
<1>4. ASSUME NEW i \in 1 .. N, SpawnWorker(i)
      PROVE  Work' < Work
  <2>1. /\ worker[i] = "none" /\ worker' = [worker EXCEPT ![i] = "running"]
        /\ UNCHANGED <<compiled, written, result>>
    BY <1>4 DEF SpawnWorker, NextToSpawn
  <2>2. /\ i \in Unspawned /\ Unspawned' = Unspawned \ {i}
        /\ i \notin Alive /\ Alive' = Alive \union {i}
    BY <1>1, <1>2, <2>1 DEF Unspawned, Alive
  <2>3. Cardinality(Unspawned') = Cardinality(Unspawned) - 1
    BY <1>3, <2>2, FS_RemoveElement
  <2>4. Cardinality(Alive') = Cardinality(Alive) + 1
    BY <1>3, <2>2, FS_AddElement
  <2>5. CallerWork' = CallerWork
    BY <1>1, <2>1 DEF CallerWork, Running
  <2>6. Work' = 2 * (Cardinality(Unspawned) - 1) + (Cardinality(Alive) + 1) + CallerWork
    BY <2>3, <2>4, <2>5 DEF Work
  <2> QED
    BY <1>3, <2>6 DEF Work
<1>5. ASSUME NEW i \in 1 .. N, EndWorker(i)
      PROVE  Work' < Work
  <2>1. /\ worker[i] = "running" /\ worker' = [worker EXCEPT ![i] = "ended"]
        /\ UNCHANGED <<compiled, written, result>>
    BY <1>5 DEF EndWorker
  <2>2. Unspawned' = Unspawned /\ i \in Alive /\ Alive' = Alive \ {i}
    BY <1>1, <1>2, <2>1 DEF Unspawned, Alive
  <2>3. Cardinality(Alive') = Cardinality(Alive) - 1
    BY <1>3, <2>2, FS_RemoveElement
  <2>4. CallerWork' = CallerWork
    BY <1>1, <2>1 DEF CallerWork, Running
  <2>5. Work' = 2 * Cardinality(Unspawned) + (Cardinality(Alive) - 1) + CallerWork
    BY <2>2, <2>3, <2>4 DEF Work
  <2> QED
    BY <1>3, <2>5 DEF Work
<1>6. ASSUME worker' = worker, CallerWork' \in Int, CallerWork' < CallerWork
      PROVE  Work' < Work
  <2>1. Unspawned' = Unspawned /\ Alive' = Alive
    BY <1>1, <1>6 DEF Unspawned, Alive
  <2>2. Work' = 2 * Cardinality(Unspawned) + Cardinality(Alive) + CallerWork'
    BY <2>1 DEF Work
  <2> QED
    BY <1>3, <1>6, <2>2 DEF Work
<1>7. /\ CallerWork = (N - Len(compiled)) + (N - written) + (IF result = Running THEN 1 ELSE 0)
      /\ CallerWork' = (N - Len(compiled')) + (N - written') + (IF result' = Running THEN 1 ELSE 0)
      /\ Len(compiled) \in Nat /\ written \in Nat
  BY <1>1, CallerCount DEF CallerWork, Running
<1>8. ASSUME result = Running, result' # Running, UNCHANGED <<worker, compiled, written>>
      PROVE  Work' < Work
  <2>1. CallerWork' \in Int /\ CallerWork' < CallerWork
    BY <1>1, <1>7, <1>8
  <2> QED
    BY <1>6, <1>8, <2>1
<1>9. CASE NoInput \/ (\E i \in 1 .. N : SpawnFails(i)) \/ NoDirectory \/ WriteFails \/ ReturnUnits
  <2>1. /\ result = Running /\ UNCHANGED <<worker, compiled, written>>
        /\ \E kind \in {"usage", "spawn", "io", "ok"} : \E k : result' = <<kind, k>>
    BY <1>9 DEF NoInput, SpawnFails, NoDirectory, WriteFails, ReturnUnits, UnitToWrite, Return
  <2>2. result' # Running
    BY <2>1 DEF Running
  <2> QED
    BY <1>8, <2>1, <2>2
<1>10. CASE JoinWorker
  <2> DEFINE i == Len(compiled) + 1
  <2>1. result = Running /\ UNCHANGED <<worker, written>>
    BY <1>10 DEF JoinWorker
  <2>2. CASE compiled' = Append(compiled, i) /\ result' = result
    <3>1. Len(compiled') = Len(compiled) + 1
      BY <1>1, <2>2, AppendProperties DEF TypeOK
    <3>2. CallerWork' \in Int /\ CallerWork' < CallerWork
      BY <1>1, <1>7, <2>1, <2>2, <3>1
    <3> QED
      BY <1>6, <2>1, <3>2
  <2>3. CASE result' = <<outcome[i], i>> /\ compiled' = compiled
    <3>1. outcome[i] \in Outcomes
      <4>1. Len(compiled) < N
        BY <1>10 DEF JoinWorker
      <4>2. i \in 1 .. N
        BY <1>1, <1>7, <4>1
      <4> QED
        BY <1>1, <4>2 DEF TypeOK
    <3>2. result' # Running
      BY <2>3, <3>1 DEF Running, Outcomes
    <3> QED
      BY <1>8, <2>1, <2>3, <3>2
  <2> QED
    BY <1>10, <2>2, <2>3 DEF JoinWorker, Return
<1>11. CASE WriteUnit
  <2>1. UNCHANGED <<worker, compiled, result>> /\ written' = written + 1
    BY <1>11 DEF WriteUnit
  <2>2. CallerWork' \in Int /\ CallerWork' < CallerWork
    BY <1>1, <1>7, <2>1
  <2> QED
    BY <1>6, <2>1, <2>2
<1> QED
  BY <1>4, <1>5, <1>9, <1>10, <1>11 DEF Next, Caller

\* As long as it has not returned, compile_paths can go on, or waits for a thread that
\* runs: not for one that it never spawned, and not for a unit that it cannot write.
LEMMA NeverStuck ==
  ASSUME Inv
  PROVE  result = Running => CallerGoesOn \/ Alive # {}
<1> SUFFICES ASSUME result = Running
             PROVE  CallerGoesOn \/ Alive # {}
  OBVIOUS
<1>1. /\ TypeOK /\ N \in Nat /\ Len(compiled) \in 0 .. N /\ written \in 0 .. N
      /\ worker \in [1 .. N -> {"none", "running", "ended"}]
  BY InputCount, CallerCount DEF Inv, TypeOK
<1>2. CASE ~AllSpawned
  <2>1. Unspawned # {} /\ Unspawned \in SUBSET Nat
    BY <1>1, <1>2 DEF AllSpawned, Unspawned
  <2>2. PICK i \in Unspawned : \A j \in Unspawned : i <= j
    BY <2>1, LeastMember
  <2>3. i \in 1 .. N /\ NextToSpawn(i)
    BY <1>1, <2>2 DEF Unspawned, NextToSpawn
  <2> QED
    BY <2>3 DEF CallerGoesOn
<1>3. CASE AllSpawned /\ Len(compiled) < N
  <2>1. Len(compiled) + 1 \in 1 .. N
    BY <1>1, <1>3
  <2>2. worker[Len(compiled) + 1] \in {"running", "ended"}
    BY <1>1, <1>3, <2>1 DEF AllSpawned
  <2> QED
    BY <1>3, <2>1, <2>2 DEF CallerGoesOn, Alive
<1>4. CASE Len(compiled) = N /\ N > 0
  <2>1. AllCompiled
    BY <1>4 DEF AllCompiled
  <2>2. written < N \/ written = N
    BY <1>1
  <2> QED
    BY <2>1, <2>2 DEF CallerGoesOn, UnitToWrite
<1> QED
  BY <1>1, <1>2, <1>3, <1>4 DEF CallerGoesOn

\* compile_paths returns, or runs out of steps: it makes no more than four for an input
\* and one, each leaves less to do, and before the end there is always one to make.
THEOREM DriverEnds ==
  Spec => /\ [](Work \in 0 .. 4 * N + 1)
          /\ [](result = Running => CallerGoesOn \/ Alive # {})
          /\ [][Work' < Work]_vars
<1> DEFINE Bounded == Work <= 4 * N + 1
<1>1. Init => Bounded
  <2> SUFFICES ASSUME Init
               PROVE  Bounded
    OBVIOUS
  <2>1. TypeOK /\ N \in Nat
    BY InitInv, InputCount DEF Inv
  <2>2. Alive = {}
    BY DEF Init, Alive, N
  <2>3. Cardinality(Unspawned) \in 0 .. N /\ Cardinality(Alive) = 0 /\ CallerWork \in 0 .. 2 * N + 1
    BY <2>1, <2>2, ThreadCounts, CallerCount, FS_EmptySet
  <2> QED
    BY <2>1, <2>3 DEF Work
<1>2. Inv => Work \in Nat /\ N \in Nat
  BY ThreadCounts, CallerCount, InputCount DEF Inv, Work
<1>3. Inv /\ [Next]_vars => [Work' < Work]_vars
  BY StepShrinks
<1>4. (Inv => Work \in Nat /\ N \in Nat)'
  BY <1>2, PTL
<1>5. Inv /\ Inv' /\ Bounded /\ [Next]_vars => Bounded'
  <2>1. ASSUME Inv, Inv', Bounded, Next
        PROVE  Bounded'
    BY <1>2, <1>4, <2>1, StepShrinks, InputsStay
  <2>2. ASSUME Bounded, UNCHANGED vars
        PROVE  Bounded'
    BY <2>2 DEF vars, arguments, Work, CallerWork, Unspawned, Alive, N, Running
  <2> QED
    BY <2>1, <2>2
<1>6. Inv /\ Bounded => Work \in 0 .. 4 * N + 1
  BY <1>2
<1> QED
  BY <1>1, <1>3, <1>5, <1>6, NeverStuck, Invariance, PTL DEF Spec

=============================================================================
