--------------------------- MODULE AIExecutionProofs ---------------------------
(***************************************************************************)
(* Theorems about AIExecution: reservations can be recovered, artefacts    *)
(* are settled and final, the policy's limits hold, for every number of    *)
(* jobs, executions, attempts and faults.                                  *)
(*                                                                         *)
(* There are two invariants, one on top of the other: Inv says which rows  *)
(* go together, and of the ledger's amounts only what artefacts need;      *)
(* Amounts adds what the sums over slots and executions need.              *)
(***************************************************************************)
EXTENDS AIExecution, FiniteSetTheorems, TLAPS

LedgerStatuses == {"none", "reserved", "settled", "released"}
AuditStatuses == {"none", "running", "failed", "succeeded"}

\* Types, but for the ledger's amounts.
Shapes ==
  /\ job \in [Jobs -> Job] /\ audit \in [Jobs -> AuditStatuses]
  /\ DOMAIN ledger = Jobs
  /\ \A j \in Jobs : /\ DOMAIN ledger[j] = {"status", "reserved", "actual", "token"}
                     /\ ledger[j].status \in LedgerStatuses
  /\ attempt \in [Executions -> [Kinds -> Attempt]]
  /\ artifact \in [Jobs -> Executions \cup {None}]
  /\ run \in [Executions -> Run] /\ faults \in 0..MaxFaults

\* An execution has the attempts that its process has come to.
ExecutionSound(x) ==
  /\ run[x].pc = "unused" <=> run[x].job = None
  /\ run[x].pc \in {"unused", "called"} => \A k \in Kinds : attempt[x][k] = NoAttempt
  /\ run[x].pc \in {"reserved", "generating"} => attempt[x]["reviewer"] = NoAttempt
  /\ run[x].pc = "reviewing" => attempt[x]["generate"].status = "succeeded"

\* A reservation has an open attempt of its execution.
ReservationSound(j) ==
  /\ audit[j] = "running" <=> ledger[j].status = "reserved"
  /\ audit[j] = "running" =>
       LET x == ledger[j].token
       IN  /\ x \in Executions /\ run[x].job = j
           /\ \E k \in Kinds : Open(x, k) /\ attempt[x][k].token = x

\* An artefact is settled, and its execution is over.
ArtifactSound(j) ==
  /\ artifact[j] # None <=> audit[j] = "succeeded"
  /\ artifact[j] # None =>
       LET x == artifact[j]
       IN  /\ run[x].job = j /\ run[x].pc \in {"returned", "gone"}
           /\ ledger[j].status = "settled" /\ ledger[j].token = x /\ ledger[j].actual = Spent(x)
           /\ \A k \in Kinds : attempt[x][k].status \in {"none", "succeeded"}

Inv ==
  /\ Shapes /\ \A x \in Executions : ExecutionSound(x)
  /\ \A j \in Jobs : ReservationSound(j) /\ ArtifactSound(j)
  /\ ConcurrencyKept

\* What no step may do.
Final ==
  \A j \in Jobs : audit[j] = "succeeded" =>
    audit'[j] = "succeeded" /\ ledger'[j] = ledger[j] /\ artifact'[j] = artifact[j]

-----------------------------------------------------------------------------
(* Sums.  The recursion behind SumFunctionOnSet is followed by induction   *)
(* over the subsets of a finite set: a set of counterexamples that is not  *)
(* empty has a smallest one.                                               *)

Some(s) == CHOOSE x \in s : TRUE

\* g is the recursive function in the definition of the sum of f over S.
Recursion(f, S, g) ==
  g = [s \in SUBSET S |-> IF s = {} THEN 0 ELSE f[Some(s)] + g[s \ {Some(s)}]]

LEMMA SumIsFold ==
  ASSUME NEW f, NEW S
  PROVE  SumFunctionOnSet(f, S) = (CHOOSE g : Recursion(f, S, g))[S]
BY DEF SumFunctionOnSet, FoldFunctionOnSet, MapThenFoldSet, Recursion, Some

LEMMA SmallestCounterexample ==
  ASSUME NEW S, IsFiniteSet(S), NEW T, T \subseteq SUBSET S, T # {}
  PROVE  \E s \in T : \A t \in T : t \subseteq s => t = s
<1>1. IsWellFoundedOn(StrictSubsetOrdering(S), FiniteSubsetsOf(S))
  BY FS_StrictSubsetOrderingWellFounded
<1>2. FiniteSubsetsOf(S) = SUBSET S BY FS_FiniteSubsetsOfFinite
<1>3. \E s \in T : \A t \in T : ~(<<t, s>> \in StrictSubsetOrdering(S)) BY <1>1, <1>2, WFMin
<1> QED BY <1>3 DEF StrictSubsetOrdering

LEMMA RecursionsAgree ==
  ASSUME NEW f, NEW S, IsFiniteSet(S), NEW U \in SUBSET S, NEW V \in SUBSET S,
         NEW g, NEW h, Recursion(f, U, g), Recursion(f, V, h)
  PROVE  \A s \in SUBSET (U \cap V) : g[s] = h[s]
<1> DEFINE Bad == {s \in SUBSET (U \cap V) : g[s] # h[s]}
<1> SUFFICES ASSUME Bad # {} PROVE FALSE OBVIOUS
<1>1. PICK s \in Bad : \A t \in Bad : t \subseteq s => t = s
  <2>1. Bad \subseteq SUBSET S OBVIOUS
  <2> HIDE DEF Bad
  <2> QED BY <2>1, SmallestCounterexample
<1> DEFINE x == Some(s)
<1>2. g[s] = (IF s = {} THEN 0 ELSE f[x] + g[s \ {x}]) BY <1>1 DEF Recursion
<1>3. h[s] = (IF s = {} THEN 0 ELSE f[x] + h[s \ {x}]) BY <1>1 DEF Recursion
<1>4. s # {} => x \in s BY DEF Some
<1>5. s # {} => g[s \ {x}] = h[s \ {x}] BY <1>1, <1>4
<1> QED BY <1>1, <1>2, <1>3, <1>5

LEMMA RecursionExists ==
  ASSUME NEW f, NEW S, IsFiniteSet(S) PROVE \E g : Recursion(f, S, g)
<1> DEFINE Bad == {s \in SUBSET S : ~\E g : Recursion(f, s, g)}
<1> SUFFICES ASSUME Bad # {} PROVE FALSE OBVIOUS
<1>1. PICK s \in Bad : \A t \in Bad : t \subseteq s => t = s
  <2>1. Bad \subseteq SUBSET S OBVIOUS
  <2> HIDE DEF Bad
  <2> QED BY <2>1, SmallestCounterexample
<1> DEFINE G(t) == CHOOSE g : Recursion(f, t, g)
           H == [t \in SUBSET s |->
                  IF t = {} THEN 0 ELSE f[Some(t)] + G(t \ {Some(t)})[t \ {Some(t)}]]
<1>2. ASSUME NEW t \in SUBSET s, t # s PROVE Recursion(f, t, G(t)) BY <1>1, <1>2
<1>3. ASSUME NEW t \in SUBSET s, t # {} PROVE H[t] = f[Some(t)] + H[t \ {Some(t)}]
  <2> DEFINE u == t \ {Some(t)}
  <2>1. Some(t) \in t BY <1>3 DEF Some
  <2>2. u \in SUBSET s /\ u # s BY <2>1
  <2>3. Recursion(f, u, G(u)) BY <1>2, <2>2
  <2>4. G(u)[u] = H[u]
    <3>1. CASE u = {} BY <2>3, <3>1 DEF Recursion
    <3>2. CASE u # {}
      <4> DEFINE v == u \ {Some(u)}
      <4>1. Some(u) \in u BY <3>2 DEF Some
      <4>2. v \in SUBSET s /\ v # s /\ v \in SUBSET u BY <4>1, <2>2
      <4>3. Recursion(f, v, G(v)) BY <1>2, <4>2
      <4>4. G(u)[v] = G(v)[v]
        <5>1. v \in SUBSET (u \cap v) BY <4>2
        <5>2. u \in SUBSET S /\ v \in SUBSET S BY <1>1, <2>2, <4>2
        <5> HIDE DEF u, v, G
        <5> QED BY <5>1, <5>2, <2>3, <4>3, RecursionsAgree
      <4>5. G(u)[u] = f[Some(u)] + G(u)[v]
        <5> HIDE DEF G
        <5> QED BY <2>3, <3>2 DEF Recursion
      <4>6. H[u] = f[Some(u)] + G(v)[v] BY <2>2, <3>2
      <4> QED BY <4>4, <4>5, <4>6
    <3> QED BY <3>1, <3>2
  <2> QED BY <1>3, <2>4
<1>4. Recursion(f, s, H)
  <2>1. H[{}] = 0 /\ H = [t \in SUBSET s |-> H[t]] OBVIOUS
  <2> HIDE DEF H
  <2> QED BY <1>3, <2>1 DEF Recursion
<1> QED BY <1>1, <1>4

\* A sum over a finite set takes its elements one by one ...
LEMMA SumUnfolds ==
  ASSUME NEW f, NEW S, IsFiniteSet(S)
  PROVE  SumFunctionOnSet(f, S) =
           IF S = {} THEN 0 ELSE f[Some(S)] + SumFunctionOnSet(f, S \ {Some(S)})
<1> DEFINE G(t) == CHOOSE g : Recursion(f, t, g)
           R == S \ {Some(S)}
<1>1. Recursion(f, S, G(S)) BY RecursionExists
<1>2. IsFiniteSet(R) /\ R \in SUBSET S BY FS_Subset
<1>3. Recursion(f, R, G(R)) BY <1>2, RecursionExists
<1>4. G(S)[R] = G(R)[R]
  <2>1. R \in SUBSET (S \cap R) /\ S \in SUBSET S OBVIOUS
  <2> HIDE DEF G, R
  <2>2. \A t \in SUBSET (S \cap R) : G(S)[t] = G(R)[t]
    BY <1>1, <1>2, <1>3, <2>1, RecursionsAgree
  <2> QED BY <2>1, <2>2
<1>5. SumFunctionOnSet(f, S) = G(S)[S] /\ SumFunctionOnSet(f, R) = G(R)[R] BY SumIsFold
<1>6. G(S)[S] = IF S = {} THEN 0 ELSE f[Some(S)] + G(S)[R]
  <2> HIDE DEF G
  <2> QED BY <1>1 DEF Recursion
<1> QED BY <1>4, <1>5, <1>6

LEMMA SumEmpty == ASSUME NEW f PROVE SumFunctionOnSet(f, {}) = 0
BY SumUnfolds, FS_EmptySet

LEMMA SumNat ==
  ASSUME NEW f, NEW S, IsFiniteSet(S), \A x \in S : f[x] \in Nat
  PROVE  SumFunctionOnSet(f, S) \in Nat
<1> DEFINE Bad == {s \in SUBSET S : SumFunctionOnSet(f, s) \notin Nat}
<1> SUFFICES ASSUME Bad # {} PROVE FALSE OBVIOUS
<1>1. PICK s \in Bad : \A t \in Bad : t \subseteq s => t = s
  <2>1. Bad \subseteq SUBSET S OBVIOUS
  <2> HIDE DEF Bad
  <2> QED BY <2>1, SmallestCounterexample
<1>2. SumFunctionOnSet(f, s) =
        IF s = {} THEN 0 ELSE f[Some(s)] + SumFunctionOnSet(f, s \ {Some(s)})
  BY <1>1, FS_Subset, SumUnfolds
<1>3. s # {} => Some(s) \in s BY DEF Some
<1>4. s # {} => SumFunctionOnSet(f, s \ {Some(s)}) \in Nat BY <1>1, <1>3
<1> QED BY <1>1, <1>2, <1>3, <1>4

\* ... and in any order.
LEMMA SumRemoves ==
  ASSUME NEW f, NEW S, IsFiniteSet(S), \A x \in S : f[x] \in Nat, NEW a \in S
  PROVE  SumFunctionOnSet(f, S) = f[a] + SumFunctionOnSet(f, S \ {a})
<1> DEFINE Sum(t) == SumFunctionOnSet(f, t)
           Bad == {s \in SUBSET S : \E x \in s : Sum(s) # f[x] + Sum(s \ {x})}
<1> SUFFICES ASSUME Bad # {} PROVE FALSE OBVIOUS
<1>1. PICK s \in Bad : \A t \in Bad : t \subseteq s => t = s
  <2>1. Bad \subseteq SUBSET S OBVIOUS
  <2> HIDE DEF Bad
  <2> QED BY <2>1, SmallestCounterexample
<1>2. PICK x \in s : Sum(s) # f[x] + Sum(s \ {x}) BY <1>1
<1> DEFINE b == Some(s)
<1>3. b \in s BY <1>2 DEF Some
<1>4. Sum(s) = f[b] + Sum(s \ {b}) BY <1>1, <1>2, FS_Subset, SumUnfolds
<1>5. x # b BY <1>2, <1>4
<1> HIDE DEF b
<1>6. \A t \in SUBSET S : t \subseteq s /\ t # s => \A y \in t : Sum(t) = f[y] + Sum(t \ {y})
  BY <1>1
<1> DEFINE r == (s \ {b}) \ {x}
<1>7. Sum(s \ {b}) = f[x] + Sum(r) BY <1>1, <1>3, <1>5, <1>6
<1>8. Sum(s \ {x}) = f[b] + Sum(r)
  <2>1. (s \ {x}) \ {b} = r OBVIOUS
  <2> QED BY <1>1, <1>3, <1>5, <1>6, <2>1
<1>9. Sum(r) \in Nat /\ f[x] \in Nat /\ f[b] \in Nat
  <2>1. r \in SUBSET S /\ IsFiniteSet(r) BY <1>1, FS_Subset
  <2> QED BY <1>1, <1>3, <2>1, SumNat
<1> HIDE DEF r, Sum
<1> QED BY <1>2, <1>4, <1>7, <1>8, <1>9

LEMMA SumMonotone ==
  ASSUME NEW f, NEW g, NEW S, IsFiniteSet(S),
         \A x \in S : f[x] \in Nat /\ g[x] \in Nat /\ f[x] <= g[x]
  PROVE  SumFunctionOnSet(f, S) <= SumFunctionOnSet(g, S)
<1> DEFINE Bad == {s \in SUBSET S : ~(SumFunctionOnSet(f, s) <= SumFunctionOnSet(g, s))}
<1> SUFFICES ASSUME Bad # {} PROVE FALSE OBVIOUS
<1>1. PICK s \in Bad : \A t \in Bad : t \subseteq s => t = s
  <2>1. Bad \subseteq SUBSET S OBVIOUS
  <2> HIDE DEF Bad
  <2> QED BY <2>1, SmallestCounterexample
<1>2. s # {}
  <2> SUFFICES ASSUME s = {} PROVE FALSE OBVIOUS
  <2>1. SumFunctionOnSet(f, s) = 0 /\ SumFunctionOnSet(g, s) = 0 BY SumEmpty
  <2>2. ~(SumFunctionOnSet(f, s) <= SumFunctionOnSet(g, s)) BY <1>1
  <2> QED BY <2>1, <2>2
<1>3. PICK x \in s : TRUE BY <1>2
<1>4. IsFiniteSet(s) /\ IsFiniteSet(s \ {x}) BY <1>1, FS_Subset
<1>5. /\ SumFunctionOnSet(f, s) = f[x] + SumFunctionOnSet(f, s \ {x})
      /\ SumFunctionOnSet(g, s) = g[x] + SumFunctionOnSet(g, s \ {x})
  BY <1>1, <1>4, SumRemoves
<1>6. SumFunctionOnSet(f, s \ {x}) \in Nat /\ SumFunctionOnSet(g, s \ {x}) \in Nat
  BY <1>1, <1>4, SumNat
<1>7. SumFunctionOnSet(f, s \ {x}) <= SumFunctionOnSet(g, s \ {x}) BY <1>1, <1>3
<1> QED BY <1>1, <1>3, <1>5, <1>6, <1>7

LEMMA SumOfNothing ==
  ASSUME NEW f, NEW S, IsFiniteSet(S), \A x \in S : f[x] = 0
  PROVE  SumFunctionOnSet(f, S) = 0
<1> DEFINE Bad == {s \in SUBSET S : SumFunctionOnSet(f, s) # 0}
<1> SUFFICES ASSUME Bad # {} PROVE FALSE OBVIOUS
<1>1. PICK s \in Bad : \A t \in Bad : t \subseteq s => t = s
  <2>1. Bad \subseteq SUBSET S OBVIOUS
  <2> HIDE DEF Bad
  <2> QED BY <2>1, SmallestCounterexample
<1>2. SumFunctionOnSet(f, s) =
        IF s = {} THEN 0 ELSE f[Some(s)] + SumFunctionOnSet(f, s \ {Some(s)})
  BY <1>1, FS_Subset, SumUnfolds
<1>3. s # {} => Some(s) \in s BY DEF Some
<1>4. s # {} => SumFunctionOnSet(f, s \ {Some(s)}) = 0 BY <1>1, <1>3
<1> QED BY <1>1, <1>2, <1>3, <1>4

-----------------------------------------------------------------------------
(* Rows.                                                                   *)

LEMMA Numbers ==
  /\ None \notin Executions /\ None \notin Jobs /\ Executions \subseteq Nat /\ IsFiniteSet(Jobs)
  /\ MaxConcurrency \in Nat \ {0} /\ DailyLimit \in Nat \ {0} /\ MaxFaults \in Nat
  /\ Costs \subseteq Nat
BY AIAssumption DEF ConstantsOK, Executions, None

LEMMA Rows ==
  ASSUME Shapes
  PROVE  /\ \A x \in Executions : /\ run[x] \in Run /\ attempt[x] \in [Kinds -> Attempt]
                                  /\ \A k \in Kinds : attempt[x][k] \in Attempt
         /\ \A j \in Jobs : job[j] \in Job
BY DEF Shapes

LEMMA NewRows == NoAttempt \in Attempt /\ NewRun \in Run /\ NoAttempt.cost = 0
BY DEF NoAttempt, Attempt, NewRun, Run, None

LEMMA FaultType == ASSUME Shapes, NEW kind, Fault(kind) PROVE faults' \in 0..MaxFaults
BY Numbers DEF Shapes, Fault

\* One attempt of one execution is written.
LEMMA OneAttempt ==
  ASSUME Shapes, NEW x \in Executions, NEW k \in Kinds, NEW row \in Attempt,
         attempt' = [attempt EXCEPT ![x][k] = row]
  PROVE  /\ attempt' \in [Executions -> [Kinds -> Attempt]] /\ attempt'[x][k] = row
         /\ \A i \in Kinds : i # k => attempt'[x][i] = attempt[x][i]
         /\ \A y \in Executions : y # x => attempt'[y] = attempt[y]
<1> DEFINE f == [attempt[x] EXCEPT ![k] = row]
<1>1. attempt[x] \in [Kinds -> Attempt] BY Rows
<1>2. /\ f \in [Kinds -> Attempt] /\ f[k] = row /\ \A i \in Kinds : i # k => f[i] = attempt[x][i]
  BY <1>1
<1>3. attempt' = [attempt EXCEPT ![x] = f] OBVIOUS
<1> HIDE DEF f
<1> QED BY <1>2, <1>3 DEF Shapes

LEMMA OneRun ==
  ASSUME Shapes, NEW x \in Executions, NEW r \in Run, run' = [run EXCEPT ![x] = r]
  PROVE  /\ run' \in [Executions -> Run] /\ run'[x] = r
         /\ \A y \in Executions : y # x => run'[y] = run[y]
BY DEF Shapes

LEMMA InvInit == Init => Inv
<1> SUFFICES ASSUME Init PROVE Inv OBVIOUS
<1>1. job \in [Jobs -> Job] BY Numbers DEF Init, Job
<1>2. audit \in [Jobs -> AuditStatuses] /\ \A j \in Jobs : audit[j] = "none"
  BY DEF Init, AuditStatuses
<1>3. /\ DOMAIN ledger = Jobs
      /\ \A j \in Jobs : /\ DOMAIN ledger[j] = {"status", "reserved", "actual", "token"}
                         /\ ledger[j].status = "none"
  BY DEF Init
<1>4. /\ attempt \in [Executions -> [Kinds -> Attempt]]
      /\ \A x \in Executions, k \in Kinds : attempt[x][k] = NoAttempt
  BY NewRows DEF Init
<1>5. artifact \in [Jobs -> Executions \cup {None}] /\ \A j \in Jobs : artifact[j] = None
  BY DEF Init
<1>6. run \in [Executions -> Run] /\ \A x \in Executions : run[x] = NewRun BY NewRows DEF Init
<1>7. faults \in 0..MaxFaults BY Numbers DEF Init
<1>8. Shapes BY <1>1, <1>2, <1>3, <1>4, <1>5, <1>6, <1>7 DEF Shapes, LedgerStatuses
<1>9. \A x \in Executions : ExecutionSound(x)
  BY <1>4, <1>6 DEF ExecutionSound, NewRun
<1>10. \A j \in Jobs : ReservationSound(j) /\ ArtifactSound(j)
  BY <1>2, <1>3, <1>5 DEF ReservationSound, ArtifactSound
<1>11. ConcurrencyKept
  <2>1. Running = {} /\ CallsToday = {} BY <1>2, <1>3 DEF Running, CallsToday
  <2> QED BY <2>1, FS_EmptySet, Numbers DEF ConcurrencyKept
<1> QED BY <1>8, <1>9, <1>10, <1>11 DEF Inv

-----------------------------------------------------------------------------
(* What steps do.                                                          *)

\* No job is added to those that run or are counted.
LEMMA CountsKept ==
  ASSUME Inv, Running' \subseteq Running, CallsToday' \subseteq CallsToday
  PROVE  ConcurrencyKept'
<1>1. Running \subseteq Jobs /\ CallsToday \subseteq Jobs BY DEF Running, CallsToday
<1>2. IsFiniteSet(Running) /\ IsFiniteSet(CallsToday) BY <1>1, Numbers, FS_Subset
<1>3. /\ IsFiniteSet(Running') /\ Cardinality(Running') <= Cardinality(Running)
      /\ IsFiniteSet(CallsToday') /\ Cardinality(CallsToday') <= Cardinality(CallsToday)
  BY <1>2, FS_Subset
<1>4. /\ Cardinality(Running) \in Nat /\ Cardinality(CallsToday) \in Nat
      /\ Cardinality(Running') \in Nat /\ Cardinality(CallsToday') \in Nat
  BY <1>2, <1>3, FS_CardinalityType
<1>5. Cardinality(Running) <= MaxConcurrency /\ Cardinality(CallsToday) <= DailyLimit
  BY DEF Inv, ConcurrencyKept
<1>6. Cardinality(Running') <= MaxConcurrency /\ Cardinality(CallsToday') <= DailyLimit
  BY <1>3, <1>4, <1>5, Numbers
<1> QED BY <1>6 DEF ConcurrencyKept

\* A step of one execution, which may write the rows of its own slot.
LEMMA SlotStep ==
  ASSUME Inv, Shapes', NEW x \in Executions, NEW j \in Jobs, run[x].job = j, run'[x].job = j,
         \A y \in Executions : y # x => attempt'[y] = attempt[y] /\ run'[y] = run[y],
         \A i \in Jobs : i # j =>
           audit'[i] = audit[i] /\ ledger'[i] = ledger[i] /\ artifact'[i] = artifact[i],
         ExecutionSound(x)', ReservationSound(j)', ArtifactSound(j)', ConcurrencyKept'
  PROVE  Inv'
<1>1. \A y \in Executions : ExecutionSound(y)'
  <2> SUFFICES ASSUME NEW y \in Executions, y # x PROVE ExecutionSound(y)' OBVIOUS
  <2>1. ExecutionSound(y) BY DEF Inv
  <2> QED BY <2>1 DEF ExecutionSound
<1>2. ASSUME NEW i \in Jobs, i # j PROVE ReservationSound(i)' /\ ArtifactSound(i)'
  <2>1. /\ audit'[i] = audit[i] /\ ledger'[i] = ledger[i] /\ artifact'[i] = artifact[i]
        /\ ReservationSound(i) /\ ArtifactSound(i)
    BY <1>2 DEF Inv
  <2>2. \A y \in Executions : run[y].job = i => y # x BY <1>2
  <2>3. ReservationSound(i)' BY <2>1, <2>2 DEF ReservationSound, Open
  <2>4. artifact[i] \in Executions \cup {None} BY DEF Inv, Shapes
  <2>5. ArtifactSound(i)' BY <2>1, <2>2, <2>4 DEF ArtifactSound, Spent
  <2> QED BY <2>3, <2>5
<1> QED BY <1>1, <1>2 DEF Inv

\* A process that was started works on a job.
LEMMA ItsJob ==
  ASSUME Inv, NEW x \in Executions, run[x].pc # "unused"
  PROVE  run[x].job \in Jobs
<1>1. run[x] \in Run BY Rows DEF Inv
<1>2. run[x].job # None BY DEF Inv, ExecutionSound
<1> QED BY <1>1, <1>2 DEF Run

\* The process of an execution ends, and writes nothing but its job.
LEMMA RunEnds ==
  ASSUME Inv, NEW x \in Executions, NEW r \in Run, run' = [run EXCEPT ![x] = r],
         r.job = run[x].job, r.pc \in {"returned", "gone"}, run[x].pc # "unused",
         job' \in [Jobs -> Job], faults' \in 0..MaxFaults,
         UNCHANGED <<audit, ledger, attempt, artifact>>
  PROVE  Inv' /\ Final
<1>1. run' \in [Executions -> Run] /\ run'[x] = r /\ \A y \in Executions : y # x => run'[y] = run[y]
  BY OneRun DEF Inv
<1>2. PICK j \in Jobs : run[x].job = j BY ItsJob
<1>3. Shapes' BY <1>1 DEF Inv, Shapes
<1>4. ExecutionSound(x)'
  <2>1. r.job # None BY <1>2, Numbers
  <2> QED BY <1>1, <2>1 DEF ExecutionSound
<1>5. ReservationSound(j)'
  <2>1. ReservationSound(j) BY DEF Inv
  <2>2. \A y \in Executions : run'[y].job = run[y].job BY <1>1
  <2>3. UNCHANGED <<audit, ledger, attempt>> OBVIOUS
  <2> QED BY <2>1, <2>2, <2>3 DEF ReservationSound, Open
<1>6. ArtifactSound(j)'
  <2>1. ArtifactSound(j) /\ artifact[j] \in Executions \cup {None} BY DEF Inv, Shapes
  <2>2. \A y \in Executions : /\ run'[y].job = run[y].job
                              /\ run[y].pc \in {"returned", "gone"} => run'[y].pc \in {"returned", "gone"}
    BY <1>1
  <2>3. UNCHANGED <<audit, ledger, attempt, artifact>> OBVIOUS
  <2> QED BY <2>1, <2>2, <2>3 DEF ArtifactSound, Spent
<1>7. ConcurrencyKept' BY CountsKept DEF Running, CallsToday
<1>8. Inv' BY <1>1, <1>2, <1>3, <1>4, <1>5, <1>6, <1>7, SlotStep
<1>9. Final BY DEF Final
<1> QED BY <1>8, <1>9

-----------------------------------------------------------------------------
(* Steps that end the process of an execution.                             *)

LEMMA Returns ==
  ASSUME Inv, NEW x \in Executions, NEW result \in {"none", "success", "retriable", "permanent"},
         Return(x, result), run[x].pc # "unused",
         UNCHANGED <<job, audit, ledger, attempt, artifact, faults>>
  PROVE  Inv' /\ Final
<1> DEFINE r == [run[x] EXCEPT !.pc = "returned", !.result = result]
<1>1. run[x] \in Run BY Rows DEF Inv
<1>2. r \in Run /\ r.job = run[x].job /\ r.pc = "returned" BY <1>1 DEF Run
<1>3. run' = [run EXCEPT ![x] = r] BY DEF Return
<1>4. job' \in [Jobs -> Job] /\ faults' \in 0..MaxFaults BY DEF Inv, Shapes
<1> HIDE DEF r
<1> QED BY <1>2, <1>3, <1>4, RunEnds

LEMMA Ends ==
  ASSUME Inv, NEW x \in Executions,
         \/ ReuseArtifact(x) \/ Deny(x)
         \/ \E k \in Kinds : LoseFencing(x, k) \/ FailUnfenced(x, k)
  PROVE  Inv' /\ Final
<1>1. /\ run[x].pc # "unused"
      /\ Return(x, "success") \/ Return(x, "permanent")
      /\ UNCHANGED <<job, audit, ledger, attempt, artifact, faults>>
  BY DEF ReuseArtifact, Deny, LoseFencing, FailUnfenced, Calling
<1> QED BY <1>1, Returns

LEMMA EndJobs == ASSUME Inv, NEW x \in Executions, EndJob(x) PROVE Inv' /\ Final
<1> DEFINE r == [run[x] EXCEPT !.pc = "gone"]
<1>1. run[x] \in Run BY Rows DEF Inv
<1>2. r \in Run /\ r.job = run[x].job /\ r.pc = "gone" BY <1>1 DEF Run
<1>3. /\ run' = [run EXCEPT ![x] = r] /\ run[x].pc # "unused"
      /\ UNCHANGED <<audit, ledger, attempt, artifact, faults>>
  BY DEF EndJob
<1>4. PICK j \in Jobs : run[x].job = j BY <1>3, ItsJob
<1>5. job' \in [Jobs -> Job]
  <2>1. PICK status \in {"succeeded", "queued", "failed"} :
          job' = IF job[j].holder = x
                   THEN [job EXCEPT ![j].status = status, ![j].holder = None] ELSE job
    BY <1>4 DEF EndJob
  <2>2. job \in [Jobs -> Job] BY DEF Inv, Shapes
  <2> QED BY <2>1, <2>2 DEF Job
<1>6. faults' \in 0..MaxFaults BY <1>3 DEF Inv, Shapes
<1> HIDE DEF r
<1> QED BY <1>2, <1>3, <1>5, <1>6, RunEnds

LEMMA Dies == ASSUME Inv, NEW x \in Executions, WorkerDies(x) PROVE Inv' /\ Final
<1> DEFINE r == [run[x] EXCEPT !.pc = "gone"]
<1>1. run[x] \in Run BY Rows DEF Inv
<1>2. r \in Run /\ r.job = run[x].job /\ r.pc = "gone" BY <1>1 DEF Run
<1>3. /\ run' = [run EXCEPT ![x] = r] /\ run[x].pc # "unused"
      /\ UNCHANGED <<job, audit, ledger, attempt, artifact>>
  BY DEF WorkerDies, Alive
<1>4. job' \in [Jobs -> Job] BY <1>3 DEF Inv, Shapes
<1>5. faults' \in 0..MaxFaults BY FaultType DEF Inv, WorkerDies
<1> HIDE DEF r
<1> QED BY <1>2, <1>3, <1>4, <1>5, RunEnds

-----------------------------------------------------------------------------
(* A delivery, and a job that is recovered.                                *)

LEMMA Delivers ==
  ASSUME Inv, NEW x \in Executions, NEW j \in Jobs, Deliver(x, j) PROVE Inv' /\ Final
<1> DEFINE r == [pc |-> "called", job |-> j, result |-> "none"]
<1>1. r \in Run /\ r.job = j /\ r.pc = "called" BY DEF Run
<1>2. /\ run' = [run EXCEPT ![x] = r] /\ run[x].pc = "unused"
      /\ job' = [job EXCEPT ![j] = [status |-> "running", holder |-> x, attempts |-> @.attempts + 1]]
      /\ UNCHANGED <<audit, ledger, attempt, artifact, faults>>
  BY DEF Deliver
<1> HIDE DEF r
<1>3. run' \in [Executions -> Run] /\ run'[x] = r /\ \A y \in Executions : y # x => run'[y] = run[y]
  BY <1>1, <1>2, OneRun DEF Inv
<1>4. run[x].job = None /\ \A k \in Kinds : attempt[x][k] = NoAttempt
  BY <1>2 DEF Inv, ExecutionSound
<1>5. Shapes'
  <2>1. job' \in [Jobs -> Job]
    <3>1. job[j] \in Job BY Rows DEF Inv
    <3>2. [status |-> "running", holder |-> x, attempts |-> job[j].attempts + 1] \in Job
      BY <3>1 DEF Job
    <3> QED BY <1>2, <3>2 DEF Inv, Shapes
  <2> QED BY <1>2, <1>3, <2>1 DEF Inv, Shapes
<1>6. \A y \in Executions : ExecutionSound(y)'
  <2>1. ExecutionSound(x)' BY <1>1, <1>2, <1>3, <1>4, Numbers DEF ExecutionSound
  <2>2. ASSUME NEW y \in Executions, y # x PROVE ExecutionSound(y)'
    <3>1. ExecutionSound(y) BY DEF Inv
    <3> QED BY <1>2, <1>3, <2>2, <3>1 DEF ExecutionSound
  <2> QED BY <2>1, <2>2
<1>7. ASSUME NEW i \in Jobs PROVE ReservationSound(i)' /\ ArtifactSound(i)'
  <2>1. \A y \in Executions : run[y].job = i => run'[y] = run[y] BY <1>3, <1>4, Numbers
  <2>2. ReservationSound(i) /\ ArtifactSound(i) /\ artifact[i] \in Executions \cup {None}
    BY DEF Inv, Shapes
  <2>3. ReservationSound(i)' BY <1>2, <2>1, <2>2 DEF ReservationSound, Open
  <2>4. ArtifactSound(i)' BY <1>2, <2>1, <2>2 DEF ArtifactSound, Spent
  <2> QED BY <2>3, <2>4
<1>8. ConcurrencyKept' BY <1>2, CountsKept DEF Running, CallsToday
<1>9. Final BY <1>2 DEF Final
<1> QED BY <1>5, <1>6, <1>7, <1>8, <1>9 DEF Inv

LEMMA JobOnly ==
  ASSUME Inv, job' \in [Jobs -> Job], faults' \in 0..MaxFaults,
         UNCHANGED <<audit, ledger, attempt, artifact, run>>
  PROVE  Inv' /\ Final
<1>1. Shapes' BY DEF Inv, Shapes
<1>2. \A y \in Executions : ExecutionSound(y)' BY DEF Inv, ExecutionSound
<1>3. ASSUME NEW i \in Jobs PROVE ReservationSound(i)' /\ ArtifactSound(i)'
  <2>1. ReservationSound(i) /\ ArtifactSound(i) BY DEF Inv
  <2> QED BY <2>1 DEF ReservationSound, ArtifactSound, Open, Spent
<1>4. ConcurrencyKept' BY CountsKept DEF Running, CallsToday
<1>5. Final BY DEF Final
<1> QED BY <1>1, <1>2, <1>3, <1>4, <1>5 DEF Inv

LEMMA RecoversJob == ASSUME Inv, NEW j \in Jobs, RecoverJob(j) PROVE Inv' /\ Final
<1>1. /\ job' = [job EXCEPT ![j].status = "queued", ![j].holder = None]
      /\ UNCHANGED <<audit, ledger, attempt, artifact, run>>
  BY DEF RecoverJob
<1>2. job' \in [Jobs -> Job]
  <2>1. job \in [Jobs -> Job] BY DEF Inv, Shapes
  <2> QED BY <1>1, <2>1 DEF Job
<1>3. faults' \in 0..MaxFaults
  <2>1. CASE faults' = faults BY <2>1 DEF Inv, Shapes
  <2>2. CASE Fault("job_overrun") BY <2>2, FaultType DEF Inv
  <2> QED BY <2>1, <2>2 DEF RecoverJob
<1> QED BY <1>1, <1>2, <1>3, JobOnly

-----------------------------------------------------------------------------
(* A reservation is made.                                                  *)

LEMMA Reserves == ASSUME Inv, NEW x \in Executions, Reserve(x) PROVE Inv' /\ Final
<1>1. PICK j \in Jobs : run[x].job = j BY ItsJob DEF Reserve
<1> DEFINE row  == [NoAttempt EXCEPT !.status = "reserved", !.token = x]
           r    == [run[x] EXCEPT !.pc = "reserved"]
           slot == [status |-> "reserved", reserved |-> Reservation, actual |-> 0, token |-> x]
<1>2. row \in Attempt /\ row.status = "reserved" /\ row.token = x
  BY DEF NoAttempt, Attempt
<1>3. r \in Run /\ r.job = j /\ r.pc = "reserved"
  <2>1. run[x] \in Run BY Rows DEF Inv
  <2> QED BY <1>1, <2>1 DEF Run
<1>4. slot.status = "reserved" /\ slot.token = x /\ DOMAIN slot = {"status", "reserved", "actual", "token"}
  OBVIOUS
<1>5. /\ run[x].pc = "called" /\ audit[j] \in {"none", "failed"} /\ QuotaLeft
      /\ audit' = [audit EXCEPT ![j] = "running"] /\ ledger' = [ledger EXCEPT ![j] = slot]
      /\ attempt' = [attempt EXCEPT ![x]["generate"] = row]
      /\ run' = [run EXCEPT ![x] = r] /\ UNCHANGED <<job, artifact, faults>>
  BY <1>1 DEF Reserve
<1> HIDE DEF row, r, slot
<1>6. /\ attempt' \in [Executions -> [Kinds -> Attempt]] /\ attempt'[x]["generate"] = row
      /\ attempt'[x]["reviewer"] = attempt[x]["reviewer"]
      /\ \A y \in Executions : y # x => attempt'[y] = attempt[y]
  BY <1>2, <1>5, OneAttempt DEF Inv, Kinds
<1>7. run' \in [Executions -> Run] /\ run'[x] = r /\ \A y \in Executions : y # x => run'[y] = run[y]
  BY <1>3, <1>5, OneRun DEF Inv
<1>8. /\ audit' \in [Jobs -> AuditStatuses] /\ audit'[j] = "running"
      /\ \A i \in Jobs : i # j => audit'[i] = audit[i]
  BY <1>5 DEF Inv, Shapes, AuditStatuses
<1>9. DOMAIN ledger' = Jobs /\ ledger'[j] = slot /\ \A i \in Jobs : i # j => ledger'[i] = ledger[i]
  BY <1>5 DEF Inv, Shapes
<1>10. Shapes'
  <2>1. \A i \in Jobs : DOMAIN ledger'[i] = {"status", "reserved", "actual", "token"}
                        /\ ledger'[i].status \in LedgerStatuses
    BY <1>4, <1>9 DEF Inv, Shapes, LedgerStatuses
  <2> QED BY <1>5, <1>6, <1>7, <1>8, <1>9, <2>1 DEF Inv, Shapes
<1>11. ExecutionSound(x)'
  <2>1. attempt[x]["reviewer"] = NoAttempt BY <1>5 DEF Inv, ExecutionSound, Kinds
  <2> QED BY <1>3, <1>6, <1>7, <2>1, Numbers DEF ExecutionSound
<1>12. ReservationSound(j)'
  BY <1>2, <1>3, <1>4, <1>6, <1>7, <1>8, <1>9 DEF ReservationSound, Open, Kinds
<1>13. ArtifactSound(j)'
  <2>1. artifact[j] = None BY <1>5 DEF Inv, ArtifactSound
  <2>2. artifact'[j] = None BY <1>5, <2>1
  <2> QED BY <1>8, <2>2 DEF ArtifactSound
<1>14. ConcurrencyKept'
  <2>1. Running \subseteq Jobs /\ CallsToday \subseteq Jobs BY DEF Running, CallsToday
  <2>2. IsFiniteSet(Running) /\ IsFiniteSet(CallsToday) BY <2>1, Numbers, FS_Subset
  <2>3. Cardinality(Running) \in Nat /\ Cardinality(CallsToday) \in Nat
    BY <2>2, FS_CardinalityType
  <2>4. audit[j] # "running" /\ ledger[j].status # "reserved"
    BY <1>5 DEF Inv, ReservationSound
  <2>5. Running' = Running \cup {j} BY <1>8 DEF Running
  <2>6. CallsToday' = CallsToday \cup {j} BY <1>4, <1>9 DEF CallsToday
  <2>7. Cardinality(Running') <= Cardinality(Running) + 1
    <3>1. Cardinality(Running \cup {j}) = IF j \in Running THEN Cardinality(Running) ELSE Cardinality(Running) + 1
      BY <2>2, FS_AddElement
    <3>2. Cardinality(Running) <= Cardinality(Running) + 1 BY <2>3
    <3> QED BY <2>3, <2>5, <3>1, <3>2
  <2>8. Cardinality(CallsToday') <= Cardinality(CallsToday) + 1
    <3>1. Cardinality(CallsToday \cup {j}) = IF j \in CallsToday THEN Cardinality(CallsToday) ELSE Cardinality(CallsToday) + 1
      BY <2>2, FS_AddElement
    <3>2. Cardinality(CallsToday) <= Cardinality(CallsToday) + 1 BY <2>3
    <3> QED BY <2>3, <2>6, <3>1, <3>2
  <2>9. Cardinality(Running') \in Nat /\ Cardinality(CallsToday') \in Nat
    BY <2>2, <2>5, <2>6, FS_AddElement, FS_CardinalityType
  <2>10. Cardinality(Running) < MaxConcurrency /\ Cardinality(CallsToday) < DailyLimit
    BY <1>5 DEF QuotaLeft
  <2>11. Cardinality(Running') <= MaxConcurrency /\ Cardinality(CallsToday') <= DailyLimit
    BY <2>3, <2>7, <2>8, <2>9, <2>10, Numbers
  <2> QED BY <2>11 DEF ConcurrencyKept
<1>15. \A i \in Jobs : i # j =>
         audit'[i] = audit[i] /\ ledger'[i] = ledger[i] /\ artifact'[i] = artifact[i]
  BY <1>5, <1>8, <1>9
<1>16. Inv'
  <2>1. run'[x].job = j BY <1>3, <1>7
  <2> QED BY <1>1, <1>6, <1>7, <1>10, <1>11, <1>12, <1>13, <1>14, <1>15, <2>1, SlotStep
<1>17. Final
  <2>1. audit[j] # "succeeded" BY <1>5
  <2> QED BY <1>15, <2>1 DEF Final
<1> QED BY <1>16, <1>17

-----------------------------------------------------------------------------
(* Steps that write attempts only.                                         *)

\* Attempts of one execution are written; an open one with the token stays.
LEMMA AttemptStep ==
  ASSUME Inv, NEW x \in Executions, NEW r \in Run, run' = [run EXCEPT ![x] = r],
         r.job = run[x].job,
         run[x].pc \in {"reserved", "generating", "reviewing"} \/ \E k \in Kinds : Open(x, k),
         attempt' \in [Executions -> [Kinds -> Attempt]],
         \A y \in Executions : y # x => attempt'[y] = attempt[y],
         UNCHANGED <<job, audit, ledger, artifact>>, faults' \in 0..MaxFaults,
         ExecutionSound(x)',
         \A j \in Jobs : audit[j] = "running" /\ ledger[j].token = x =>
                         \E k \in Kinds : Open(x, k)' /\ attempt'[x][k].token = x
  PROVE  Inv' /\ Final
<1>1. run' \in [Executions -> Run] /\ run'[x] = r /\ \A y \in Executions : y # x => run'[y] = run[y]
  BY OneRun DEF Inv
<1>2. run[x].pc # "unused"
  <2>1. ASSUME NEW k \in Kinds, Open(x, k) PROVE attempt[x][k] # NoAttempt
    BY <2>1 DEF Open, NoAttempt
  <2> QED BY <2>1 DEF Inv, ExecutionSound
<1>3. PICK j \in Jobs : run[x].job = j BY <1>2, ItsJob
<1>4. Shapes' BY <1>1 DEF Inv, Shapes
<1>5. run'[x].job = j BY <1>1, <1>3
<1>6. ReservationSound(j)'
  <2>1. ReservationSound(j) BY DEF Inv
  <2>2. UNCHANGED <<audit, ledger>> OBVIOUS
  <2>3. ASSUME audit[j] = "running"
        PROVE  LET y == ledger[j].token
               IN  /\ y \in Executions /\ run'[y].job = j
                   /\ \E k \in Kinds : Open(y, k)' /\ attempt'[y][k].token = y
    <3>1. CASE ledger[j].token = x BY <1>5, <2>3, <3>1
    <3>2. CASE ledger[j].token # x BY <1>1, <2>1, <2>3, <3>2 DEF ReservationSound, Open
    <3> QED BY <3>1, <3>2
  <2> QED BY <2>1, <2>2, <2>3 DEF ReservationSound, Open
<1>7. ArtifactSound(j)'
  <2>1. ArtifactSound(j) /\ artifact[j] \in Executions \cup {None} BY DEF Inv, Shapes
  <2>2. UNCHANGED <<audit, ledger, artifact>> OBVIOUS
  <2>3. artifact[j] # None => artifact[j] # x BY <2>1 DEF ArtifactSound, Open
  <2> QED BY <1>1, <2>1, <2>2, <2>3 DEF ArtifactSound, Spent
<1>8. ConcurrencyKept' BY CountsKept DEF Running, CallsToday
<1>9. Inv' BY <1>1, <1>3, <1>4, <1>5, <1>6, <1>7, <1>8, SlotStep
<1>10. Final BY DEF Final
<1> QED BY <1>9, <1>10

LEMMA MarksRunning == ASSUME Inv, NEW x \in Executions, MarkRunning(x) PROVE Inv' /\ Final
<1> DEFINE row == [attempt[x]["generate"] EXCEPT !.status = "running"]
           r   == [run[x] EXCEPT !.pc = "generating"]
<1>1. run[x] \in Run /\ attempt[x]["generate"] \in Attempt BY Rows DEF Inv, Kinds
<1>2. row \in Attempt /\ row.status = "running" /\ row.token = attempt[x]["generate"].token
  BY <1>1 DEF Attempt
<1>3. r \in Run /\ r.job = run[x].job /\ r.pc = "generating" BY <1>1 DEF Run
<1>4. /\ run[x].pc = "reserved" /\ run' = [run EXCEPT ![x] = r]
      /\ attempt' = [attempt EXCEPT ![x]["generate"] = row]
      /\ UNCHANGED <<job, audit, ledger, artifact, faults>>
  BY DEF MarkRunning
<1> HIDE DEF row, r
<1>5. /\ attempt' \in [Executions -> [Kinds -> Attempt]] /\ attempt'[x]["generate"] = row
      /\ attempt'[x]["reviewer"] = attempt[x]["reviewer"]
      /\ \A y \in Executions : y # x => attempt'[y] = attempt[y]
  BY <1>2, <1>4, OneAttempt DEF Inv, Kinds
<1>6. run'[x] = r BY <1>3, <1>4, OneRun DEF Inv
<1>7. attempt[x]["reviewer"] = NoAttempt /\ run[x].job # None
  BY <1>4 DEF Inv, ExecutionSound
<1>8. ExecutionSound(x)' BY <1>3, <1>5, <1>6, <1>7 DEF ExecutionSound
<1>9. faults' \in 0..MaxFaults BY <1>4 DEF Inv, Shapes
<1>10. ASSUME NEW j \in Jobs, audit[j] = "running", ledger[j].token = x
       PROVE  \E k \in Kinds : Open(x, k)' /\ attempt'[x][k].token = x
  <2>1. \E k \in Kinds : Open(x, k) /\ attempt[x][k].token = x
    BY <1>10 DEF Inv, ReservationSound
  <2>2. attempt[x]["generate"].token = x
    BY <1>7, <2>1 DEF Kinds, Open, NoAttempt
  <2> QED BY <1>2, <1>5, <2>2 DEF Open, Kinds
<1> QED BY <1>3, <1>4, <1>5, <1>8, <1>9, <1>10, AttemptStep

\* The generation is done and its review begins.
LEMMA Checkpoints ==
  ASSUME Inv, NEW x \in Executions, NEW cost \in Costs, Checkpoint(x, cost) PROVE Inv' /\ Final
<1> DEFINE done   == [attempt[x]["generate"] EXCEPT !.status = "succeeded", !.cost = cost]
           review == [NoAttempt EXCEPT !.status = "running", !.token = x]
           both   == [attempt[x] EXCEPT !["generate"] = done, !["reviewer"] = review]
           r      == [run[x] EXCEPT !.pc = "reviewing"]
<1>1. /\ run[x] \in Run /\ attempt[x]["generate"] \in Attempt
      /\ attempt[x] \in [Kinds -> Attempt]
  BY Rows DEF Inv, Kinds
<1>2. done \in Attempt /\ done.status = "succeeded" BY <1>1, Numbers DEF Attempt
<1>3. review \in Attempt /\ review.status = "running" /\ review.token = x
  BY DEF NoAttempt, Attempt
<1>4. r \in Run /\ r.job = run[x].job /\ r.pc = "reviewing" BY <1>1 DEF Run
<1>5. /\ run[x].pc = "generating" /\ run' = [run EXCEPT ![x] = r]
      /\ attempt' = [attempt EXCEPT ![x] = both]
      /\ UNCHANGED <<job, audit, ledger, artifact, faults>>
  BY DEF Checkpoint, Calling
<1> HIDE DEF done, review, r
<1>6. both \in [Kinds -> Attempt] /\ both["generate"] = done /\ both["reviewer"] = review
  BY <1>1, <1>2, <1>3 DEF Kinds
<1> HIDE DEF both
<1>7. /\ attempt' \in [Executions -> [Kinds -> Attempt]] /\ attempt'[x] = both
      /\ \A y \in Executions : y # x => attempt'[y] = attempt[y]
  BY <1>5, <1>6 DEF Inv, Shapes
<1>8. run'[x] = r BY <1>4, <1>5, OneRun DEF Inv
<1>9. ExecutionSound(x)'
  <2>1. run[x].job # None BY <1>5 DEF Inv, ExecutionSound
  <2> QED BY <1>2, <1>4, <1>6, <1>7, <1>8, <2>1 DEF ExecutionSound
<1>10. faults' \in 0..MaxFaults BY <1>5 DEF Inv, Shapes
<1>11. \E k \in Kinds : Open(x, k)' /\ attempt'[x][k].token = x
  BY <1>3, <1>6, <1>7 DEF Open, Kinds
<1> QED BY <1>4, <1>5, <1>7, <1>9, <1>10, <1>11, AttemptStep

LEMMA Expires ==
  ASSUME Inv, NEW x \in Executions, NEW k \in Kinds, LeaseExpires(x, k) PROVE Inv' /\ Final
<1> DEFINE row == [attempt[x][k] EXCEPT !.expired = TRUE]
<1>1. run[x] \in Run /\ attempt[x][k] \in Attempt BY Rows DEF Inv
<1>2. row \in Attempt /\ row.status = attempt[x][k].status /\ row.token = attempt[x][k].token
  BY <1>1 DEF Attempt
<1>3. /\ Open(x, k) /\ attempt' = [attempt EXCEPT ![x][k] = row]
      /\ UNCHANGED <<job, audit, ledger, artifact, run>>
  BY DEF LeaseExpires
<1> HIDE DEF row
<1>4. /\ attempt' \in [Executions -> [Kinds -> Attempt]] /\ attempt'[x][k] = row
      /\ \A i \in Kinds : i # k => attempt'[x][i] = attempt[x][i]
      /\ \A y \in Executions : y # x => attempt'[y] = attempt[y]
  BY <1>2, <1>3, OneAttempt DEF Inv
<1>5. run' = [run EXCEPT ![x] = run[x]] BY <1>3 DEF Inv, Shapes
<1>6. ExecutionSound(x)'
  <2>1. ExecutionSound(x) /\ attempt[x][k] # NoAttempt
    BY <1>3 DEF Inv, Open, NoAttempt
  <2> QED BY <1>2, <1>3, <1>4, <2>1 DEF ExecutionSound, Kinds
<1>7. faults' \in 0..MaxFaults
  <2>1. Fault("stall") \/ Fault("slow_provider") \/ UNCHANGED faults BY DEF LeaseExpires
  <2>2. CASE UNCHANGED faults BY <2>2 DEF Inv, Shapes
  <2>3. CASE Fault("stall") BY <2>3, FaultType DEF Inv
  <2>4. CASE Fault("slow_provider") BY <2>4, FaultType DEF Inv
  <2> QED BY <2>1, <2>2, <2>3, <2>4
<1>8. ASSUME NEW j \in Jobs, audit[j] = "running", ledger[j].token = x
      PROVE  \E i \in Kinds : Open(x, i)' /\ attempt'[x][i].token = x
  <2>1. PICK i \in Kinds : Open(x, i) /\ attempt[x][i].token = x
    BY <1>8 DEF Inv, ReservationSound
  <2> QED BY <1>2, <1>4, <2>1 DEF Open
<1> QED BY <1>1, <1>3, <1>4, <1>5, <1>6, <1>7, <1>8, AttemptStep

-----------------------------------------------------------------------------
(* Steps that end a reservation.                                           *)

\* The audit and the ledger of a reservation are written together.
LEMMA SlotCloses ==
  ASSUME Inv, NEW x \in Executions, NEW j \in Jobs, run[x].job = j, ledger[j].status = "reserved",
         NEW r \in Run, run' = [run EXCEPT ![x] = r], r.job = j,
         attempt' \in [Executions -> [Kinds -> Attempt]],
         \A y \in Executions : y # x => attempt'[y] = attempt[y],
         NEW a \in {"failed", "succeeded"}, audit' = [audit EXCEPT ![j] = a],
         NEW l, DOMAIN l = {"status", "reserved", "actual", "token"},
         l.status \in {"settled", "released"}, ledger' = [ledger EXCEPT ![j] = l],
         NEW w \in Executions \cup {None}, artifact' = [artifact EXCEPT ![j] = w],
         UNCHANGED <<job, faults>>, ExecutionSound(x)', ArtifactSound(j)'
  PROVE  Inv' /\ Final
<1>1. run' \in [Executions -> Run] /\ run'[x] = r /\ \A y \in Executions : y # x => run'[y] = run[y]
  BY OneRun DEF Inv
<1>2. /\ audit' \in [Jobs -> AuditStatuses] /\ audit'[j] = a
      /\ \A i \in Jobs : i # j => audit'[i] = audit[i]
  BY DEF Inv, Shapes, AuditStatuses
<1>3. DOMAIN ledger' = Jobs /\ ledger'[j] = l /\ \A i \in Jobs : i # j => ledger'[i] = ledger[i]
  BY DEF Inv, Shapes
<1>4. artifact' \in [Jobs -> Executions \cup {None}] /\ \A i \in Jobs : i # j => artifact'[i] = artifact[i]
  BY DEF Inv, Shapes
<1>5. Shapes'
  <2>1. \A i \in Jobs : DOMAIN ledger'[i] = {"status", "reserved", "actual", "token"}
                        /\ ledger'[i].status \in LedgerStatuses
    BY <1>3 DEF Inv, Shapes, LedgerStatuses
  <2> QED BY <1>1, <1>2, <1>3, <1>4, <2>1 DEF Inv, Shapes
<1>6. ReservationSound(j)'
  <2>1. audit'[j] # "running" /\ ledger'[j].status # "reserved" BY <1>2, <1>3
  <2> QED BY <2>1 DEF ReservationSound
<1>7. audit[j] = "running" BY DEF Inv, ReservationSound
<1>8. ConcurrencyKept'
  <2>1. Running' \subseteq Running BY <1>2 DEF Running
  <2>2. CallsToday' \subseteq CallsToday BY <1>3 DEF CallsToday
  <2> QED BY <2>1, <2>2, CountsKept
<1>9. run'[x].job = j BY <1>1
<1>10. Inv'
  BY <1>1, <1>2, <1>3, <1>4, <1>5, <1>6, <1>8, <1>9, SlotStep
<1>11. Final BY <1>2, <1>3, <1>4, <1>7 DEF Final
<1> QED BY <1>10, <1>11

LEMMA Settles ==
  ASSUME Inv, NEW x \in Executions, NEW k \in Kinds, NEW cost \in Costs, Settle(x, k, cost)
  PROVE  Inv' /\ Final
<1>1. PICK j \in Jobs : run[x].job = j BY ItsJob DEF Settle, Calling
<1> DEFINE row   == [attempt[x][k] EXCEPT !.status = "succeeded", !.cost = cost]
           r     == [run[x] EXCEPT !.pc = "returned", !.result = "success"]
           total == cost + IF k = "reviewer" THEN attempt[x]["generate"].cost ELSE 0
           l     == [ledger[j] EXCEPT !.status = "settled", !.reserved = 0, !.actual = total]
<1>2. /\ run[x] \in Run /\ \A i \in Kinds : attempt[x][i] \in Attempt
      /\ DOMAIN ledger[j] = {"status", "reserved", "actual", "token"}
  BY Rows DEF Inv, Shapes
<1>3. row \in Attempt /\ row.status = "succeeded" /\ row.cost = cost
  BY <1>2, Numbers DEF Attempt
<1>4. r \in Run /\ r.job = j /\ r.pc = "returned" BY <1>1, <1>2 DEF Run
<1>5. /\ run' = [run EXCEPT ![x] = r] /\ attempt' = [attempt EXCEPT ![x][k] = row]
      /\ audit' = [audit EXCEPT ![j] = "succeeded"] /\ artifact' = [artifact EXCEPT ![j] = x]
      /\ UNCHANGED <<job, faults>>
  BY <1>1 DEF Settle, Return
<1>6. ledger' = [ledger EXCEPT ![j] = l] BY <1>1 DEF Settle
<1>7. Calling(x, k) /\ ledger[j].status = "reserved" /\ ledger[j].token = x
  BY <1>1 DEF Settle, Holds, OwnLedger
<1>8. /\ DOMAIN l = {"status", "reserved", "actual", "token"} /\ l.status = "settled"
      /\ l.actual = total /\ l.token = x
  BY <1>2, <1>7
<1> HIDE DEF row, r, l
<1>9. /\ attempt' \in [Executions -> [Kinds -> Attempt]] /\ attempt'[x][k] = row
      /\ \A i \in Kinds : i # k => attempt'[x][i] = attempt[x][i]
      /\ \A y \in Executions : y # x => attempt'[y] = attempt[y]
  BY <1>3, <1>5, OneAttempt DEF Inv
<1>10. run'[x] = r BY <1>4, <1>5, OneRun DEF Inv
<1>11. ExecutionSound(x)' BY <1>1, <1>4, <1>10, Numbers DEF ExecutionSound
<1>12. audit'[j] = "succeeded" /\ artifact'[j] = x /\ ledger'[j] = l /\ x # None
  BY <1>5, <1>6, Numbers DEF Inv, Shapes
<1>13. Spent(x)' = total /\ \A i \in Kinds : attempt'[x][i].status \in {"none", "succeeded"}
  <2>1. CASE k = "generate"
    <3>1. attempt[x]["reviewer"] = NoAttempt
      BY <1>7, <2>1 DEF Inv, ExecutionSound, Calling
    <3>2. attempt'[x]["generate"] = row /\ attempt'[x]["reviewer"] = NoAttempt
      BY <1>9, <2>1, <3>1 DEF Kinds
    <3>3. total = cost /\ cost \in Nat BY <2>1, Numbers
    <3>4. Spent(x)' = total BY <1>3, <3>2, <3>3, NewRows DEF Spent
    <3> QED BY <1>3, <3>2, <3>4 DEF Kinds, NoAttempt
  <2>2. CASE k = "reviewer"
    <3>1. attempt[x]["generate"].status = "succeeded"
      BY <1>7, <2>2 DEF Inv, ExecutionSound, Calling
    <3>2. attempt'[x]["reviewer"] = row /\ attempt'[x]["generate"] = attempt[x]["generate"]
      BY <1>9, <2>2 DEF Kinds
    <3>3. attempt[x]["generate"].cost \in Nat /\ cost \in Nat BY <1>2, Numbers DEF Kinds, Attempt
    <3>4. Spent(x)' = total BY <1>3, <2>2, <3>2, <3>3 DEF Spent
    <3> QED BY <1>3, <3>1, <3>2, <3>4 DEF Kinds
  <2> QED BY <2>1, <2>2 DEF Kinds
<1> HIDE DEF total
<1>14. ArtifactSound(j)'
  BY <1>4, <1>8, <1>10, <1>12, <1>13 DEF ArtifactSound
<1> QED BY <1>1, <1>4, <1>5, <1>6, <1>7, <1>8, <1>9, <1>11, <1>14, SlotCloses

LEMMA Fails ==
  ASSUME Inv, NEW x \in Executions, NEW k \in Kinds, FailCall(x, k) PROVE Inv' /\ Final
<1>1. PICK j \in Jobs : run[x].job = j BY ItsJob DEF FailCall, Calling
<1>2. PICK result \in {"retriable", "permanent"} : Return(x, result) BY DEF FailCall
<1> DEFINE row == [attempt[x][k] EXCEPT !.status = IF Open(x, k) THEN "failed" ELSE @]
           r   == [run[x] EXCEPT !.pc = "returned", !.result = result]
           l   == [ledger[j] EXCEPT !.status = IF SpentOn(j) > 0 THEN "settled" ELSE "released",
                                    !.reserved = 0, !.actual = SpentOn(j)]
<1>3. /\ run[x] \in Run /\ attempt[x][k] \in Attempt
      /\ DOMAIN ledger[j] = {"status", "reserved", "actual", "token"}
  BY Rows DEF Inv, Shapes
<1>4. row \in Attempt BY <1>3 DEF Attempt
<1>5. r \in Run /\ r.job = j /\ r.pc = "returned" BY <1>1, <1>3 DEF Run
<1>6. /\ run' = [run EXCEPT ![x] = r] /\ attempt' = [attempt EXCEPT ![x][k] = row]
      /\ audit' = [audit EXCEPT ![j] = "failed"] /\ ledger' = [ledger EXCEPT ![j] = l]
      /\ UNCHANGED <<job, artifact, faults>>
  BY <1>1, <1>2 DEF FailCall, Return
<1>7. ledger[j].status = "reserved" BY <1>1 DEF FailCall, OwnLedger
<1>8. DOMAIN l = {"status", "reserved", "actual", "token"} /\ l.status \in {"settled", "released"}
  BY <1>3
<1> HIDE DEF row, r, l
<1>9. /\ attempt' \in [Executions -> [Kinds -> Attempt]]
      /\ \A y \in Executions : y # x => attempt'[y] = attempt[y]
  BY <1>4, <1>6, OneAttempt DEF Inv
<1>10. run'[x] = r BY <1>5, <1>6, OneRun DEF Inv
<1>11. ExecutionSound(x)' BY <1>1, <1>5, <1>10, Numbers DEF ExecutionSound
<1>12. artifact[j] = None /\ artifact \in [Jobs -> Executions \cup {None}]
  BY <1>7 DEF Inv, Shapes, ReservationSound, ArtifactSound
<1>13. artifact' = [artifact EXCEPT ![j] = None] BY <1>6, <1>12
<1>14. ArtifactSound(j)'
  <2>1. audit'[j] = "failed" /\ artifact'[j] = None BY <1>6, <1>12 DEF Inv, Shapes
  <2> QED BY <2>1 DEF ArtifactSound
<1> QED BY <1>1, <1>5, <1>6, <1>7, <1>8, <1>9, <1>11, <1>13, <1>14, SlotCloses

LEMMA Recovers ==
  ASSUME Inv, NEW x \in Executions, NEW k \in Kinds, RecoverAttempt(x, k) PROVE Inv' /\ Final
<1> DEFINE row == [attempt[x][k] EXCEPT !.status = "abandoned", !.token = None]
<1>1. run[x] \in Run /\ attempt[x][k] \in Attempt BY Rows DEF Inv
<1>2. row \in Attempt /\ row.status = "abandoned" BY <1>1 DEF Attempt
<1>3. /\ Open(x, k) /\ attempt' = [attempt EXCEPT ![x][k] = row]
      /\ UNCHANGED <<job, artifact, run, faults>>
  BY DEF RecoverAttempt
<1> HIDE DEF row
<1>4. /\ attempt' \in [Executions -> [Kinds -> Attempt]] /\ attempt'[x][k] = row
      /\ \A i \in Kinds : i # k => attempt'[x][i] = attempt[x][i]
      /\ \A y \in Executions : y # x => attempt'[y] = attempt[y]
  BY <1>2, <1>3, OneAttempt DEF Inv
<1>5. run' = [run EXCEPT ![x] = run[x]] BY <1>3 DEF Inv, Shapes
<1>6. ExecutionSound(x) /\ attempt[x][k].status \in {"reserved", "running"} /\ attempt[x][k] # NoAttempt
  BY <1>3 DEF Inv, Open, NoAttempt
<1>7. ExecutionSound(x)' BY <1>3, <1>4, <1>6 DEF ExecutionSound, Kinds
<1>8. PICK j \in Jobs : run[x].job = j
  <2>1. run[x].pc # "unused" BY <1>6 DEF ExecutionSound
  <2> QED BY <2>1, ItsJob
<1>9. /\ audit' = [audit EXCEPT ![j] = IF @ = "running" THEN "failed" ELSE @]
      /\ ledger' = IF ledger[j].status # "reserved" THEN ledger
                   ELSE [ledger EXCEPT ![j].status = "released", ![j].reserved = 0, ![j].token = None]
  BY <1>8 DEF RecoverAttempt
<1>10. audit[j] = "running" <=> ledger[j].status = "reserved" BY DEF Inv, ReservationSound
<1>11. ArtifactSound(j) /\ artifact[j] \in Executions \cup {None} BY DEF Inv, Shapes
<1>12. CASE ledger[j].status = "reserved"
  <2> DEFINE l == [ledger[j] EXCEPT !.status = "released", !.reserved = 0, !.token = None]
  <2>1. DOMAIN ledger[j] = {"status", "reserved", "actual", "token"} BY DEF Inv, Shapes
  <2>2. DOMAIN l = {"status", "reserved", "actual", "token"} /\ l.status = "released" BY <2>1
  <2>3. ledger' = [ledger EXCEPT ![j] = l] BY <1>9, <1>12
  <2> HIDE DEF l
  <2>4. audit' = [audit EXCEPT ![j] = "failed"] BY <1>9, <1>10, <1>12
  <2>5. artifact[j] = None BY <1>10, <1>11, <1>12 DEF ArtifactSound
  <2>6. artifact' = [artifact EXCEPT ![j] = None] BY <1>3, <2>5 DEF Inv, Shapes
  <2>7. ArtifactSound(j)'
    <3>1. audit'[j] = "failed" /\ artifact'[j] = None BY <1>3, <2>4, <2>5 DEF Inv, Shapes
    <3> QED BY <3>1 DEF ArtifactSound
  <2> QED BY <1>1, <1>3, <1>4, <1>5, <1>7, <1>8, <1>12, <2>2, <2>3, <2>4, <2>6, <2>7, SlotCloses
<1>13. CASE ledger[j].status # "reserved"
  <2>1. UNCHANGED <<audit, ledger>> BY <1>9, <1>10, <1>13 DEF Inv, Shapes
  <2>2. ASSUME NEW i \in Jobs, audit[i] = "running", ledger[i].token = x PROVE FALSE
    <3>1. run[x].job = i /\ ledger[i].status = "reserved" BY <2>2 DEF Inv, ReservationSound
    <3> QED BY <1>8, <1>13, <3>1
  <2>3. faults' \in 0..MaxFaults BY <1>3 DEF Inv, Shapes
  <2> QED BY <1>1, <1>3, <1>4, <1>5, <1>7, <2>1, <2>2, <2>3, AttemptStep
<1> QED BY <1>12, <1>13

-----------------------------------------------------------------------------
(* The invariant.                                                          *)

LEMMA InvStep == Inv /\ [Next]_vars => Inv' /\ (Final \/ UNCHANGED vars)
<1> SUFFICES ASSUME Inv, [Next]_vars PROVE Inv' /\ (Final \/ UNCHANGED vars) OBVIOUS
<1>1. ASSUME NEW x \in Executions, ExecutionStep(x) PROVE Inv' /\ Final
  <2>1. CASE ReuseArtifact(x) BY <2>1, Ends
  <2>2. CASE Deny(x) BY <2>2, Ends
  <2>3. CASE Reserve(x) BY <2>3, Reserves
  <2>4. CASE MarkRunning(x) BY <2>4, MarksRunning
  <2>5. ASSUME NEW k \in Kinds, LoseFencing(x, k) \/ FailUnfenced(x, k) PROVE Inv' /\ Final
    BY <2>5, Ends
  <2>6. ASSUME NEW k \in Kinds, FailCall(x, k) PROVE Inv' /\ Final BY <2>6, Fails
  <2>7. ASSUME NEW cost \in Costs, Checkpoint(x, cost) PROVE Inv' /\ Final BY <2>7, Checkpoints
  <2>8. ASSUME NEW cost \in Costs, NEW k \in Kinds, Settle(x, k, cost) PROVE Inv' /\ Final
    BY <2>8, Settles
  <2>9. CASE EndJob(x) BY <2>9, EndJobs
  <2> QED BY <1>1, <2>1, <2>2, <2>3, <2>4, <2>5, <2>6, <2>7, <2>8, <2>9 DEF ExecutionStep
<1>2. ASSUME NEW x \in Executions, WorkerDies(x) PROVE Inv' /\ Final BY <1>2, Dies
<1>3. ASSUME NEW x \in Executions, NEW j \in Jobs, Deliver(x, j) PROVE Inv' /\ Final
  BY <1>3, Delivers
<1>4. ASSUME NEW x \in Executions, NEW k \in Kinds, LeaseExpires(x, k) PROVE Inv' /\ Final
  BY <1>4, Expires
<1>5. ASSUME NEW x \in Executions, NEW k \in Kinds, RecoverAttempt(x, k) PROVE Inv' /\ Final
  BY <1>5, Recovers
<1>6. ASSUME NEW j \in Jobs, RecoverJob(j) PROVE Inv' /\ Final BY <1>6, RecoversJob
<1>7. CASE UNCHANGED vars
  <2>1. UNCHANGED <<job, audit, ledger, attempt, artifact, run>> BY <1>7 DEF vars
  <2>2. job' \in [Jobs -> Job] /\ faults' \in 0..MaxFaults BY <1>7 DEF vars, Inv, Shapes
  <2> QED BY <2>1, <2>2, JobOnly
<1> QED BY <1>1, <1>2, <1>3, <1>4, <1>5, <1>6, <1>7 DEF Next

LEMMA InvAlways == Spec => []Inv
<1>1. Inv /\ [Next]_vars => Inv' BY InvStep
<1> QED BY InvInit, <1>1, PTL DEF Spec

-----------------------------------------------------------------------------
(* Amounts.                                                                *)

Amount == [j \in Jobs |-> Committed(j)]

\* What one call costs is allowed for; what is reserved is the reservation, and
\* what is reserved or was spent with success fits in the budget.
Amounts ==
  /\ ledger \in [Jobs -> Ledger]
  /\ \A x \in Executions, k \in Kinds : attempt[x][k].cost \in Costs \cup {0}
  /\ \A j \in Jobs : ledger[j].status = "reserved" => ledger[j].reserved = Reservation
  /\ BudgetKept

LEMMA ChargedNat ==
  ASSUME ledger \in [Jobs -> Ledger], NEW j \in Jobs
  PROVE  Charged(j) \in Nat /\ Committed(j) \in Nat /\ Committed(j) <= Charged(j)
BY DEF Ledger, Charged, Committed, Larger

LEMMA BudgetIsSum == BudgetKept <=> SumFunctionOnSet(Amount, Jobs) <= HardBudget
BY DEF BudgetKept, Amount, SumFunction

\* What no slot takes more of is kept.
LEMMA BudgetNotGrown ==
  ASSUME Amounts, ledger' \in [Jobs -> Ledger], \A j \in Jobs : Committed(j)' <= Committed(j)
  PROVE  BudgetKept'
<1>1. \A j \in Jobs : Amount[j] \in Nat /\ Amount'[j] \in Nat /\ Amount'[j] <= Amount[j]
  <2>1. \A j \in Jobs : Committed(j) \in Nat BY ChargedNat DEF Amounts
  <2>2. \A j \in Jobs : Committed(j)' \in Nat
    BY DEF Ledger, Charged, Committed, Larger
  <2> QED BY <2>1, <2>2 DEF Amount
<1>2. SumFunctionOnSet(Amount', Jobs) <= SumFunctionOnSet(Amount, Jobs)
  BY <1>1, Numbers, SumMonotone
<1>3. SumFunctionOnSet(Amount, Jobs) \in Nat /\ SumFunctionOnSet(Amount', Jobs) \in Nat
  BY <1>1, Numbers, SumNat
<1>4. SumFunctionOnSet(Amount, Jobs) <= HardBudget BY BudgetIsSum DEF Amounts
<1>5. SumFunctionOnSet(Amount', Jobs) <= HardBudget BY <1>2, <1>3, <1>4, AIAssumption DEF ConstantsOK
<1> QED BY <1>5, BudgetIsSum DEF BudgetKept, Amount, SumFunction

LEMMA AmountsUntouched ==
  ASSUME Amounts, UNCHANGED <<audit, ledger>>,
         \A x \in Executions, k \in Kinds : attempt'[x][k].cost \in Costs \cup {0}
  PROVE  Amounts'
BY DEF Amounts, BudgetKept, Committed, Charged

LEMMA AmountsInit == Init => Amounts
<1> SUFFICES ASSUME Init PROVE Amounts OBVIOUS
<1>1. /\ ledger \in [Jobs -> Ledger]
      /\ \A j \in Jobs : ledger[j].status # "reserved" /\ audit[j] = "none"
  BY DEF Init, Ledger
<1>2. \A x \in Executions, k \in Kinds : attempt[x][k].cost = 0 BY DEF Init, NoAttempt
<1>3. BudgetKept
  <2>1. \A j \in Jobs : Amount[j] = 0 BY <1>1 DEF Amount, Committed
  <2>2. SumFunctionOnSet(Amount, Jobs) = 0 BY <2>1, Numbers, SumOfNothing
  <2> QED BY <2>2, BudgetIsSum, AIAssumption DEF ConstantsOK
<1> QED BY <1>1, <1>2, <1>3 DEF Amounts

LEMMA SpentOnNat == ASSUME Shapes, NEW j \in Jobs PROVE SpentOn(j) \in Nat
<1> DEFINE f == [x \in Executions |-> Spent(x)]
           S == {x \in Executions : run[x].job = j}
<1>1. \A x \in S : f[x] \in Nat BY Rows DEF Spent, Kinds, Attempt
<1>2. IsFiniteSet(S)
  <2>1. IsFiniteSet(Executions) BY AIAssumption, FS_Interval DEF ConstantsOK, Executions
  <2> QED BY <2>1, FS_Subset
<1> HIDE DEF f, S
<1>3. SumFunctionOnSet(f, S) \in Nat BY <1>1, <1>2, SumNat
<1> QED BY <1>3 DEF f, S, SpentOn

\* The budget has room for the reservation that is made.
LEMMA ReserveAmounts ==
  ASSUME Inv, Amounts, NEW x \in Executions, Reserve(x) PROVE Amounts'
<1>1. PICK j \in Jobs : run[x].job = j BY ItsJob DEF Reserve
<1> DEFINE slot == [status |-> "reserved", reserved |-> Reservation, actual |-> 0, token |-> x]
<1>2. /\ audit[j] \in {"none", "failed"} /\ audit' = [audit EXCEPT ![j] = "running"]
      /\ ledger' = [ledger EXCEPT ![j] = slot] /\ MonthlyCost + Reservation <= HardBudget
  BY <1>1 DEF Reserve, QuotaLeft
<1>3. slot \in Ledger BY AIAssumption DEF ConstantsOK, Ledger
<1>4. /\ ledger' \in [Jobs -> Ledger] /\ ledger'[j] = slot /\ audit'[j] = "running"
      /\ \A i \in Jobs : i # j => ledger'[i] = ledger[i] /\ audit'[i] = audit[i]
  BY <1>2, <1>3 DEF Amounts, Inv, Shapes
<1>5. \A y \in Executions, k \in Kinds : attempt'[y][k].cost \in Costs \cup {0}
  <2>1. attempt' = [attempt EXCEPT ![x]["generate"] =
                      [NoAttempt EXCEPT !.status = "reserved", !.token = x]]
    BY DEF Reserve
  <2>2. [NoAttempt EXCEPT !.status = "reserved", !.token = x].cost = 0 BY DEF NoAttempt
  <2> QED BY <2>1, <2>2 DEF Amounts, Inv, Shapes
<1>6. \A i \in Jobs : ledger'[i].status = "reserved" => ledger'[i].reserved = Reservation
  BY <1>4 DEF Amounts
<1>7. BudgetKept'
  <2> DEFINE c == [i \in Jobs |-> Charged(i)]
             others == Jobs \ {j}
  <2>1. \A i \in Jobs : c[i] \in Nat /\ Amount'[i] \in Nat
    <3>1. \A i \in Jobs : Charged(i) \in Nat /\ Committed(i)' \in Nat
      BY <1>4 DEF Amounts, Ledger, Charged, Committed, Larger
    <3> QED BY <3>1 DEF Amount
  <2>2. Amount'[j] = Reservation
    BY <1>4, AIAssumption DEF ConstantsOK, Amount, Committed, Charged, Larger
  <2>3. \A i \in others : Amount'[i] <= c[i]
    <3>1. \A i \in others : Committed(i)' = Committed(i)
      BY <1>4 DEF Committed, Charged
    <3>2. \A i \in others : Committed(i) <= Charged(i) BY ChargedNat DEF Amounts
    <3> QED BY <3>1, <3>2 DEF Amount
  <2>4. IsFiniteSet(Jobs) /\ IsFiniteSet(others) BY Numbers, FS_Subset
  <2>5. SumFunctionOnSet(c, Jobs) + Reservation <= HardBudget
    BY <1>2 DEF MonthlyCost, SumFunction
  <2> HIDE DEF c, others
  <2>6. SumFunctionOnSet(Amount', Jobs) = Reservation + SumFunctionOnSet(Amount', others)
    BY <2>1, <2>2, <2>4, SumRemoves DEF others
  <2>7. SumFunctionOnSet(c, Jobs) = c[j] + SumFunctionOnSet(c, others)
    BY <2>1, <2>4, SumRemoves DEF others
  <2>8. SumFunctionOnSet(Amount', others) <= SumFunctionOnSet(c, others)
    BY <2>1, <2>3, <2>4, SumMonotone DEF others
  <2>9. SumFunctionOnSet(Amount', others) \in Nat /\ SumFunctionOnSet(c, others) \in Nat
    BY <2>1, <2>4, SumNat DEF others
  <2>10. SumFunctionOnSet(Amount', Jobs) <= HardBudget
    BY <2>1, <2>5, <2>6, <2>7, <2>8, <2>9, AIAssumption DEF ConstantsOK
  <2> QED BY <2>10 DEF BudgetKept, Amount, SumFunction
<1> QED BY <1>4, <1>5, <1>6, <1>7 DEF Amounts

\* A slot that is written takes no more than before: what succeeds costs no
\* more than was reserved for it.
LEMMA SlotAmounts ==
  ASSUME Inv, Amounts, NEW j \in Jobs, NEW l \in Ledger,
         l.status # "reserved", NEW status \in {"failed", "succeeded"},
         audit' = [audit EXCEPT ![j] = status], ledger' = [ledger EXCEPT ![j] = l],
         ledger[j].status = "reserved",
         status = "succeeded" => l.reserved = 0 /\ l.actual <= Reservation,
         \A x \in Executions, k \in Kinds : attempt'[x][k].cost \in Costs \cup {0}
  PROVE  Amounts'
<1>1. /\ ledger' \in [Jobs -> Ledger] /\ ledger'[j] = l /\ audit'[j] = status
      /\ \A i \in Jobs : i # j => ledger'[i] = ledger[i] /\ audit'[i] = audit[i]
  BY DEF Amounts, Inv, Shapes
<1>2. \A i \in Jobs : ledger'[i].status = "reserved" => ledger'[i].reserved = Reservation
  BY <1>1 DEF Amounts
<1>3. ASSUME NEW i \in Jobs PROVE Committed(i)' <= Committed(i)
  <2>1. CASE i # j
    <3>1. Committed(i)' = Committed(i) BY <1>1, <2>1 DEF Committed, Charged
    <3>2. Committed(i) \in Nat BY ChargedNat DEF Amounts
    <3> QED BY <3>1, <3>2
  <2>2. CASE i = j
    <3>1. audit[j] = "running" /\ ledger[j].reserved = Reservation
      BY DEF Inv, ReservationSound, Amounts
    <3>2. ledger[j].actual \in Nat /\ l.actual \in Nat BY DEF Amounts, Ledger
    <3>3. Committed(j) >= Reservation /\ Committed(j) \in Nat
      BY <3>1, <3>2, AIAssumption DEF ConstantsOK, Committed, Charged, Larger
    <3>4. Committed(j)' <= Reservation
      BY <1>1, <3>2, AIAssumption DEF ConstantsOK, Committed, Charged, Larger
    <3>5. Committed(j)' \in Nat BY <1>1 DEF Committed, Charged, Larger, Ledger
    <3> QED BY <2>2, <3>3, <3>4, <3>5, AIAssumption DEF ConstantsOK
  <2> QED BY <2>1, <2>2
<1>4. BudgetKept' BY <1>1, <1>3, BudgetNotGrown
<1> QED BY <1>1, <1>2, <1>4 DEF Amounts

LEMMA SettleAmounts ==
  ASSUME Inv, Amounts, NEW x \in Executions, NEW k \in Kinds, NEW cost \in Costs, Settle(x, k, cost)
  PROVE  Amounts'
<1>1. PICK j \in Jobs : run[x].job = j BY ItsJob DEF Settle, Calling
<1> DEFINE total == cost + IF k = "reviewer" THEN attempt[x]["generate"].cost ELSE 0
           l     == [ledger[j] EXCEPT !.status = "settled", !.reserved = 0, !.actual = total]
<1>2. /\ audit' = [audit EXCEPT ![j] = "succeeded"] /\ ledger' = [ledger EXCEPT ![j] = l]
      /\ attempt' = [attempt EXCEPT ![x][k].status = "succeeded", ![x][k].cost = cost]
      /\ ledger[j].status = "reserved"
  BY <1>1 DEF Settle, Holds, OwnLedger
<1>3. total \in Nat /\ total <= Reservation
  <2>1. attempt[x]["generate"].cost \in Costs \cup {0} BY DEF Amounts, Kinds
  <2>2. /\ Costs \subseteq Nat /\ Reservation \in Nat
        /\ \A c, d \in Costs : c + d <= Reservation
    BY AIAssumption DEF ConstantsOK
  <2>3. cost \in Nat /\ cost + cost <= Reservation BY <2>2
  <2>4. cost <= Reservation BY <2>2, <2>3
  <2>5. CASE k = "reviewer" /\ attempt[x]["generate"].cost \in Costs
    <3>1. total = cost + attempt[x]["generate"].cost BY <2>5
    <3>2. PICK c \in Costs : c = attempt[x]["generate"].cost BY <2>5
    <3>3. c \in Nat /\ cost + c <= Reservation BY <2>2
    <3> QED BY <2>3, <3>1, <3>2, <3>3
  <2>6. CASE ~(k = "reviewer" /\ attempt[x]["generate"].cost \in Costs)
    <3>1. total = cost BY <2>1, <2>3, <2>6
    <3> QED BY <2>3, <2>4, <3>1
  <2> QED BY <2>5, <2>6
<1> HIDE DEF total
<1>4. l \in Ledger /\ l.status = "settled" /\ l.reserved = 0 /\ l.actual = total
  BY <1>3 DEF Amounts, Ledger
<1>5. \A y \in Executions, i \in Kinds : attempt'[y][i].cost \in Costs \cup {0}
  <2>1. attempt \in [Executions -> [Kinds -> Attempt]] BY DEF Inv, Shapes
  <2> QED BY <1>2, <2>1 DEF Amounts, Attempt
<1> HIDE DEF l
<1> QED BY <1>2, <1>3, <1>4, <1>5, SlotAmounts

LEMMA FailAmounts ==
  ASSUME Inv, Amounts, NEW x \in Executions, NEW k \in Kinds, FailCall(x, k) PROVE Amounts'
<1>1. PICK j \in Jobs : run[x].job = j BY ItsJob DEF FailCall, Calling
<1> DEFINE l == [ledger[j] EXCEPT !.status = IF SpentOn(j) > 0 THEN "settled" ELSE "released",
                                  !.reserved = 0, !.actual = SpentOn(j)]
<1>2. /\ audit' = [audit EXCEPT ![j] = "failed"] /\ ledger' = [ledger EXCEPT ![j] = l]
      /\ attempt' = [attempt EXCEPT ![x][k].status = IF Open(x, k) THEN "failed" ELSE @]
      /\ ledger[j].status = "reserved"
  BY <1>1 DEF FailCall, OwnLedger
<1>3. SpentOn(j) \in Nat BY SpentOnNat DEF Inv
<1>4. l \in Ledger /\ l.status # "reserved" BY <1>3 DEF Amounts, Ledger
<1>5. \A y \in Executions, i \in Kinds : attempt'[y][i].cost \in Costs \cup {0}
  <2>1. attempt \in [Executions -> [Kinds -> Attempt]] BY DEF Inv, Shapes
  <2> QED BY <1>2, <2>1 DEF Amounts, Attempt
<1> HIDE DEF l
<1> QED BY <1>2, <1>4, <1>5, SlotAmounts

LEMMA RecoverAmounts ==
  ASSUME Inv, Amounts, NEW x \in Executions, NEW k \in Kinds, RecoverAttempt(x, k) PROVE Amounts'
<1>1. PICK j \in Jobs : run[x].job = j
  <2>1. run[x].pc # "unused" BY DEF RecoverAttempt, Open, Inv, ExecutionSound, NoAttempt
  <2> QED BY <2>1, ItsJob
<1> DEFINE l == [ledger[j] EXCEPT !.status = "released", !.reserved = 0, !.token = None]
<1>2. /\ audit' = [audit EXCEPT ![j] = IF @ = "running" THEN "failed" ELSE @]
      /\ ledger' = IF ledger[j].status # "reserved" THEN ledger ELSE [ledger EXCEPT ![j] = l]
      /\ attempt' = [attempt EXCEPT ![x][k].status = "abandoned", ![x][k].token = None]
  BY <1>1 DEF RecoverAttempt
<1>3. \A y \in Executions, i \in Kinds : attempt'[y][i].cost \in Costs \cup {0}
  <2>1. attempt \in [Executions -> [Kinds -> Attempt]] BY DEF Inv, Shapes
  <2> QED BY <1>2, <2>1 DEF Amounts, Attempt
<1>4. audit[j] = "running" <=> ledger[j].status = "reserved" BY DEF Inv, ReservationSound
<1>5. CASE ledger[j].status = "reserved"
  <2>1. l \in Ledger /\ l.status # "reserved" BY DEF Amounts, Ledger
  <2>2. audit' = [audit EXCEPT ![j] = "failed"] /\ ledger' = [ledger EXCEPT ![j] = l]
    BY <1>2, <1>4, <1>5
  <2> HIDE DEF l
  <2> QED BY <1>3, <1>5, <2>1, <2>2, SlotAmounts
<1>6. CASE ledger[j].status # "reserved"
  <2>1. audit' = audit /\ ledger' = ledger BY <1>2, <1>4, <1>6 DEF Inv, Shapes
  <2> QED BY <1>3, <2>1, AmountsUntouched
<1> QED BY <1>5, <1>6

LEMMA AmountsStep == ASSUME Inv, Amounts, [Next]_vars PROVE Amounts'
<1>1. ASSUME UNCHANGED <<audit, ledger>>, UNCHANGED attempt PROVE Amounts'
  BY <1>1, AmountsUntouched DEF Amounts
<1>2. ASSUME NEW x \in Executions, ExecutionStep(x) PROVE Amounts'
  <2>1. CASE Reserve(x) BY <2>1, ReserveAmounts
  <2>2. CASE MarkRunning(x)
    <3>1. \A y \in Executions, i \in Kinds : attempt'[y][i].cost \in Costs \cup {0}
      BY <2>2 DEF MarkRunning, Inv, Shapes, Attempt, Amounts
    <3> QED BY <2>2, <3>1, AmountsUntouched DEF MarkRunning
  <2>3. ASSUME NEW k \in Kinds, FailCall(x, k) PROVE Amounts' BY <2>3, FailAmounts
  <2>4. ASSUME NEW cost \in Costs, Checkpoint(x, cost) PROVE Amounts'
    <3>1. \A y \in Executions, i \in Kinds : attempt'[y][i].cost \in Costs \cup {0}
      <4>1. attempt \in [Executions -> [Kinds -> Attempt]] BY DEF Inv, Shapes
      <4>2. [NoAttempt EXCEPT !.status = "running", !.token = x].cost = 0 BY DEF NoAttempt
      <4> QED BY <2>4, <4>1, <4>2 DEF Checkpoint, Attempt, Amounts
    <3> QED BY <2>4, <3>1, AmountsUntouched DEF Checkpoint
  <2>5. ASSUME NEW cost \in Costs, NEW k \in Kinds, Settle(x, k, cost) PROVE Amounts'
    BY <2>5, SettleAmounts
  <2>6. CASE \/ ReuseArtifact(x) \/ Deny(x) \/ EndJob(x)
             \/ \E k \in Kinds : LoseFencing(x, k) \/ FailUnfenced(x, k)
    BY <2>6, <1>1 DEF ReuseArtifact, Deny, EndJob, LoseFencing, FailUnfenced
  <2> QED BY <1>2, <2>1, <2>2, <2>3, <2>4, <2>5, <2>6 DEF ExecutionStep
<1>3. ASSUME NEW x \in Executions, NEW k \in Kinds, LeaseExpires(x, k) PROVE Amounts'
  <2>1. attempt' = [attempt EXCEPT ![x][k].expired = TRUE] /\ UNCHANGED <<audit, ledger>>
    BY <1>3 DEF LeaseExpires
  <2>2. \A y \in Executions, i \in Kinds : attempt'[y][i].cost \in Costs \cup {0}
    BY <2>1 DEF Inv, Shapes, Attempt, Amounts
  <2> QED BY <2>1, <2>2, AmountsUntouched
<1>4. ASSUME NEW x \in Executions, NEW k \in Kinds, RecoverAttempt(x, k) PROVE Amounts'
  BY <1>4, RecoverAmounts
<1>5. CASE \/ \E x \in Executions : WorkerDies(x) \/ \E j \in Jobs : Deliver(x, j)
           \/ \E j \in Jobs : RecoverJob(j)
           \/ UNCHANGED vars
  BY <1>5, <1>1 DEF WorkerDies, Deliver, RecoverJob, vars
<1> QED BY <1>2, <1>3, <1>4, <1>5 DEF Next

LEMMA AmountsAlways == Spec => []Amounts
<1>1. Inv /\ Amounts /\ [Next]_vars => Amounts' BY AmountsStep
<1> QED BY AmountsInit, InvAlways, <1>1, PTL DEF Spec

-----------------------------------------------------------------------------
(* The theorems.                                                           *)

\* Every variable stays in its type: with what a slot has spent, a sum over its
\* executions.
THEOREM TypeCorrect == Spec => []TypeOK
<1>1. Inv /\ Amounts => TypeOK BY DEF Inv, Shapes, Amounts, TypeOK, AuditStatuses
<1> QED BY InvAlways, AmountsAlways, <1>1, PTL

\* What is reserved for the executions under way fits in the month's hard budget
\* next to what the ones that succeeded cost, for any number of jobs, executions
\* and faults (service.py, _enforce_quota and the settlements).
THEOREM BudgetIsKept == Spec => []BudgetKept
<1>1. Amounts => BudgetKept BY DEF Amounts
<1> QED BY AmountsAlways, <1>1, PTL

\* A reservation and a running audit come and go together, and recovery can
\* find every reservation by an open attempt, whichever workers die, whichever
\* leases run out and however often a job is retried (service.py, execute_agent,
\* fail and recover_stale_ai_executions).
THEOREM ReservationsAreRecoverable == Spec => []ReservationsRecoverable
<1>1. Inv => ReservationsRecoverable
  <2> SUFFICES ASSUME Inv, NEW j \in Jobs
               PROVE  /\ audit[j] = "running" <=> ledger[j].status = "reserved"
                      /\ audit[j] = "running" =>
                           LET x == ledger[j].token
                           IN  /\ x # None /\ run[x].job = j
                               /\ \E k \in Kinds : Open(x, k) /\ attempt[x][k].token = x
    BY DEF ReservationsRecoverable
  <2>1. ReservationSound(j) BY DEF Inv
  <2> QED BY <2>1, Numbers DEF ReservationSound
<1> QED BY InvAlways, <1>1, PTL

\* An artefact is written with the audit's success and with the settlement of
\* what its execution spent, and none of its attempts was abandoned, for any
\* number of executions of a slot (service.py, the last transaction).
THEOREM ArtifactsAreSettled == Spec => []ArtifactsSettled
<1>1. Inv => ArtifactsSettled BY DEF Inv, ArtifactSound, ArtifactsSettled
<1> QED BY InvAlways, <1>1, PTL

\* No more executions run at a time, or are counted in a day, than the policy
\* allows, for any number of jobs (service.py, _enforce_quota).
THEOREM LimitsKept == Spec => []ConcurrencyKept
<1>1. Inv => ConcurrencyKept BY DEF Inv
<1> QED BY InvAlways, <1>1, PTL

\* What succeeded is never written again: not by a late answer, a failure or
\* the recovery of an older execution of the slot (service.py, the fencing of
\* every write by attempt token and ledger token).
THEOREM SuccessStays == Spec => SuccessIsFinal
<1> DEFINE A == \A j \in Jobs : audit[j] = "succeeded" =>
                  /\ audit'[j] = "succeeded"
                  /\ ledger'[j] = ledger[j]
                  /\ artifact'[j] = artifact[j]
<1>1. Inv /\ [Next]_vars => [A]_vars BY InvStep DEF Final
<1>2. Spec => [][A]_vars BY InvAlways, <1>1, PTL DEF Spec
<1> QED BY <1>2 DEF SuccessIsFinal
=============================================================================
