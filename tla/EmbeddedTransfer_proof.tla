------------------------- MODULE EmbeddedTransfer_proof ------------------------
(***************************************************************************)
(* Proofs about EmbeddedTransfer: type correctness, the safety invariants  *)
(* its runs check and the contract ParticleSink, for every set of ranks,   *)
(* every set of jobs and any number of calls.                              *)
(*                                                                         *)
(* The argument: every rank is on its way to one next event (Heading): a   *)
(* collective, the return of 0, or the failure of the call.  A step of one *)
(* rank between two collectives does not change where it is heading, so    *)
(* all ranks head for the same collective (Lockstep) unless one of them    *)
(* faulted on its own, and then the others never get past that collective. *)
(* Everything else follows from the position of a rank.                    *)
(***************************************************************************)
EXTENDS EmbeddedTransfer, SequenceTheorems, TLAPS

-----------------------------------------------------------------------------
(***************************************************************************)
(* The inductive invariant                                                 *)
(***************************************************************************)
InLoop    == {"species", "count", "fastdf", "batch", "batched", "sunk"}
AfterLoop == {"totals", "end", "ended", "close"}
Begun     == {"run"} \cup InLoop \cup AfterLoop
Announced == {"begin", "begun"} \cup Begun
InGenerate == {"plugin", "hints"} \cup Announced

\* A rank inside an iteration of the species loop has a species.
LoopInv == \A r \in Rank : pc[r] \in InLoop \ {"species"} => sp[r] <= NumSpecies

TypeInv == TypeOK /\ LoopInv

\* What a rank knows where it is.
Place(r) ==
  /\ pc[r] # "idle" => call # 0 /\ result[r] = NoResult
  /\ pc[r] = "idle" => (call = 0 <=> result[r] = NoResult)
  /\ pc[r] = "class" => job.zwindstroom
  /\ pc[r] = "audit" => job.kind = "prepare"
  /\ pc[r] \in InGenerate => job.kind = "generate"
  /\ pc[r] \in {"fastdf", "sunk"} => Species(r) = Neutrino
  /\ pc[r] = "count" => Species(r) # Neutrino
  /\ pc[r] \in AfterLoop => sp[r] = NumSpecies + 1
  /\ pc[r] \notin Begun \cup {"idle", "unwind"} => sp[r] = 1
  /\ pc[r] = "run" => sp[r] = 1

PlaceInv == \A r \in Rank : Place(r)

\* The globals of embedded.cc, given where the rank is.
Globals(r) ==
  /\ pc[r] \in {"idle", "entry", "config"} => ~sink[r] /\ ~started[r] /\ ~objects[r]
  /\ job.kind = "prepare" => ~sink[r] /\ ~started[r] /\ ~objects[r]
  /\ pc[r] \in {"cosmo", "class"} /\ job.kind = "generate" => sink[r]
  /\ pc[r] \in {"cosmo", "class", "plugin", "hints", "begin", "begun"} => ~started[r]
  /\ pc[r] \in InGenerate => sink[r]
  /\ pc[r] \in Begun \ {"close"} => started[r]
  /\ pc[r] = "close" => ~started[r]
  /\ pc[r] \in Announced => expected[r] = job.num
  /\ pc[r] \in {"cosmo", "class"} => background[r] = 0
  /\ pc[r] \in {"audit"} \cup InGenerate =>
       background[r] = IF job.zwindstroom THEN call ELSE 0
  /\ result[r] = 0 => background[r] = call

GlobalsInv == \A r \in Rank : Globals(r)

-----------------------------------------------------------------------------
SpeciesHeading(r) ==
  IF sp[r] <= NumSpecies THEN IF Species(r) = Neutrino THEN "fastdf" ELSE "count"
                         ELSE "totals"
ReturnHeading == IF job.zwindstroom THEN "return" ELSE "fail"
AuditHeading  ==
  IF job.kind = "prepare" THEN ReturnHeading
  ELSE IF job.reject = "plugin" THEN "fail" ELSE "hints"
CosmoHeading  ==
  IF job.reject = "setup" THEN "fail"
  ELSE IF job.zwindstroom THEN "class" ELSE AuditHeading
ConfigHeading == IF job.reject = "config" THEN "fail" ELSE CosmoHeading
EntryHeading  == IF job.reject = "args" THEN "fail" ELSE ConfigHeading

\* The next event rank r takes part in.
Heading(r) ==
  IF pc[r] \in Waiting THEN pc[r]
  ELSE IF pc[r] = "idle"    THEN IF result[r] = 1 THEN "fail" ELSE "return"
  ELSE IF pc[r] = "entry"   THEN EntryHeading
  ELSE IF pc[r] = "config"  THEN ConfigHeading
  ELSE IF pc[r] = "cosmo"   THEN CosmoHeading
  ELSE IF pc[r] \in {"plugin", "audit"} THEN AuditHeading
  ELSE IF pc[r] = "begin"   THEN "begun"
  ELSE IF pc[r] = "run"     THEN IF job.reject = "run" THEN "fail" ELSE SpeciesHeading(r)
  ELSE IF pc[r] = "species" THEN SpeciesHeading(r)
  ELSE IF pc[r] = "batch"   THEN "batched"
  ELSE IF pc[r] = "end"     THEN "ended"
  ELSE IF pc[r] = "close"   THEN ReturnHeading
  ELSE "fail"

\* All ranks head for the same event; only a rank that faulted on its own is
\* excepted, and then no other rank can have succeeded.
Lockstep ==
  \A r, q \in Rank :
    \/ Heading(r) = Heading(q) /\ (Heading(r) # "fail" => sp[r] = sp[q])
    \/ LocalFaults /\ Heading(r) = "fail" /\ Heading(q) # "return"
    \/ LocalFaults /\ Heading(q) = "fail" /\ Heading(r) # "return"

-----------------------------------------------------------------------------
Seen(r) == Len(log[r])
ScriptLength == Len(Script(job))

\* How many callbacks rank r has had when it does not fail.
Had(r) ==
  IF pc[r] \in {"begun", "run"} THEN 1
  ELSE IF pc[r] \in {"species", "count", "fastdf", "batch", "totals", "end"} THEN sp[r]
  ELSE IF pc[r] \in {"batched", "sunk", "ended", "close"} THEN sp[r] + 1
  ELSE IF pc[r] = "idle" /\ call # 0 THEN ScriptLength
  ELSE 0

\* How many callbacks a rank that heads for h with species i has had when it
\* took part in its last collective.
Before(h, i) ==
  IF h \in {"count", "fastdf", "batched", "totals", "ended"} THEN i
  ELSE IF h = "sunk" THEN i + 1
  ELSE 0

\* The host has seen as many callbacks as the position of the rank says; a
\* rank that failed alone has had what all had at their last collective.
CountedLog(r) == Heading(r) # "fail" => Seen(r) = Had(r)
LeftBehind(r, q) ==
  Heading(q) = "fail" /\ Heading(r) # "fail" => Seen(q) = Before(Heading(r), sp[r])
Near(r, q) == Seen(r) <= Seen(q) + 1

LogInv ==
  /\ HostOrder
  /\ \A r \in Rank : CountedLog(r)
  /\ \A r, q \in Rank : LeftBehind(r, q) /\ Near(r, q)

AllFail == \A r \in Rank : Heading(r) = "fail"

\* A refused callback is on its way to be agreed on, or everyone fails.  This
\* needs the codes of the host to be nonnegative.
Refused(q) ==
  /\ failed[q] => \/ pc[q] \in {"begun", "batched", "ended"} /\ status[q] > 0
                  \/ pc[q] = "sunk" /\ status[q] = 1
                  \/ AllFail
  /\ pc[q] = "sunk" => \A r \in Rank : pc[r] = "sunk" /\ status[r] = status[q]

FailureInv ==
  /\ \A q \in Rank : Refused(q)
  /\ FailureStopsStream

\* What rank r has handed over of each type after the first k batches of job j.
ShareUpTo(j, r, k) == [t \in Type |->
  IF \E i \in 1 .. k : i <= Len(SpeciesList(j)) /\ SpeciesList(j)[i] = t
    THEN j.made[t][r] ELSE 0]

\* What all ranks hand over in a whole run adds up to the metadata.
AddsUp(j) == \A t \in Type :
  Sum([q \in Rank |-> ShareUpTo(j, q, Len(SpeciesList(j)))[t]]) = j.num[t]

\* local_particle_counts holds the batches the host accepted, and nobody gets
\* to the end callback before the totals have been compared.
Accepted(r) == IF pc[r] = "sunk" /\ status[r] = 0 THEN sp[r] ELSE sp[r] - 1
Counts(r) ==
  /\ pc[r] = "sunk" => status[r] \in {0, 1}
  /\ pc[r] \in Announced => local[r] = ShareUpTo(job, r, Accepted(r))
  /\ pc[r] \in AfterLoop \ {"totals"} => AddsUp(job)
  /\ job.kind = "generate" /\ Seen(r) = ScriptLength => AddsUp(job)
CountsInv == \A r \in Rank : Counts(r)

-----------------------------------------------------------------------------
(***************************************************************************)
(* Facts about the species list and the script of a job.                   *)
(***************************************************************************)
\* A sequence with at most one element.
LEMMA OneOrNone ==
  ASSUME NEW S, NEW e \in S, NEW b, b = <<e>> \/ b = <<>>
  PROVE  /\ b \in Seq(S)
         /\ Len(b) <= 1
         /\ \A i \in 1 .. Len(b) : b[i] = e
<1>1. CASE b = <<e>>
  BY <1>1
<1>2. CASE b = <<>>
  BY <1>2
<1>3. QED  BY <1>1, <1>2

\* Between one and three species, each of them once.
LEMMA SpeciesListFact ==
  ASSUME NEW j \in Job
  PROVE  /\ SpeciesList(j) \in Seq(Type)
         /\ Len(SpeciesList(j)) \in Nat /\ 1 <= Len(SpeciesList(j))
         /\ \A i \in 1 .. Len(SpeciesList(j)) : SpeciesList(j)[i] \in Type
         /\ \A i, k \in 1 .. Len(SpeciesList(j)) :
              SpeciesList(j)[i] = SpeciesList(j)[k] => i = k
<1> DEFINE b == IF j.baryons THEN <<Baryon>> ELSE <<>>
           n == IF j.neutrinos THEN <<Neutrino>> ELSE <<>>
           d == <<DM>> \o b
           l == d \o n
<1>1. SpeciesList(j) = l
  BY DEF SpeciesList
<1>2. /\ Baryon \in Type /\ Neutrino \in Type
      /\ (b = <<Baryon>> \/ b = <<>>) /\ (n = <<Neutrino>> \/ n = <<>>)
  BY DEF Type
<1> HIDE DEF b, n
<1>3. b \in Seq(Type) /\ Len(b) <= 1 /\ \A i \in 1 .. Len(b) : b[i] = Baryon
  BY <1>2, OneOrNone
<1>4. n \in Seq(Type) /\ Len(n) <= 1 /\ \A i \in 1 .. Len(n) : n[i] = Neutrino
  BY <1>2, OneOrNone
<1>5. /\ d \in Seq(Type) /\ 1 <= Len(d) /\ Len(d) <= 2
      /\ \A i \in 1 .. Len(d) : d[i] = IF i = 1 THEN DM ELSE Baryon
  <2>1. <<DM>> \in Seq(Type) /\ Len(<<DM>>) = 1 /\ <<DM>>[1] = DM
    BY DEF Type
  <2>2. QED  BY <1>3, <2>1, ConcatProperties
<1> HIDE DEF d
<1>6. /\ l \in Seq(Type) /\ Len(l) = Len(d) + Len(n)
      /\ \A i \in 1 .. Len(d) + Len(n) : l[i] = IF i <= Len(d) THEN d[i] ELSE n[i - Len(d)]
  BY <1>4, <1>5, ConcatProperties
<1> HIDE DEF l
<1>7. Len(l) \in Nat /\ 1 <= Len(l)
  BY <1>4, <1>5, <1>6
<1>8. ASSUME NEW i \in 1 .. Len(l)
      PROVE  l[i] = IF i = 1 THEN DM ELSE IF i <= Len(d) THEN Baryon ELSE Neutrino
  BY <1>4, <1>5, <1>6
<1>9. \A i \in 1 .. Len(l) : l[i] \in Type
  BY <1>8 DEF Type
<1>10. ASSUME NEW i \in 1 .. Len(l), NEW k \in 1 .. Len(l), l[i] = l[k]
       PROVE  i = k
  <2>1. \/ i = 1 /\ k = 1
        \/ i # 1 /\ k # 1 /\ (i <= Len(d) <=> k <= Len(d))
    BY <1>8, <1>10 DEF DM, Baryon, Neutrino
  <2>2. QED  BY <1>4, <1>5, <1>6, <2>1
<1>11. QED  BY <1>1, <1>6, <1>7, <1>9, <1>10

\* The script is begin, the species in order, end.
LEMMA ScriptFact ==
  ASSUME NEW j \in Job, j.kind = "generate"
  PROVE  /\ Script(j) \in Seq(Event)
         /\ Len(Script(j)) = Len(SpeciesList(j)) + 2
         /\ Script(j)[1] = BeginEvent
         /\ \A i \in 1 .. Len(SpeciesList(j)) : Script(j)[i + 1] = SpeciesList(j)[i]
         /\ Script(j)[Len(SpeciesList(j)) + 2] = EndEvent
<1> DEFINE l == SpeciesList(j)
<1>1. l \in Seq(Event) /\ Len(l) \in Nat
  BY SpeciesListFact DEF Event
<1>2. /\ <<BeginEvent>> \in Seq(Event) /\ Len(<<BeginEvent>>) = 1
      /\ <<EndEvent>> \in Seq(Event) /\ Len(<<EndEvent>>) = 1
  BY DEF Event
<1>3. Script(j) = (<<BeginEvent>> \o l) \o <<EndEvent>>
  BY DEF Script
<1> HIDE DEF l
<1> DEFINE m == <<BeginEvent>> \o l
<1>4. /\ m \in Seq(Event) /\ Len(m) = Len(l) + 1
      /\ m[1] = BeginEvent /\ \A i \in 1 .. Len(l) : m[i + 1] = l[i]
  BY <1>1, <1>2
<1> HIDE DEF m
<1>5. Script(j) = m \o <<EndEvent>>
  BY <1>3 DEF m
<1>6. /\ m \o <<EndEvent>> \in Seq(Event) /\ Len(m \o <<EndEvent>>) = Len(l) + 2
      /\ \A i \in 1 .. Len(m) : (m \o <<EndEvent>>)[i] = m[i]
      /\ (m \o <<EndEvent>>)[Len(l) + 2] = EndEvent
  BY <1>1, <1>2, <1>4
<1>7. /\ (m \o <<EndEvent>>)[1] = BeginEvent 
      /\ \A i \in 1 .. Len(l) : (m \o <<EndEvent>>)[i + 1] = l[i]
  BY <1>1, <1>4, <1>6
<1>8. QED  BY <1>5, <1>6, <1>7 DEF l

\* What the type invariant of the constants says of the current job.
LEMMA JobFact ==
  ASSUME job \in Jobs
  PROVE  /\ NumSpecies \in Nat /\ 1 <= NumSpecies
         /\ \A r \in Rank : sp[r] \in 1 .. NumSpecies => Species(r) \in Type
         /\ job.num \in Count
         /\ \A r \in Rank : sp[r] \in 1 .. NumSpecies => Made(r) \in Nat
<1>1. job \in Job
  BY JobsAssumption
<1>2. /\ NumSpecies \in Nat /\ 1 <= NumSpecies
      /\ \A i \in 1 .. NumSpecies : SpeciesList(job)[i] \in Type
  BY <1>1, SpeciesListFact DEF NumSpecies
<1>3. \A r \in Rank : sp[r] \in 1 .. NumSpecies => Species(r) \in Type
  BY <1>2 DEF Species
<1>4. job.num \in Count /\ \A t \in Type, r \in Rank : job.made[t][r] \in Nat
  BY <1>1 DEF Job
<1>5. QED  BY <1>2, <1>3, <1>4 DEF Made

\* These depend on the job and the position of the rank only.
LEMMA JobStable ==
  ASSUME UNCHANGED job
  PROVE  /\ NumSpecies' = NumSpecies
         /\ \A r \in Rank : sp'[r] = sp[r] => Species(r)' = Species(r) /\ Made(r)' = Made(r)
BY DEF NumSpecies, Species, Made

LEMMA ZeroFact == Zero \in Count
BY DEF Zero, Count

-----------------------------------------------------------------------------
(***************************************************************************)
(* Type correctness                                                        *)
(***************************************************************************)
LEMMA TypeInit == Init => TypeInv
<1> SUFFICES ASSUME Init PROVE TypeInv
  OBVIOUS
<1>1. job \in Jobs
  BY DEF Init
<1>2. NumSpecies \in Nat /\ 1 <= NumSpecies
  BY <1>1, JobFact
<1>3. TypeOK
  BY <1>2, ZeroFact DEF Init, TypeOK, Waiting, Working
<1>4. LoopInv
  BY DEF Init, LoopInv, InLoop
<1>5. QED  BY <1>3, <1>4 DEF TypeInv

LEMMA TypeNext == TypeInv /\ [Next]_vars => TypeInv'
<1> SUFFICES ASSUME TypeOK, LoopInv, [Next]_vars PROVE TypeOK' /\ LoopInv'
  BY DEF TypeInv
<1>0. /\ job \in Jobs /\ NumSpecies \in Nat /\ 1 <= NumSpecies
      /\ \A r \in Rank : sp[r] \in 1 .. NumSpecies => Species(r) \in Type /\ Made(r) \in Nat
  BY JobFact DEF TypeOK
<1>a. job.num \in Count
  BY <1>0, JobFact
<1>b. (UNCHANGED job) => NumSpecies' = NumSpecies
  BY JobStable
<1> USE DEF TypeOK, LoopInv, InLoop, Waiting, Working, globals, history, Stay, Throw,
            AllThrow, Goto, AllGoto, AllAt, ReturnTo
<1>1. CASE HostCall
  <2>1. job' \in Jobs /\ sp' = [r \in Rank |-> 1]
    BY <1>1 DEF HostCall
  <2>2. NumSpecies' \in Nat /\ 1 <= NumSpecies'
    <3>1. job' \in Job
      BY <2>1, JobsAssumption
    <3>2. QED  BY <3>1, SpeciesListFact DEF NumSpecies
  <2>3. pc' \in [Rank -> {"entry"}] /\ UNCHANGED globals
    BY <1>1 DEF HostCall
  <2>4. call' \in Nat /\ status' \in [Rank -> Int] /\ result' \in [Rank -> {NoResult, 0, 1}]
    BY <1>1 DEF HostCall
  <2>5. log' \in [Rank -> Seq(Event)] /\ failed' \in [Rank -> BOOLEAN]
    BY <1>1 DEF HostCall
  <2>6. sp' \in [Rank -> Nat \ {0}] /\ \A q \in Rank : sp'[q] <= NumSpecies' + 1
    <3>1. 1 <= NumSpecies' + 1
      <4>1. \A n \in Nat : 1 <= n + 1
        OBVIOUS
      <4>2. QED  BY <4>1, <2>2
    <3>2. sp' \in [Rank -> Nat \ {0}] /\ \A q \in Rank : sp'[q] = 1
      BY <2>1
    <3>3. QED  BY <3>1, <3>2
  <2>7. LoopInv'
    BY <2>3
  <2>8. QED  BY <2>1, <2>3, <2>4, <2>5, <2>6, <2>7
<1>2. ASSUME NEW r \in Rank, LocalStep(r) PROVE TypeOK' /\ LoopInv'
  <2>1. CASE CheckArguments(r)
    BY <2>1, <1>b DEF CheckArguments
  <2>2. CASE Begin(r)
    <3>1. CASE job.reject = "config"
      BY <2>2, <3>1, <1>b DEF Begin
    <3>2. CASE job.reject # "config"
      <4>1. expected' \in [Rank -> Count] /\ local' \in [Rank -> Count]
        BY <2>2, <3>2, ZeroFact, ZenonT(40) DEF Begin
      <4>2. sink' \in [Rank -> BOOLEAN] /\ started' \in [Rank -> BOOLEAN]
        BY <2>2, <3>2 DEF Begin
      <4>3. background' \in [Rank -> Nat]
        BY <2>2, <3>2 DEF Begin
      <4>4. /\ pc' = [pc EXCEPT ![r] = "cosmo"]
            /\ UNCHANGED <<objects, call, job, log, failed, sp, status, result>>
        BY <2>2, <3>2 DEF Begin
      <4>5. QED  BY <4>1, <4>2, <4>3, <4>4, <1>b
    <3>3. QED  BY <3>1, <3>2
  <2>3. CASE BuildCosmology(r)
    <3>1. objects' \in [Rank -> BOOLEAN]
      BY <2>3 DEF BuildCosmology
    <3>2. status' \in [Rank -> Int]
      BY <2>3 DEF BuildCosmology
    <3>3. \E to \in {"unwind", "class", "plugin", "audit"} : pc' = [pc EXCEPT ![r] = to]
      BY <2>3 DEF BuildCosmology, AfterCosmology
    <3>4. UNCHANGED <<call, job, sink, started, expected, local, background, history, sp, result>>
      BY <2>3 DEF BuildCosmology
    <3>5. QED  BY <3>1, <3>2, <3>3, <3>4, <1>b
  <2>4. CASE MakeOutputPlugin(r)
    BY <2>4, <1>b DEF MakeOutputPlugin
  <2>5. CASE BeginCallback(r)
    BY <2>5, <1>b, CallbackCodeAssumption DEF BeginCallback, Callback, Event
  <2>6. CASE StartRun(r)
    BY <2>6, <1>b DEF StartRun
  <2>7. CASE GenerateLattice(r)
    BY <2>7, <1>b DEF GenerateLattice
  <2>8. CASE RunFastDF(r)
    BY <2>8, <1>b DEF RunFastDF
  <2>9. CASE BatchCallback(r)
    <3>1. pc[r] = "batch" /\ UNCHANGED <<call, job, globals, sp, result>>
      BY <2>9 DEF BatchCallback
    <3>2. CASE ~sink[r] \/ ~started[r]
      <4>1. status' \in [Rank -> Int] /\ UNCHANGED history
        BY <2>9, <3>2 DEF BatchCallback
      <4>2. \E to \in {"sunk", "unwind"} : pc' = [pc EXCEPT ![r] = to]
        BY <2>9, <3>2 DEF BatchCallback
      <4>3. QED  BY <3>1, <4>1, <4>2, <1>b
    <3>3. CASE ~(~sink[r] \/ ~started[r])
      <4>1. Callback(r, Species(r)) /\ Goto(r, "batched")
        BY <2>9, <3>3 DEF BatchCallback
      <4>2. Species(r) \in Type
        <5>1. sp[r] \in 1 .. NumSpecies
          BY <3>1
        <5>2. QED  BY <5>1, <1>0
      <4>3. QED  BY <4>1, <4>2, <3>1, <1>b, CallbackCodeAssumption DEF Callback, Event
    <3>4. QED  BY <3>2, <3>3
  <2>10. CASE FinishTransfer(r)
    BY <2>10, <1>b, ZenonT(40) DEF FinishTransfer
  <2>11. CASE EndCallback(r)
    BY <2>11, <1>b, CallbackCodeAssumption DEF EndCallback, Callback, Event
  <2>12. CASE Close(r)
    BY <2>12, <1>b, ZenonT(40) DEF Close
  <2>13. CASE Audit(r)
    BY <2>13, <1>b DEF Audit
  <2>14. CASE Catch(r)
    <3>1. objects' \in [Rank -> BOOLEAN] /\ sink' \in [Rank -> BOOLEAN] /\ started' \in [Rank -> BOOLEAN]
      BY <2>14 DEF Catch
    <3>2. background' = background \/ background' = [background EXCEPT ![r] = 0]
      BY <2>14 DEF Catch
    <3>3. /\ pc' = [pc EXCEPT ![r] = "idle"] /\ result' = [result EXCEPT ![r] = 1]
          /\ UNCHANGED <<call, job, expected, local, history, sp, status>>
      BY <2>14 DEF Catch
    <3>4. QED  BY <3>1, <3>2, <3>3, <1>b
  <2>15. QED
    BY <1>2, <2>1, <2>2, <2>3, <2>4, <2>5, <2>6, <2>7, <2>8, <2>9, <2>10, <2>11, <2>12,
       <2>13, <2>14 DEF LocalStep
<1>3. ASSUME NEW r \in Rank, LocalFault(r) PROVE TypeOK' /\ LoopInv'
  BY <1>3, <1>b DEF LocalFault
<1>4. CASE Collective
  <2>1. CASE ClassAgreed
    <3>1. background' \in [Rank -> Nat]
      BY <2>1 DEF ClassAgreed
    <3>2. pc' \in [Rank -> {"plugin", "audit", "unwind"}]
      BY <2>1 DEF ClassAgreed, AfterCosmology
    <3>3. UNCHANGED <<call, job, objects, sink, started, expected, local, history, sp, status, result>>
      BY <2>1 DEF ClassAgreed
    <3>4. QED  BY <3>1, <3>2, <3>3, <1>b
  <2>2. CASE HintsAgreed
    <3>1. expected' \in [Rank -> Count]
      BY <2>2, <1>a DEF HintsAgreed, Count
    <3>2. local' \in [Rank -> Count]
      BY <2>2, ZeroFact DEF HintsAgreed
    <3>3. pc' \in [Rank -> {"begin", "unwind"}]
      BY <2>2 DEF HintsAgreed
    <3>4. UNCHANGED <<call, job, objects, sink, started, background, history, sp, status, result>>
      BY <2>2 DEF HintsAgreed
    <3>5. QED  BY <3>1, <3>2, <3>3, <3>4, <1>b
  <2>3. CASE BegunAgreed
    <3>1. started' = started \/ started' = [r \in Rank |-> TRUE]
      BY <2>3 DEF BegunAgreed
    <3>2. pc' \in [Rank -> {"run", "unwind"}]
      BY <2>3 DEF BegunAgreed
    <3>3. UNCHANGED <<call, job, objects, sink, expected, local, background, history, sp, status, result>>
      BY <2>3 DEF BegunAgreed
    <3>4. QED  BY <3>1, <3>2, <3>3, <1>b
  <2>4. CASE CountAgreed
    BY <2>4, <1>b DEF CountAgreed
  <2>5. CASE FastDFAgreed
    BY <2>5, <1>b DEF FastDFAgreed
  <2>6. CASE BatchAgreed
    <3>1. \A q \in Rank : sp[q] \in 1 .. NumSpecies /\ Species(q) \in Type /\ Made(q) \in Nat
      <4>1. \A q \in Rank : sp[q] \in Nat \ {0} /\ sp[q] <= NumSpecies
        BY <2>6 DEF BatchAgreed
      <4>2. QED  BY <4>1, <1>0
    <3>2. local' \in [Rank -> Count]
      <4>1. ASSUME NEW q \in Rank
            PROVE  [local[q] EXCEPT ![Species(q)] = @ + Made(q)] \in Count
        BY <3>1 DEF Count
      <4>2. QED  BY <2>6, <4>1 DEF BatchAgreed
    <3>3. status' \in [Rank -> Int]
      BY <2>6 DEF BatchAgreed
    <3>4. sp' \in [Rank -> Nat \ {0}] /\ \A q \in Rank : sp'[q] <= NumSpecies + 1
      BY <2>6, <3>1, <1>0, SMTT(30) DEF BatchAgreed
    <3>5. pc' \in [Rank -> {"sunk", "species", "unwind"}]
      BY <2>6 DEF BatchAgreed
    <3>6. \A q \in Rank : pc'[q] = "sunk" => sp'[q] <= NumSpecies
      BY <2>6, <3>1 DEF BatchAgreed
    <3>7. UNCHANGED <<call, job, objects, sink, started, expected, background, history, result>>
      BY <2>6 DEF BatchAgreed
    <3>8. QED  BY <3>2, <3>3, <3>4, <3>5, <3>6, <3>7, <1>b
  <2>7. CASE SunkAgreed
    <3>1. \A q \in Rank : sp[q] \in Nat \ {0} /\ sp[q] <= NumSpecies
      BY <2>7 DEF SunkAgreed
    <3>2. sp' \in [Rank -> Nat \ {0}] /\ \A q \in Rank : sp'[q] <= NumSpecies + 1
      BY <2>7, <3>1, <1>0 DEF SunkAgreed
    <3>3. pc' \in [Rank -> {"species", "unwind"}]
      BY <2>7 DEF SunkAgreed
    <3>4. QED  BY <2>7, <3>2, <3>3, <1>b DEF SunkAgreed
  <2>8. CASE TotalsAgreed
    <3>1. pc' \in [Rank -> {"end", "unwind"}]
      BY <2>8 DEF TotalsAgreed
    <3>2. UNCHANGED <<call, job, globals, history, sp, status, result>>
      BY <2>8 DEF TotalsAgreed
    <3>3. QED  BY <3>1, <3>2, <1>b
  <2>9. CASE EndedAgreed
    <3>1. started' = started \/ started' = [r \in Rank |-> FALSE]
      BY <2>9 DEF EndedAgreed
    <3>2. pc' \in [Rank -> {"close", "unwind"}]
      BY <2>9 DEF EndedAgreed
    <3>3. UNCHANGED <<call, job, objects, sink, expected, local, background, history, sp, status, result>>
      BY <2>9 DEF EndedAgreed
    <3>4. QED  BY <3>1, <3>2, <3>3, <1>b
  <2>10. QED
    BY <1>4, <2>1, <2>2, <2>3, <2>4, <2>5, <2>6, <2>7, <2>8, <2>9 DEF Collective
<1>5. CASE UNCHANGED vars
  BY <1>5, <1>b DEF vars
<1>6. QED  BY <1>1, <1>2, <1>3, <1>4, <1>5 DEF Next

\* The globals of embedded.cc, the position of every rank and the history
\* keep their types.
THEOREM TypeCorrect == Spec => []TypeOK
<1>1. Init => TypeInv
  BY TypeInit
<1>2. TypeInv /\ [Next]_vars => TypeInv'
  BY TypeNext
<1>3. TypeInv => TypeOK
  BY DEF TypeInv
<1>4. QED  BY <1>1, <1>2, <1>3, PTL DEF Spec

-----------------------------------------------------------------------------
(***************************************************************************)
(* What a step of one rank leaves alone                                    *)
(***************************************************************************)
\* Ranks are separate processes: a local step of r, or a fault of it, changes
\* no variable of another rank, and no position in the species loop.
LEMMA LocalFrame ==
  ASSUME TypeOK, NEW r \in Rank, LocalStep(r) \/ LocalFault(r),
         NEW q \in Rank, q # r
  PROVE  /\ pc'[q] = pc[q] /\ result'[q] = result[q]
         /\ objects'[q] = objects[q] /\ sink'[q] = sink[q] /\ started'[q] = started[q]
         /\ expected'[q] = expected[q] /\ local'[q] = local[q]
         /\ background'[q] = background[q]
         /\ status'[q] = status[q] /\ log'[q] = log[q] /\ failed'[q] = failed[q]
<1> USE DEF TypeOK, globals, history, Stay, Throw, Goto, ReturnTo
<1>1. CASE CheckArguments(r)
  BY <1>1 DEF CheckArguments
<1>2. CASE Begin(r)
  BY <1>2 DEF Begin
<1>3. CASE BuildCosmology(r)
  BY <1>3 DEF BuildCosmology
<1>4. CASE MakeOutputPlugin(r)
  BY <1>4 DEF MakeOutputPlugin
<1>5. CASE BeginCallback(r)
  BY <1>5 DEF BeginCallback, Callback
<1>6. CASE StartRun(r)
  BY <1>6 DEF StartRun
<1>7. CASE GenerateLattice(r)
  BY <1>7 DEF GenerateLattice
<1>8. CASE RunFastDF(r)
  BY <1>8 DEF RunFastDF
<1>9. CASE BatchCallback(r)
  BY <1>9 DEF BatchCallback, Callback
<1>10. CASE FinishTransfer(r)
  BY <1>10 DEF FinishTransfer
<1>11. CASE EndCallback(r)
  BY <1>11 DEF EndCallback, Callback
<1>12. CASE Close(r)
  BY <1>12 DEF Close
<1>13. CASE Audit(r)
  BY <1>13 DEF Audit
<1>14. CASE Catch(r)
  BY <1>14 DEF Catch
<1>15. CASE LocalFault(r)
  BY <1>15 DEF LocalFault
<1>16. QED
  BY <1>1, <1>2, <1>3, <1>4, <1>5, <1>6, <1>7, <1>8, <1>9, <1>10, <1>11, <1>12, <1>13,
     <1>14, <1>15 DEF LocalStep

LEMMA LocalStay ==
  ASSUME NEW r \in Rank, LocalStep(r) \/ LocalFault(r)
  PROVE  UNCHANGED <<call, job, sp>>
BY DEF LocalStep, LocalFault, Stay, globals, history, CheckArguments, Begin, BuildCosmology,
  MakeOutputPlugin, BeginCallback, StartRun, GenerateLattice, RunFastDF, BatchCallback,
  FinishTransfer, EndCallback, Close, Audit, Catch

-----------------------------------------------------------------------------
(***************************************************************************)
(* The place of a rank and its globals                                     *)
(***************************************************************************)
LEMMA PlaceFrame ==
  ASSUME UNCHANGED <<call, job>>, NEW q \in Rank, Place(q),
         pc'[q] = pc[q], sp'[q] = sp[q], result'[q] = result[q]
  PROVE  Place(q)'
<1>1. NumSpecies' = NumSpecies /\ Species(q)' = Species(q)
  BY JobStable
<1>2. QED  BY <1>1 DEF Place

LEMMA GlobalsFrame ==
  ASSUME UNCHANGED <<call, job>>, NEW q \in Rank, Globals(q),
         pc'[q] = pc[q], result'[q] = result[q], objects'[q] = objects[q],
         sink'[q] = sink[q], started'[q] = started[q], expected'[q] = expected[q],
         background'[q] = background[q]
  PROVE  Globals(q)'
BY DEF Globals

\* The step of a rank keeps its own place.
LEMMA PlaceLocal ==
  ASSUME TypeInv, NEW r \in Rank, Place(r), Globals(r), LocalStep(r) \/ LocalFault(r)
  PROVE  Place(r)'
<1>0. UNCHANGED <<call, job, sp>> /\ NumSpecies' = NumSpecies /\ Species(r)' = Species(r)
  BY LocalStay, JobStable
<1>a. NumSpecies \in Nat /\ sp[r] \in Nat /\ sp[r] <= NumSpecies + 1
  BY JobFact DEF TypeInv, TypeOK
<1> USE <1>0 DEF TypeInv, TypeOK, Place, Throw, Goto, ReturnTo,
        InGenerate, Announced, Begun, InLoop, AfterLoop, NoResult
<1>1. CASE CheckArguments(r)
  BY <1>1 DEF CheckArguments
<1>2. CASE Begin(r)
  BY <1>2 DEF Begin
<1>3. CASE BuildCosmology(r)
  <2>1. /\ pc[r] = "cosmo"
        /\ \/ pc' = [pc EXCEPT ![r] = "unwind"]
           \/ job.zwindstroom /\ pc' = [pc EXCEPT ![r] = "class"]
           \/ job.kind = "generate" /\ pc' = [pc EXCEPT ![r] = "plugin"]
           \/ job.kind # "generate" /\ pc' = [pc EXCEPT ![r] = "audit"]
    BY <1>3 DEF BuildCosmology, AfterCosmology
  <2>2. job.kind \in {"generate", "prepare"} /\ UNCHANGED result
    BY <1>3, JobsAssumption DEF Job, BuildCosmology
  <2>3. QED  BY <2>1, <2>2
<1>4. CASE MakeOutputPlugin(r)
  BY <1>4 DEF MakeOutputPlugin
<1>5. CASE BeginCallback(r)
  BY <1>5 DEF BeginCallback
<1>6. CASE StartRun(r)
  BY <1>6 DEF StartRun
<1>7. CASE GenerateLattice(r)
  BY <1>7 DEF GenerateLattice
<1>8. CASE RunFastDF(r)
  BY <1>8 DEF RunFastDF
<1>9. CASE BatchCallback(r)
  BY <1>9 DEF BatchCallback
<1>10. CASE FinishTransfer(r)
  BY <1>10, <1>a DEF FinishTransfer
<1>11. CASE EndCallback(r)
  BY <1>11 DEF EndCallback
<1>12. CASE Close(r)
  BY <1>12 DEF Close
<1>13. CASE Audit(r)
  BY <1>13 DEF Audit
<1>14. CASE Catch(r)
  BY <1>14 DEF Catch
<1>15. CASE LocalFault(r)
  BY <1>15 DEF LocalFault
<1>16. QED
  BY <1>1, <1>2, <1>3, <1>4, <1>5, <1>6, <1>7, <1>8, <1>9, <1>10, <1>11, <1>12, <1>13,
     <1>14, <1>15 DEF LocalStep

\* The step of a rank keeps what it knows of its own globals.
LEMMA GlobalsLocal ==
  ASSUME TypeInv, NEW r \in Rank, Place(r), Globals(r), LocalStep(r) \/ LocalFault(r)
  PROVE  Globals(r)'
<1>0. UNCHANGED <<call, job, sp>>
  BY LocalStay
<1>a. job.kind \in {"generate", "prepare"} /\ job.zwindstroom \in BOOLEAN
  BY JobsAssumption DEF Job, TypeInv, TypeOK
<1> USE <1>0 DEF TypeInv, TypeOK, Globals, Throw, Goto, ReturnTo, globals,
        InGenerate, Announced, Begun, InLoop, AfterLoop, NoResult
<1>1. CASE CheckArguments(r)
  BY <1>1 DEF CheckArguments
<1>2. CASE Begin(r)
  <2>1. CASE job.reject = "config"
    BY <1>2, <2>1 DEF Begin
  <2>2. CASE job.reject # "config"
    <3>1. /\ pc'[r] = "cosmo" /\ ~started'[r] /\ background'[r] = 0
          /\ UNCHANGED <<objects, result>>
          /\ job.kind = "generate" => sink'[r]
          /\ job.kind = "prepare" => ~sink'[r]
      BY <1>2, <2>2 DEF Begin
    <3>2. result'[r] = NoResult /\ ~objects'[r]
      BY <1>2, <3>1 DEF Begin, Place
    <3>3. QED  BY <3>1, <3>2
  <2>3. QED  BY <2>1, <2>2
<1>3. CASE BuildCosmology(r)
  <2>1. /\ pc[r] = "cosmo"
        /\ \/ pc' = [pc EXCEPT ![r] = "unwind"]
           \/ pc' = [pc EXCEPT ![r] = "class"]
           \/ job.kind = "generate" /\ ~job.zwindstroom /\ pc' = [pc EXCEPT ![r] = "plugin"]
           \/ job.kind # "generate" /\ ~job.zwindstroom /\ pc' = [pc EXCEPT ![r] = "audit"]
    BY <1>3 DEF BuildCosmology, AfterCosmology
  <2>2. /\ UNCHANGED <<result, sink, started, expected, background>>
        /\ objects' = [objects EXCEPT ![r] = @ \/ job.kind = "generate"]
    BY <1>3 DEF BuildCosmology
  <2>3. job.kind = "prepare" => ~objects'[r]
    BY <2>2
  <2>4. pc'[r] \in {"unwind", "class", "plugin", "audit"} /\ result'[r] = NoResult
    BY <2>1, <2>2 DEF Place
  <2>5. pc'[r] \in {"plugin", "audit"} => ~job.zwindstroom
    BY <2>1
  <2>6. pc'[r] = "plugin" => job.kind = "generate"
    BY <2>1
  <2>7. background[r] = 0
    BY <2>1
  <2>8. QED  BY <2>1, <2>2, <2>3, <2>4, <2>5, <2>6, <2>7
<1>4. CASE MakeOutputPlugin(r)
  BY <1>4 DEF MakeOutputPlugin
<1>5. CASE BeginCallback(r)
  BY <1>5 DEF BeginCallback
<1>6. CASE StartRun(r)
  BY <1>6 DEF StartRun
<1>7. CASE GenerateLattice(r)
  BY <1>7 DEF GenerateLattice
<1>8. CASE RunFastDF(r)
  BY <1>8 DEF RunFastDF
<1>9. CASE BatchCallback(r)
  BY <1>9 DEF BatchCallback
<1>10. CASE FinishTransfer(r)
  BY <1>10 DEF FinishTransfer
<1>11. CASE EndCallback(r)
  BY <1>11 DEF EndCallback
<1>12. CASE Close(r)
  BY <1>12, <1>a DEF Close, Place
<1>13. CASE Audit(r)
  BY <1>13, <1>a DEF Audit, Place
<1>14. CASE Catch(r)
  BY <1>14, <1>a DEF Catch, Place
<1>15. CASE LocalFault(r)
  BY <1>15 DEF LocalFault
<1>16. QED
  BY <1>1, <1>2, <1>3, <1>4, <1>5, <1>6, <1>7, <1>8, <1>9, <1>10, <1>11, <1>12, <1>13,
     <1>14, <1>15 DEF LocalStep

\* A collective keeps the place of every rank ...
LEMMA PlaceCollective ==
  ASSUME TypeInv, PlaceInv, GlobalsInv, Collective, NEW r \in Rank
  PROVE  Place(r)'
<1>0. Place(r) /\ NumSpecies \in Nat
  BY JobFact DEF PlaceInv, TypeInv, TypeOK
<1>a. (UNCHANGED job) => NumSpecies' = NumSpecies
  BY JobStable
<1>b. (UNCHANGED job) /\ sp'[r] = sp[r] => Species(r)' = Species(r)
  BY JobStable
<1> USE <1>0, <1>a, <1>b DEF Place, Stay, AllThrow, AllGoto, AllAt, globals, history,
        InGenerate, Announced, Begun, InLoop, AfterLoop, NoResult
<1>1. CASE ClassAgreed
  <2>1. job.kind \in {"generate", "prepare"}
    BY JobsAssumption DEF Job, TypeInv, TypeOK
  <2>2. QED  BY <1>1, <2>1 DEF ClassAgreed, AfterCosmology
<1>2. CASE HintsAgreed
  BY <1>2 DEF HintsAgreed
<1>3. CASE BegunAgreed
  BY <1>3 DEF BegunAgreed
<1>4. CASE CountAgreed
  BY <1>4 DEF CountAgreed
<1>5. CASE FastDFAgreed
  BY <1>5 DEF FastDFAgreed
<1>6. CASE BatchAgreed
  BY <1>6 DEF BatchAgreed
<1>7. CASE SunkAgreed
  BY <1>7 DEF SunkAgreed
<1>8. CASE TotalsAgreed
  BY <1>8 DEF TotalsAgreed
<1>9. CASE EndedAgreed
  BY <1>9 DEF EndedAgreed
<1>10. QED
  BY <1>1, <1>2, <1>3, <1>4, <1>5, <1>6, <1>7, <1>8, <1>9 DEF Collective

\* ... and what it knows of its globals.
LEMMA GlobalsCollective ==
  ASSUME TypeInv, PlaceInv, GlobalsInv, Collective, NEW r \in Rank
  PROVE  Globals(r)'
<1>0. Place(r) /\ Globals(r)
  BY DEF PlaceInv, GlobalsInv
<1> USE <1>0 DEF Globals, Stay, AllThrow, AllGoto, AllAt, globals, history,
        InGenerate, Announced, Begun, InLoop, AfterLoop, NoResult
<1>1. CASE ClassAgreed
  <2>1. /\ pc[r] = "class" /\ job.zwindstroom /\ result[r] = NoResult
        /\ UNCHANGED <<call, job, result, objects, sink, started, expected>>
    BY <1>1 DEF ClassAgreed, Place
  <2>2. \/ pc'[r] = "unwind"
        \/ background'[r] = call /\ pc'[r] = "plugin" /\ job.kind = "generate"
        \/ background'[r] = call /\ pc'[r] = "audit"
    BY <1>1 DEF ClassAgreed, AfterCosmology
  <2>3. QED  BY <2>1, <2>2
<1>2. CASE HintsAgreed
  <2>1. /\ pc'[r] = "begin" => \A t \in Type : HintMatches(t)
        /\ pc'[r] \in {"begin", "unwind"} /\ pc[r] = "hints"
        /\ UNCHANGED <<call, job, result, objects, sink, started, background>>
    BY <1>2 DEF HintsAgreed
  <2>2. ASSUME \A t \in Type : HintMatches(t)
        PROVE  expected'[r] = job.num
    <3>1. expected'[r] = [t \in Type |-> job.num[t]]
      BY <1>2, <2>2 DEF HintsAgreed
    <3>2. job.num \in Count
      BY JobFact DEF TypeInv, TypeOK
    <3>3. QED  BY <3>1, <3>2 DEF Count
  <2>3. QED  BY <2>1, <2>2
<1>3. CASE BegunAgreed
  BY <1>3 DEF BegunAgreed
<1>4. CASE CountAgreed
  BY <1>4 DEF CountAgreed
<1>5. CASE FastDFAgreed
  BY <1>5 DEF FastDFAgreed
<1>6. CASE BatchAgreed
  BY <1>6 DEF BatchAgreed
<1>7. CASE SunkAgreed
  BY <1>7 DEF SunkAgreed
<1>8. CASE TotalsAgreed
  BY <1>8 DEF TotalsAgreed
<1>9. CASE EndedAgreed
  BY <1>9 DEF EndedAgreed
<1>10. QED
  BY <1>1, <1>2, <1>3, <1>4, <1>5, <1>6, <1>7, <1>8, <1>9 DEF Collective

LEMMA PlaceInit == Init => PlaceInv /\ GlobalsInv
BY DEF Init, PlaceInv, GlobalsInv, Place, Globals, NoResult, InGenerate, Announced, Begun,
  InLoop, AfterLoop

LEMMA PlaceNext ==
  TypeInv /\ PlaceInv /\ GlobalsInv /\ [Next]_vars => PlaceInv' /\ GlobalsInv'
<1> SUFFICES ASSUME TypeInv, PlaceInv, GlobalsInv, [Next]_vars, NEW r \in Rank
             PROVE  Place(r)' /\ Globals(r)'
  BY DEF PlaceInv, GlobalsInv
<1>0. Place(r) /\ Globals(r)
  BY DEF PlaceInv, GlobalsInv
<1>1. CASE HostCall
  <2>1. /\ pc[r] = "idle" /\ pc'[r] = "entry" /\ result'[r] = NoResult /\ sp'[r] = 1
        /\ call' = call + 1 /\ call \in Nat
        /\ UNCHANGED <<objects, sink, started, expected, background>>
    BY <1>1 DEF HostCall, AllAt, AllGoto, globals, TypeInv, TypeOK
  <2>2. Place(r)'
    BY <2>1 DEF Place, InGenerate, Announced, Begun, InLoop, AfterLoop
  <2>3. Globals(r)'
    BY <1>0, <2>1 DEF Globals, InGenerate, Announced, Begun, InLoop, AfterLoop, NoResult
  <2>4. QED  BY <2>2, <2>3
<1>2. ASSUME NEW q \in Rank, LocalStep(q) \/ LocalFault(q)
      PROVE  Place(r)' /\ Globals(r)'
  <2>1. CASE q = r
    BY <1>0, <1>2, <2>1, PlaceLocal, GlobalsLocal
  <2>2. CASE q # r
    BY <1>0, <1>2, <2>2, LocalFrame, LocalStay, PlaceFrame, GlobalsFrame DEF TypeInv
  <2>3. QED  BY <2>1, <2>2
<1>3. CASE Collective
  BY <1>3, PlaceCollective, GlobalsCollective
<1>4. CASE UNCHANGED vars
  BY <1>0, <1>4, PlaceFrame, GlobalsFrame DEF vars, globals
<1>5. QED  BY <1>1, <1>2, <1>3, <1>4 DEF Next

-----------------------------------------------------------------------------
(***************************************************************************)
(* Lockstep                                                                *)
(***************************************************************************)
\* Where a rank heads depends on the job and on its own variables only.
LEMMA HeadingFrame ==
  ASSUME UNCHANGED job, NEW q \in Rank,
         pc'[q] = pc[q], sp'[q] = sp[q], result'[q] = result[q]
  PROVE  Heading(q)' = Heading(q)
<1>1. NumSpecies' = NumSpecies /\ Species(q)' = Species(q)
  BY JobStable
<1>2. SpeciesHeading(q)' = SpeciesHeading(q)
  BY <1>1 DEF SpeciesHeading
<1>3. /\ EntryHeading' = EntryHeading /\ ConfigHeading' = ConfigHeading
      /\ CosmoHeading' = CosmoHeading /\ AuditHeading' = AuditHeading
      /\ ReturnHeading' = ReturnHeading
  BY DEF EntryHeading, ConfigHeading, CosmoHeading, AuditHeading, ReturnHeading
<1>4. QED  BY <1>2, <1>3 DEF Heading

\* A step of a rank between two collectives does not change where it heads.
LEMMA HeadingLocal ==
  ASSUME TypeInv, NEW r \in Rank, Place(r), Globals(r), LocalStep(r)
  PROVE  Heading(r)' = Heading(r)
<1>0. UNCHANGED <<call, job, sp>> /\ NumSpecies' = NumSpecies /\ Species(r)' = Species(r)
  BY LocalStay, JobStable
<1>a. /\ SpeciesHeading(r)' = SpeciesHeading(r) /\ EntryHeading' = EntryHeading
      /\ ConfigHeading' = ConfigHeading /\ CosmoHeading' = CosmoHeading
      /\ AuditHeading' = AuditHeading /\ ReturnHeading' = ReturnHeading
  BY <1>0 DEF SpeciesHeading, EntryHeading, ConfigHeading, CosmoHeading, AuditHeading,
    ReturnHeading
<1>b. job.kind \in {"generate", "prepare"} /\ job.zwindstroom \in BOOLEAN
  BY JobsAssumption DEF Job, TypeInv, TypeOK
<1> USE <1>a DEF TypeInv, TypeOK, Heading, Throw, Goto, ReturnTo, Waiting
<1>1. CASE CheckArguments(r)
  BY <1>1 DEF CheckArguments, EntryHeading
<1>2. CASE Begin(r)
  BY <1>2 DEF Begin, ConfigHeading
<1>3. CASE BuildCosmology(r)
  BY <1>3, <1>b DEF BuildCosmology, AfterCosmology, CosmoHeading
<1>4. CASE MakeOutputPlugin(r)
  BY <1>4 DEF MakeOutputPlugin, AuditHeading, Place, Globals, InGenerate
<1>5. CASE BeginCallback(r)
  BY <1>5 DEF BeginCallback
<1>6. CASE StartRun(r)
  BY <1>6 DEF StartRun
<1>7. CASE GenerateLattice(r)
  BY <1>7, <1>0 DEF GenerateLattice, SpeciesHeading
<1>8. CASE RunFastDF(r)
  BY <1>8, <1>0 DEF RunFastDF, SpeciesHeading
<1>9. CASE BatchCallback(r)
  BY <1>9 DEF BatchCallback, Globals, InGenerate, Announced, Begun, InLoop
<1>10. CASE FinishTransfer(r)
  <2>1. NumSpecies \in Nat
    BY JobFact
  <2>2. SpeciesHeading(r) = "totals"
    BY <1>10, <2>1 DEF FinishTransfer, SpeciesHeading
  <2>3. QED
    BY <1>10, <2>2 DEF FinishTransfer, Globals, InGenerate, Announced, Begun, InLoop
<1>11. CASE EndCallback(r)
  BY <1>11 DEF EndCallback
<1>12. CASE Close(r)
  BY <1>12, <1>b DEF Close, ReturnHeading, Place, Globals, InGenerate, Announced, Begun, AfterLoop
<1>13. CASE Audit(r)
  BY <1>13, <1>b DEF Audit, AuditHeading, ReturnHeading, Place, Globals
<1>14. CASE Catch(r)
  BY <1>14 DEF Catch
<1>16. QED
  BY <1>1, <1>2, <1>3, <1>4, <1>5, <1>6, <1>7, <1>8, <1>9, <1>10, <1>11, <1>12, <1>13,
     <1>14 DEF LocalStep

\* No rank faults on its own where all that is left is to return 0.
LEMMA HeadingFault ==
  ASSUME TypeInv, NEW r \in Rank, Place(r), LocalFault(r)
  PROVE  LocalFaults /\ Heading(r)' = "fail" /\ Heading(r) # "return"
<1>1. LocalFaults /\ pc'[r] = "unwind" /\ pc[r] \in {"config", "cosmo", "plugin", "run", "species"}
  BY DEF LocalFault, Throw, Goto, TypeInv, TypeOK
<1>2. Heading(r)' = "fail"
  BY <1>1 DEF Heading, Waiting
<1>3. SpeciesHeading(r) # "return"
  BY DEF SpeciesHeading
<1>4. pc[r] = "plugin" => AuditHeading # "return"
  BY DEF AuditHeading, Place, InGenerate
<1>5. CosmoHeading # "return" /\ ConfigHeading # "return"
  BY DEF ConfigHeading, CosmoHeading, AuditHeading, ReturnHeading
<1>6. QED  BY <1>1, <1>2, <1>3, <1>4, <1>5 DEF Heading, Waiting

\* After a collective all ranks head for the same event, whether or not they
\* did before.
LEMMA HeadingCollective ==
  ASSUME TypeInv, PlaceInv, GlobalsInv, Lockstep, Collective,
         NEW r \in Rank, NEW q \in Rank
  PROVE  /\ Heading(r)' = Heading(q)'
         /\ Heading(r)' # "fail" => sp'[r] = sp'[q]
<1>0. sp[r] = sp[q] /\ Species(r) = Species(q)
  <2>1. pc[r] \in Waiting /\ pc[q] \in Waiting
    BY DEF Collective, AllAt, Waiting, ClassAgreed, HintsAgreed, BegunAgreed, CountAgreed,
      FastDFAgreed, BatchAgreed, SunkAgreed, TotalsAgreed, EndedAgreed
  <2>2. Heading(r) # "fail" /\ Heading(q) # "fail"
    BY <2>1 DEF Heading, Waiting
  <2>3. sp[r] = sp[q]
    BY <2>2 DEF Lockstep
  <2>4. QED  BY <2>3 DEF Species
<1>1. SUFFICES pc'[r] = pc'[q] /\ pc'[r] # "idle" /\ sp'[r] = sp'[q]
  <2>1. Species(r)' = Species(q)'
    BY <1>1 DEF Species
  <2>2. SpeciesHeading(r)' = SpeciesHeading(q)'
    BY <1>1, <2>1 DEF SpeciesHeading
  <2>3. QED  BY <1>1, <2>2 DEF Heading
<1> USE <1>0 DEF Stay, AllThrow, AllGoto, AllAt, globals, history
<1>2. CASE ClassAgreed
  BY <1>2 DEF ClassAgreed, AfterCosmology
<1>3. CASE HintsAgreed
  BY <1>3 DEF HintsAgreed
<1>4. CASE BegunAgreed
  BY <1>4 DEF BegunAgreed
<1>5. CASE CountAgreed
  BY <1>5 DEF CountAgreed
<1>6. CASE FastDFAgreed
  BY <1>6 DEF FastDFAgreed
<1>7. CASE BatchAgreed
  BY <1>7 DEF BatchAgreed
<1>8. CASE SunkAgreed
  BY <1>8 DEF SunkAgreed
<1>9. CASE TotalsAgreed
  <2>1. expected[r] = expected[q]
    BY <1>9 DEF TotalsAgreed, GlobalsInv, Globals, Announced, Begun, AfterLoop
  <2>2. QED  BY <1>9, <2>1 DEF TotalsAgreed
<1>10. CASE EndedAgreed
  BY <1>10 DEF EndedAgreed
<1>11. QED
  BY <1>2, <1>3, <1>4, <1>5, <1>6, <1>7, <1>8, <1>9, <1>10 DEF Collective

LEMMA LockstepInit == Init => Lockstep
BY DEF Init, Lockstep, Heading, Waiting, NoResult

LEMMA LockstepNext ==
  TypeInv /\ PlaceInv /\ GlobalsInv /\ Lockstep /\ [Next]_vars => Lockstep'
<1> SUFFICES ASSUME TypeInv, PlaceInv, GlobalsInv, Lockstep, [Next]_vars
             PROVE  Lockstep'
  OBVIOUS
<1>1. CASE HostCall
  <2>1. ASSUME NEW r \in Rank
        PROVE  Heading(r)' = EntryHeading' /\ sp'[r] = 1
    BY <1>1 DEF HostCall, AllGoto, Heading, Waiting
  <2>2. QED  BY <2>1 DEF Lockstep
<1>2. ASSUME NEW s \in Rank, LocalStep(s)
      PROVE  Lockstep'
  <2>1. UNCHANGED <<call, job, sp>>
    BY <1>2, LocalStay
  <2>2. ASSUME NEW q \in Rank
        PROVE  Heading(q)' = Heading(q)
    <3>1. CASE q = s
      BY <1>2, <3>1, HeadingLocal DEF PlaceInv, GlobalsInv
    <3>2. CASE q # s
      BY <1>2, <2>1, <3>2, LocalFrame, HeadingFrame DEF TypeInv
    <3>3. QED  BY <3>1, <3>2
  <2>3. QED  BY <2>1, <2>2 DEF Lockstep
<1>3. ASSUME NEW s \in Rank, LocalFault(s)
      PROVE  Lockstep'
  <2>1. UNCHANGED <<call, job, sp>>
    BY <1>3, LocalStay
  <2>2. LocalFaults /\ Heading(s)' = "fail" /\ Heading(s) # "return"
    BY <1>3, HeadingFault DEF PlaceInv
  <2>3. \A q \in Rank \ {s} : Heading(q)' = Heading(q)
    BY <1>3, <2>1, LocalFrame, HeadingFrame DEF TypeInv
  <2>4. \A q \in Rank : Heading(q) # "return"
    BY <2>2 DEF Lockstep
  <2>5. QED  BY <2>1, <2>2, <2>3, <2>4 DEF Lockstep
<1>4. CASE Collective
  BY <1>4, HeadingCollective DEF Lockstep
<1>5. CASE UNCHANGED vars
  BY <1>5, HeadingFrame DEF vars, Lockstep
<1>6. QED  BY <1>1, <1>2, <1>3, <1>4, <1>5 DEF Next

\* The part of the inductive invariant that does not look at the data.
ControlInv == TypeInv /\ PlaceInv /\ GlobalsInv /\ Lockstep

LEMMA ControlCorrect == Spec => []ControlInv
<1>1. Init => ControlInv
  BY TypeInit, PlaceInit, LockstepInit DEF ControlInv
<1>2. ControlInv /\ [Next]_vars => ControlInv'
  BY TypeNext, PlaceNext, LockstepNext DEF ControlInv
<1>3. QED  BY <1>1, <1>2, PTL DEF Spec

\* Two ranks blocked in collectives are blocked in the same one, for the same
\* species, whichever ranks have failed: the Allreduces of two call sites of
\* the bridge are never paired with each other.
THEOREM CollectivesAlwaysMatch == Spec => []CollectivesMatch
<1>1. ControlInv => CollectivesMatch
  <2> SUFFICES ASSUME Lockstep, NEW r \in Rank, NEW q \in Rank,
                      pc[r] \in Waiting, pc[q] \in Waiting
               PROVE  pc[r] = pc[q] /\ sp[r] = sp[q]
    BY DEF ControlInv, CollectivesMatch
  <2>1. Heading(r) = pc[r] /\ Heading(q) = pc[q] /\ pc[r] # "fail" /\ pc[q] # "fail"
    BY DEF Heading, Waiting
  <2>2. QED  BY <2>1 DEF Lockstep
<1>2. QED  BY <1>1, ControlCorrect, PTL

\* When no rank throws on its own, a call returns the same code everywhere.
THEOREM ResultIsUniform == Spec => []UniformResult
<1>1. ControlInv => UniformResult
  <2> SUFFICES ASSUME ControlInv, ~LocalFaults, NEW r \in Rank, NEW q \in Rank,
                      result[r] # NoResult, result[q] # NoResult
               PROVE  result[r] = result[q]
    BY DEF UniformResult
  <2>1. pc[r] = "idle" /\ pc[q] = "idle"
    BY DEF ControlInv, PlaceInv, Place
  <2>2. Heading(r) = Heading(q)
    BY DEF ControlInv, Lockstep
  <2>3. result[r] \in {0, 1} /\ result[q] \in {0, 1}
    BY DEF ControlInv, TypeInv, TypeOK
  <2>4. QED  BY <2>1, <2>2, <2>3 DEF Heading, Waiting
<1>2. QED  BY <1>1, ControlCorrect, PTL

\* No pointer to the sink of the host, no transfer and no plugin object
\* survives the return of a call, however it ends.
THEOREM ReturnIsClean == Spec => []CleanReturn
<1>1. ControlInv => CleanReturn
  BY DEF ControlInv, GlobalsInv, Globals, CleanReturn
<1>2. QED  BY <1>1, ControlCorrect, PTL

-----------------------------------------------------------------------------
(***************************************************************************)
(* The order of the callbacks                                              *)
(***************************************************************************)
LEMMA SeenFact ==
  ASSUME TypeInv
  PROVE  \A r \in Rank : Seen(r) \in Nat
<1>1. \A r \in Rank : log[r] \in Seq(Event)
  BY DEF TypeInv, TypeOK
<1>2. QED  BY <1>1, LenProperties DEF Seen

LEMMA ScriptLengthFact ==
  ASSUME TypeInv
  PROVE  /\ job.kind = "generate" => ScriptLength = NumSpecies + 2
         /\ job.kind = "prepare" => ScriptLength = 0
         /\ ScriptLength \in Nat
<1>1. job \in Job /\ job.kind \in {"generate", "prepare"}
  BY JobsAssumption DEF TypeInv, TypeOK, Job
<1>2. job.kind = "generate" => ScriptLength = NumSpecies + 2
  BY <1>1, ScriptFact DEF ScriptLength, NumSpecies
<1>3. job.kind = "prepare" => ScriptLength = 0
  BY DEF ScriptLength, Script
<1>4. NumSpecies \in Nat
  BY JobFact DEF TypeInv, TypeOK
<1>5. QED  BY <1>1, <1>2, <1>3, <1>4

\* What follows in the script at each of the three callbacks.
LEMMA NextEvent ==
  ASSUME TypeInv, job.kind = "generate"
  PROVE  /\ Script(job)[1] = BeginEvent
         /\ \A r \in Rank : sp[r] <= NumSpecies => Script(job)[sp[r] + 1] = Species(r)
         /\ Script(job)[NumSpecies + 2] = EndEvent
<1>1. job \in Job
  BY JobsAssumption DEF TypeInv, TypeOK
<1>2. \A i \in 1 .. NumSpecies : Script(job)[i + 1] = SpeciesList(job)[i]
  BY <1>1, ScriptFact DEF NumSpecies
<1>3. NumSpecies \in Nat /\ \A r \in Rank : sp[r] \in Nat \ {0}
  BY JobFact DEF TypeInv, TypeOK
<1>4. QED  BY <1>1, <1>2, <1>3, ScriptFact DEF NumSpecies, Species

\* A callback extends the part of the script the rank has seen.
LEMMA AppendFollows ==
  ASSUME NEW s \in Seq(Event), NEW script \in Seq(Event), Len(s) < Len(script),
         \A i \in 1 .. Len(s) : s[i] = script[i]
  PROVE  LET t == Append(s, script[Len(s) + 1]) IN
         /\ Len(t) = Len(s) + 1
         /\ Len(t) <= Len(script)
         /\ \A i \in 1 .. Len(t) : t[i] = script[i]
<1> DEFINE e == script[Len(s) + 1]
           t == Append(s, e)
<1>1. Len(s) \in Nat /\ Len(script) \in Nat
  BY LenProperties
<1>2. e \in Event
  BY <1>1, ElementOfSeq
<1> HIDE DEF e
<1>3. /\ Len(t) = Len(s) + 1
      /\ \A i \in 1 .. Len(s) : t[i] = s[i]
      /\ t[Len(s) + 1] = e
  BY <1>2, AppendProperties
<1> HIDE DEF t
<1>4. \A i \in 1 .. Len(t) : t[i] = script[i]
  <2> SUFFICES ASSUME NEW i \in 1 .. Len(s) + 1 PROVE t[i] = script[i]
    BY <1>3
  <2>1. CASE i = Len(s) + 1
    BY <1>3, <2>1 DEF e
  <2>2. CASE i # Len(s) + 1
    <3>1. i \in 1 .. Len(s)
      BY <1>1, <2>2
    <3>2. QED  BY <1>3, <3>1
  <2>3. QED  BY <2>1, <2>2
<1>5. Len(t) <= Len(script)
  BY <1>1, <1>3
<1>6. QED  BY <1>3, <1>4, <1>5 DEF e, t

\* Had, Seen and the order of the events look at the rank itself only.
LEMMA LogFrame ==
  ASSUME UNCHANGED <<call, job>>, NEW q \in Rank,
         pc'[q] = pc[q], sp'[q] = sp[q], log'[q] = log[q]
  PROVE  Had(q)' = Had(q) /\ Seen(q)' = Seen(q)
<1>1. ScriptLength' = ScriptLength
  BY DEF ScriptLength, Script, SpeciesList
<1>2. QED  BY <1>1 DEF Had, Seen

Calls(r) == BeginCallback(r) \/ EndCallback(r) \/ (BatchCallback(r) /\ sink[r] /\ started[r])

\* A local step that is no callback leaves the history and the count alone.
LEMMA HadLocal ==
  ASSUME TypeInv, NEW r \in Rank, Place(r), Globals(r), LocalStep(r), ~Calls(r)
  PROVE  /\ UNCHANGED <<log, failed>>
         /\ Heading(r) # "fail" => Had(r)' = Had(r)
<1>0. UNCHANGED <<call, job, sp>> /\ ScriptLength' = ScriptLength
  BY LocalStay DEF ScriptLength, Script, SpeciesList
<1>a. Heading(r)' = Heading(r)
  BY HeadingLocal
<1>b. /\ job.kind = "generate" => ScriptLength = NumSpecies + 2
      /\ job.kind # "generate" => ScriptLength = 0
      /\ NumSpecies \in Nat
  BY ScriptLengthFact, JobFact, JobsAssumption DEF TypeInv, TypeOK, Job
<1> USE <1>0, <1>a DEF TypeInv, TypeOK, Throw, Goto, ReturnTo, history
<1>1. CASE CheckArguments(r)
  BY <1>1 DEF CheckArguments, Had, Heading, Waiting
<1>2. CASE Begin(r)
  BY <1>2 DEF Begin, Had
<1>3. CASE BuildCosmology(r)
  BY <1>3 DEF BuildCosmology, AfterCosmology, Had
<1>4. CASE MakeOutputPlugin(r)
  BY <1>4 DEF MakeOutputPlugin, Had
<1>5. CASE StartRun(r)
  BY <1>5 DEF StartRun, Had, Place, Heading, Waiting
<1>6. CASE GenerateLattice(r)
  BY <1>6 DEF GenerateLattice, Had
<1>7. CASE RunFastDF(r)
  BY <1>7 DEF RunFastDF, Had
<1>8. CASE BatchCallback(r)
  BY <1>8 DEF BatchCallback, Calls, Globals, InGenerate, Announced, Begun, InLoop
<1>9. CASE FinishTransfer(r)
  BY <1>9 DEF FinishTransfer, Had, Globals, InGenerate, Announced, Begun, InLoop
<1>10. CASE Close(r)
  <2>1. pc[r] = "close" /\ job.kind = "generate" /\ sp[r] = NumSpecies + 1 /\ call # 0
    BY <1>10 DEF Close, Place, InGenerate, Announced, Begun, AfterLoop
  <2>2. Had(r) = ScriptLength
    BY <2>1, <1>b DEF Had
  <2>3. Heading(r) # "fail" => pc'[r] = "idle"
    BY <1>10 DEF Close, Heading, Waiting
  <2>4. QED  BY <1>10, <2>1, <2>2, <2>3 DEF Close, Had
<1>11. CASE Audit(r)
  <2>1. pc[r] = "audit" /\ job.kind = "prepare" /\ call # 0
    BY <1>11 DEF Audit, Place
  <2>2. Heading(r) # "fail" => pc'[r] = "idle"
    BY <1>11 DEF Audit, Heading, Waiting
  <2>3. QED  BY <1>11, <1>b, <2>1, <2>2 DEF Audit, Had
<1>12. CASE Catch(r)
  BY <1>12 DEF Catch, Heading, Waiting
<1>13. CASE BeginCallback(r)
  BY <1>13 DEF Calls
<1>14. CASE EndCallback(r)
  BY <1>14 DEF Calls
<1>15. QED
  BY <1>1, <1>2, <1>3, <1>4, <1>5, <1>6, <1>7, <1>8, <1>9, <1>10, <1>11, <1>12, <1>13,
     <1>14 DEF LocalStep

\* A callback delivers the event of the script that is due.
LEMMA HadCallback ==
  ASSUME TypeInv, NEW r \in Rank, Place(r), Calls(r)
  PROVE  /\ Had(r)' = Had(r) + 1 /\ Had(r) \in Nat /\ Had(r) < ScriptLength
         /\ log'[r] = Append(log[r], Script(job)[Had(r) + 1])
         /\ Heading(r) \in {"begun", "batched", "ended"}
         /\ Had(r) = Before(Heading(r), sp[r])
         /\ pc[r] \in {"begin", "batch", "end"}
         /\ UNCHANGED <<call, job, sp>>
<1>a. /\ NumSpecies \in Nat /\ 1 <= NumSpecies /\ sp[r] \in Nat \ {0}
      /\ pc \in [Rank -> Waiting \cup Working] /\ log \in [Rank -> Seq(Event)]
  BY JobFact DEF TypeInv, TypeOK
<1> USE <1>a DEF Callback, Goto, Stay, globals
<1>1. CASE BeginCallback(r)
  <2>1. job.kind = "generate" /\ pc[r] = "begin" /\ pc'[r] = "begun"
    BY <1>1 DEF BeginCallback, Place, InGenerate, Announced
  <2>2. Had(r) = 0 /\ Had(r)' = 1 /\ Heading(r) = "begun"
    BY <2>1 DEF Had, Heading, Waiting
  <2>3. ScriptLength = NumSpecies + 2 /\ Script(job)[1] = BeginEvent
    BY <2>1, ScriptLengthFact, NextEvent
  <2>4. log'[r] = Append(log[r], BeginEvent) /\ UNCHANGED <<call, job, sp>>
    BY <1>1 DEF BeginCallback
  <2>5. QED  BY <2>1, <2>2, <2>3, <2>4 DEF Before
<1>2. CASE EndCallback(r)
  <2>1. job.kind = "generate" /\ pc[r] = "end" /\ pc'[r] = "ended" /\ sp[r] = NumSpecies + 1
    BY <1>2 DEF EndCallback, Place, InGenerate, Announced, Begun, AfterLoop
  <2>2. UNCHANGED <<call, job, sp>> /\ log'[r] = Append(log[r], EndEvent)
    BY <1>2 DEF EndCallback
  <2>3. Had(r) = sp[r] /\ Had(r)' = sp[r] + 1 /\ Heading(r) = "ended"
    BY <2>1, <2>2 DEF Had, Heading, Waiting
  <2>4. ScriptLength = NumSpecies + 2 /\ Script(job)[NumSpecies + 2] = EndEvent
    BY <2>1, ScriptLengthFact, NextEvent
  <2>5. Script(job)[Had(r) + 1] = EndEvent /\ Had(r) < ScriptLength
    BY <2>1, <2>3, <2>4
  <2>6. QED  BY <2>1, <2>2, <2>3, <2>5 DEF Before
<1>3. CASE BatchCallback(r) /\ sink[r] /\ started[r]
  <2>1. job.kind = "generate" /\ pc[r] = "batch" /\ pc'[r] = "batched" /\ sp[r] <= NumSpecies
    BY <1>3 DEF BatchCallback, Place, InGenerate, Announced, Begun, InLoop, TypeInv, LoopInv
  <2>2. UNCHANGED <<call, job, sp>> /\ log'[r] = Append(log[r], Species(r))
    BY <1>3 DEF BatchCallback
  <2>3. Had(r) = sp[r] /\ Had(r)' = sp[r] + 1 /\ Heading(r) = "batched"
    BY <2>1, <2>2 DEF Had, Heading, Waiting
  <2>4. ScriptLength = NumSpecies + 2 /\ Script(job)[sp[r] + 1] = Species(r)
    BY <2>1, ScriptLengthFact, NextEvent
  <2>5. QED  BY <2>1, <2>2, <2>3, <2>4 DEF Before
<1>4. QED  BY <1>1, <1>2, <1>3 DEF Calls

\* A collective delivers nothing, and who goes on keeps its count.
LEMMA HadCollective ==
  ASSUME TypeInv, NEW r \in Rank, Collective
  PROVE  /\ UNCHANGED <<call, job, log, failed>>
         /\ Heading(r)' # "fail" => Had(r)' = Had(r)
<1>a. sp[r] \in Nat
  BY DEF TypeInv, TypeOK
<1>b. pc'[r] = "unwind" => Heading(r)' = "fail"
  BY DEF Heading, Waiting
<1> USE <1>a, <1>b DEF AllThrow, AllGoto, AllAt, Stay, globals, history, Had
<1>1. CASE ClassAgreed
  BY <1>1 DEF ClassAgreed, AfterCosmology
<1>2. CASE HintsAgreed
  BY <1>2 DEF HintsAgreed
<1>3. CASE BegunAgreed
  BY <1>3 DEF BegunAgreed
<1>4. CASE CountAgreed
  BY <1>4 DEF CountAgreed
<1>5. CASE FastDFAgreed
  BY <1>5 DEF FastDFAgreed
<1>6. CASE BatchAgreed
  BY <1>6 DEF BatchAgreed
<1>7. CASE SunkAgreed
  BY <1>7 DEF SunkAgreed
<1>8. CASE TotalsAgreed
  BY <1>8 DEF TotalsAgreed
<1>9. CASE EndedAgreed
  BY <1>9 DEF EndedAgreed
<1>10. QED
  BY <1>1, <1>2, <1>3, <1>4, <1>5, <1>6, <1>7, <1>8, <1>9 DEF Collective

\* Where a rank can fault alone it has had what all had at the last collective.
LEMMA HadFault ==
  ASSUME TypeInv, NEW r \in Rank, Place(r), LocalFault(r), Heading(r) # "fail"
  PROVE  Had(r) = Before(Heading(r), sp[r])
<1>1. pc[r] \in {"config", "cosmo", "plugin", "run", "species"}
  BY DEF LocalFault
<1>2. CASE pc[r] \in {"config", "cosmo", "plugin"}
  <2>1. Had(r) = 0
    BY <1>2 DEF Had
  <2>2. Heading(r) \in {"class", "hints", "fail", "return"}
    BY <1>2 DEF Heading, Waiting, ConfigHeading, CosmoHeading, AuditHeading, ReturnHeading
  <2>3. QED  BY <2>1, <2>2 DEF Before
<1>3. CASE pc[r] \in {"run", "species"}
  <2>1. Had(r) = sp[r]
    BY <1>3 DEF Had, Place
  <2>2. Heading(r) \in {"count", "fastdf", "totals"}
    BY <1>3 DEF Heading, Waiting, SpeciesHeading
  <2>3. QED  BY <2>1, <2>2 DEF Before
<1>4. QED  BY <1>1, <1>2, <1>3

LEMMA HeadsForCallback ==
  ASSUME NEW q \in Rank, Heading(q) \in {"begun", "batched", "ended"}
  PROVE  pc[q] \in {"begin", "begun", "batch", "batched", "end", "ended"}
<1>1. /\ EntryHeading \in {"fail", "class", "hints", "return"}
      /\ ConfigHeading \in {"fail", "class", "hints", "return"}
      /\ CosmoHeading \in {"fail", "class", "hints", "return"}
      /\ AuditHeading \in {"fail", "class", "hints", "return"}
      /\ ReturnHeading \in {"fail", "return"}
  BY DEF EntryHeading, ConfigHeading, CosmoHeading, AuditHeading, ReturnHeading
<1>2. SpeciesHeading(q) \in {"count", "fastdf", "totals"}
  BY DEF SpeciesHeading
<1>3. QED  BY <1>1, <1>2 DEF Heading, Waiting

\* A rank that heads for a callback's collective has had at least what all had
\* at the last one.
LEMMA HadBefore ==
  ASSUME NEW q \in Rank, Heading(q) \in {"begun", "batched", "ended"}, sp[q] \in Nat,
         Had(q) \in Nat
  PROVE  Had(q) >= Before(Heading(q), sp[q])
<1>1. pc[q] \in {"begin", "begun", "batch", "batched", "end", "ended"}
  BY HeadsForCallback
<1>2. CASE pc[q] \in {"begin", "begun"}
  BY <1>2 DEF Heading, Waiting, Before
<1>3. CASE pc[q] \in {"batch", "batched", "end", "ended"}
  BY <1>3 DEF Heading, Waiting, Before, Had
<1>4. QED  BY <1>1, <1>2, <1>3

LEMMA LogInit == Init => LogInv
<1> SUFFICES ASSUME Init PROVE LogInv
  OBVIOUS
<1>1. TypeInv
  BY TypeInit
<1>2. ScriptLength \in Nat
  BY <1>1, ScriptLengthFact
<1>3. ASSUME NEW r \in Rank
      PROVE  log[r] = <<>> /\ Seen(r) = 0 /\ Had(r) = 0 /\ Heading(r) # "fail"
    BY DEF Init, Seen, Had, Heading, Waiting, NoResult
<1>4. HostOrder
  BY <1>2, <1>3 DEF HostOrder, ScriptLength, Seen
<1>5. QED  BY <1>3, <1>4 DEF LogInv, CountedLog, LeftBehind, Near

LEMMA LogNext == ControlInv /\ LogInv /\ [Next]_vars => LogInv'
<1> SUFFICES ASSUME ControlInv, TypeInv, LogInv, [Next]_vars PROVE LogInv'
  BY DEF ControlInv
<1>0. \A r \in Rank : Place(r) /\ Globals(r)
  BY DEF ControlInv, PlaceInv, GlobalsInv
<1>a. TypeInv' /\ Lockstep'
  BY TypeNext, LockstepNext DEF ControlInv
<1>b. \A r \in Rank : Seen(r) \in Nat
  BY SeenFact
<1>c. (UNCHANGED job) => Script(job)' = Script(job)
  BY DEF Script, SpeciesList
<1>1. CASE HostCall
  <2>1. ASSUME NEW r \in Rank
        PROVE  log'[r] = <<>> /\ Seen(r)' = 0 /\ Had(r)' = 0 /\ Heading(r)' = EntryHeading'
    BY <1>1 DEF HostCall, AllGoto, Seen, Had, Heading, Waiting
  <2>2. ScriptLength' \in Nat
    <3>1. job' \in Job
      BY <1>a, JobsAssumption DEF TypeInv, TypeOK
    <3>2. CASE job'.kind = "generate"
      BY <3>1, <3>2, ScriptFact, SpeciesListFact DEF ScriptLength
    <3>3. CASE job'.kind # "generate"
      BY <3>3 DEF ScriptLength, Script
    <3>4. QED  BY <3>2, <3>3
  <2>3. HostOrder'
    BY <2>1, <2>2 DEF HostOrder, ScriptLength, Seen
  <2>4. QED  BY <2>1, <2>3 DEF LogInv, CountedLog, LeftBehind, Near
<1>2. ASSUME NEW s \in Rank, LocalStep(s), ~Calls(s)
      PROVE  LogInv'
  <2>1. UNCHANGED <<call, job, sp, log, failed>>
    BY <1>0, <1>2, HadLocal, LocalStay
  <2>2. ASSUME NEW q \in Rank
        PROVE  /\ Heading(q)' = Heading(q) /\ Seen(q)' = Seen(q)
               /\ Heading(q) # "fail" => Had(q)' = Had(q)
    <3>1. CASE q = s
      BY <1>0, <1>2, <2>1, <3>1, HeadingLocal, HadLocal DEF Seen
    <3>2. CASE q # s
      BY <1>2, <2>1, <3>2, LocalFrame, HeadingFrame, LogFrame DEF TypeInv
    <3>3. QED  BY <3>1, <3>2
  <2>3. HostOrder'
    BY <2>1, <1>c DEF LogInv, HostOrder
  <2>4. QED  BY <2>1, <2>2, <2>3 DEF LogInv, CountedLog, LeftBehind, Near
<1>3. ASSUME NEW s \in Rank, LocalStep(s), Calls(s)
      PROVE  LogInv'
  <2>1. /\ Had(s)' = Had(s) + 1 /\ Had(s) \in Nat /\ Had(s) < ScriptLength
        /\ log'[s] = Append(log[s], Script(job)[Had(s) + 1])
        /\ Heading(s) \in {"begun", "batched", "ended"}
        /\ Had(s) = Before(Heading(s), sp[s])
        /\ UNCHANGED <<call, job, sp>>
    BY <1>0, <1>3, HadCallback
  <2>2. Seen(s) = Had(s)
    BY <2>1 DEF LogInv, CountedLog
  <2>3. ASSUME NEW q \in Rank, q # s
        PROVE  /\ Heading(q)' = Heading(q) /\ Seen(q)' = Seen(q) /\ Had(q)' = Had(q)
               /\ log'[q] = log[q]
    BY <1>3, <2>1, <2>3, LocalFrame, HeadingFrame, LogFrame DEF TypeInv
  <2>4. Heading(s)' = Heading(s)
    BY <1>0, <1>3, HeadingLocal
  <2>5. /\ Len(log'[s]) = Len(log[s]) + 1 /\ Len(log'[s]) <= Len(Script(job))
        /\ \A i \in 1 .. Len(log'[s]) : log'[s][i] = Script(job)[i]
    <3>1. Script(job) \in Seq(Event)
      <4>1. job \in Job
        BY JobsAssumption DEF TypeInv, TypeOK
      <4>2. CASE job.kind = "generate"
        BY <4>1, <4>2, ScriptFact
      <4>3. CASE job.kind # "generate"
        BY <4>3, EmptySeq DEF Script
      <4>4. QED  BY <4>2, <4>3
    <3>2. log[s] \in Seq(Event)
      BY DEF TypeInv, TypeOK
    <3>3. QED
      BY <2>1, <2>2, <3>1, <3>2, AppendFollows DEF LogInv, HostOrder, Seen, ScriptLength
  <2>6. Seen(s)' = Seen(s) + 1
    BY <2>5 DEF Seen
  <2>7. HostOrder'
    BY <2>3, <2>5, <1>c, <2>1 DEF LogInv, HostOrder
  <2>8. \A r \in Rank : CountedLog(r)'
    BY <2>1, <2>2, <2>3, <2>4, <2>6 DEF LogInv, CountedLog
  <2>9. \A r, q \in Rank : LeftBehind(r, q)'
    BY <2>1, <2>3, <2>4 DEF LogInv, LeftBehind
  <2>10. ASSUME NEW q \in Rank, q # s
         PROVE  Seen(s) <= Seen(q)
    <3>1. CASE Heading(q) = "fail"
      BY <2>1, <2>2, <3>1, <1>b DEF LogInv, LeftBehind
    <3>2. CASE Heading(q) # "fail"
      <4>1. Heading(q) = Heading(s) /\ sp[q] = sp[s]
        BY <2>1, <3>2 DEF ControlInv, Lockstep
      <4>2. Seen(q) = Had(q) /\ Had(q) \in Nat /\ sp[q] \in Nat
        BY <1>b, <3>2 DEF LogInv, CountedLog, TypeInv, TypeOK
      <4>3. Had(q) >= Before(Heading(q), sp[q])
        BY <2>1, <4>1, <4>2, HadBefore DEF TypeInv, TypeOK
      <4>4. QED  BY <2>1, <2>2, <4>1, <4>2, <4>3
    <3>3. QED  BY <3>1, <3>2
  <2>11. \A r, q \in Rank : Near(r, q)'
    BY <1>b, <2>3, <2>6, <2>10 DEF LogInv, Near
  <2>12. QED  BY <2>7, <2>8, <2>9, <2>11 DEF LogInv
<1>4. ASSUME NEW s \in Rank, LocalFault(s)
      PROVE  LogInv'
  <2>1. UNCHANGED <<call, job, sp, log>>
    BY <1>4, LocalStay DEF LocalFault, history
  <2>2. Heading(s)' = "fail"
    BY <1>0, <1>4, HeadingFault
  <2>3. ASSUME NEW q \in Rank, q # s
        PROVE  Heading(q)' = Heading(q) /\ Had(q)' = Had(q)
    BY <1>4, <2>1, <2>3, LocalFrame, HeadingFrame, LogFrame DEF TypeInv
  <2>4. \A q \in Rank : Seen(q)' = Seen(q)
    BY <2>1 DEF Seen
  <2>5. HostOrder'
    BY <2>1, <1>c DEF LogInv, HostOrder
  <2>6. ASSUME NEW q \in Rank, q # s, Heading(q) # "fail"
        PROVE  Seen(s) = Before(Heading(q), sp[q])
    <3>1. CASE Heading(s) = "fail"
      BY <2>6, <3>1 DEF LogInv, LeftBehind
    <3>2. CASE Heading(s) # "fail"
      <4>1. Heading(q) = Heading(s) /\ sp[q] = sp[s]
        BY <2>6, <3>2 DEF ControlInv, Lockstep
      <4>2. QED  BY <1>0, <1>4, <3>2, <4>1, HadFault DEF LogInv, CountedLog
    <3>3. QED  BY <3>1, <3>2
  <2>7. \A r \in Rank : CountedLog(r)'
    BY <2>2, <2>3, <2>4 DEF LogInv, CountedLog
  <2>8. \A r, q \in Rank : LeftBehind(r, q)' /\ Near(r, q)'
    BY <2>1, <2>2, <2>3, <2>4, <2>6 DEF LogInv, LeftBehind, Near
  <2>9. QED  BY <2>5, <2>7, <2>8 DEF LogInv
<1>5. CASE Collective
  <2>1. UNCHANGED <<call, job, log, failed>>
    BY <1>5, HadCollective, RankAssumption
  <2>2. ASSUME NEW r \in Rank, Heading(r)' # "fail"
        PROVE  Had(r)' = Had(r) /\ Heading(r) # "fail"
    <3>1. pc[r] \in Waiting
      BY <1>5 DEF Collective, AllAt, Waiting, ClassAgreed, HintsAgreed, BegunAgreed,
        CountAgreed, FastDFAgreed, BatchAgreed, SunkAgreed, TotalsAgreed, EndedAgreed
    <3>2. Heading(r) # "fail"
      BY <3>1 DEF Heading, Waiting
    <3>3. QED  BY <1>5, <2>2, <3>2, HadCollective
  <2>3. \A r \in Rank : Seen(r)' = Seen(r)
    BY <2>1 DEF Seen
  <2>4. \A r, q \in Rank : Heading(r)' = Heading(q)'
    BY <1>5, HeadingCollective DEF ControlInv
  <2>5. HostOrder'
    BY <2>1, <1>c DEF LogInv, HostOrder
  <2>6. QED  BY <2>2, <2>3, <2>4, <2>5 DEF LogInv, CountedLog, LeftBehind, Near
<1>6. CASE UNCHANGED vars
  <2>1. UNCHANGED <<call, job, pc, sp, log, result>>
    BY <1>6 DEF vars, history
  <2>2. ASSUME NEW q \in Rank
        PROVE  Heading(q)' = Heading(q) /\ Had(q)' = Had(q) /\ Seen(q)' = Seen(q)
    BY <2>1, HeadingFrame, LogFrame
  <2>3. HostOrder'
    BY <2>1, <1>c DEF LogInv, HostOrder
  <2>4. QED  BY <2>1, <2>2, <2>3 DEF LogInv, CountedLog, LeftBehind, Near
<1>7. QED  BY <1>1, <1>2, <1>3, <1>4, <1>5, <1>6 DEF Next

LEMMA LogCorrect == Spec => []LogInv
<1>1. Init => LogInv
  BY LogInit
<1>2. ControlInv /\ LogInv /\ [Next]_vars => LogInv'
  BY LogNext
<1>3. QED  BY <1>1, <1>2, ControlCorrect, PTL DEF Spec

\* On every rank the host sees a prefix of begin, one batch of each species in
\* the order of the species list, end; nothing from monofonic_prepare_background.
THEOREM HostSeesScript == Spec => []HostOrder
<1>1. LogInv => HostOrder
  BY DEF LogInv
<1>2. QED  BY <1>1, LogCorrect, PTL

-----------------------------------------------------------------------------
(***************************************************************************)
(* Refused callbacks                                                       *)
(***************************************************************************)
\* A rank that heads for a callback's collective has had at most its callback.
LEMMA HadAtMost ==
  ASSUME NEW q \in Rank, Heading(q) \in {"begun", "batched", "ended"}, sp[q] \in Nat
  PROVE  Had(q) <= IF Heading(q) = "begun" THEN 1 ELSE sp[q] + 1
<1>1. pc[q] \in {"begin", "begun", "batch", "batched", "end", "ended"}
  BY HeadsForCallback
<1>2. CASE pc[q] \in {"begin", "begun"}
  BY <1>2 DEF Heading, Waiting, Had
<1>3. CASE pc[q] \in {"batch", "batched", "end", "ended"}
  BY <1>3 DEF Heading, Waiting, Had
<1>4. QED  BY <1>1, <1>2, <1>3

\* Local steps start outside of collectives, and none leads into the reduction
\* of the sink status while the transfer is open.
LEMMA LocalNotWaiting ==
  ASSUME NEW s \in Rank, LocalStep(s)
  PROVE  pc[s] \notin Waiting
BY DEF LocalStep, Waiting, CheckArguments, Begin, BuildCosmology, MakeOutputPlugin,
  BeginCallback, StartRun, GenerateLattice, RunFastDF, BatchCallback, FinishTransfer,
  EndCallback, Close, Audit, Catch

LEMMA LocalNotSunk ==
  ASSUME TypeInv, NEW s \in Rank, Globals(s), Place(s), LocalStep(s)
  PROVE  pc[s] # "sunk" /\ pc'[s] # "sunk"
<1>1. pc[s] \notin Waiting
  BY LocalNotWaiting
<1>2. Heading(s)' = Heading(s)
  BY HeadingLocal
<1>3. Heading(s) # "sunk"
  <2>1. /\ EntryHeading # "sunk" /\ ConfigHeading # "sunk" /\ CosmoHeading # "sunk"
        /\ AuditHeading # "sunk" /\ ReturnHeading # "sunk" /\ SpeciesHeading(s) # "sunk"
    BY DEF EntryHeading, ConfigHeading, CosmoHeading, AuditHeading, ReturnHeading,
      SpeciesHeading
  <2>2. QED  BY <1>1, <2>1 DEF Heading
<1>4. QED  BY <1>1, <1>2, <1>3 DEF Heading, Waiting

\* In a collective all ranks work on the same species.
LEMMA AllSameSpecies ==
  ASSUME Lockstep, AllAt("batched"), NEW r \in Rank, NEW q \in Rank
  PROVE  Species(r) = Species(q)
<1>1. Heading(r) = "batched" /\ Heading(q) = "batched"
  BY DEF AllAt, Heading, Waiting
<1>2. sp[r] = sp[q]
  BY <1>1 DEF Lockstep
<1>3. QED  BY <1>2 DEF Species

\* While somebody still goes on, the place of the ranks says who is ahead.
LEMMA NobodyAhead ==
  ControlInv /\ LogInv /\ (\A q \in Rank : Refused(q)) =>
    \A q, r \in Rank : failed[q] /\ ~AllFail => Seen(r) <= Seen(q)
<1> SUFFICES ASSUME ControlInv, LogInv, TypeInv, NEW q \in Rank, NEW r \in Rank,
                    Refused(q), failed[q], ~AllFail
             PROVE  Seen(r) <= Seen(q)
  BY DEF ControlInv
<1>0. sp[q] \in Nat /\ sp[r] \in Nat
  BY DEF TypeInv, TypeOK
<1>1. CASE pc[q] \in {"begun", "batched", "ended"}
  <2>1. Heading(q) = pc[q]
    BY <1>1 DEF Heading, Waiting
  <2>2. Seen(q) = Had(q) /\ Had(q) = IF pc[q] = "begun" THEN 1 ELSE sp[q] + 1
    BY <1>1, <2>1 DEF LogInv, CountedLog, Had
  <2>3. CASE Heading(r) = "fail"
    <3>1. Seen(r) = Before(pc[q], sp[q])
      BY <1>1, <2>1, <2>3 DEF LogInv, LeftBehind
    <3>2. QED  BY <1>0, <1>1, <2>2, <3>1 DEF Before
  <2>4. CASE Heading(r) # "fail"
    <3>1. Heading(r) = pc[q] /\ sp[r] = sp[q] /\ Seen(r) = Had(r)
      BY <1>1, <2>1, <2>4 DEF ControlInv, Lockstep, LogInv, CountedLog
    <3>2. Had(r) <= IF pc[q] = "begun" THEN 1 ELSE sp[r] + 1
      BY <1>0, <1>1, <3>1, HadAtMost
    <3>3. QED  BY <2>2, <3>1, <3>2
  <2>5. QED  BY <2>3, <2>4
<1>2. CASE pc[q] = "sunk"
  <2>1. pc[r] = "sunk" /\ Heading(q) = "sunk" /\ Heading(r) = "sunk"
    BY <1>2 DEF Refused, Heading, Waiting
  <2>2. sp[r] = sp[q]
    BY <2>1 DEF ControlInv, Lockstep
  <2>3. Seen(q) = sp[q] + 1 /\ Seen(r) = sp[r] + 1
    BY <1>2, <2>1 DEF LogInv, CountedLog, Had
  <2>4. QED  BY <1>0, <2>2, <2>3
<1>3. QED  BY <1>1, <1>2 DEF Refused

LEMMA FailureInit == Init => FailureInv
BY DEF Init, FailureInv, Refused, FailureStopsStream

LEMMA RefusedNext ==
  ASSUME CallbackCode \subseteq Nat, ControlInv, FailureInv, [Next]_vars, NEW q \in Rank
  PROVE  Refused(q)'
<1>0. TypeInv /\ Refused(q) /\ \A r \in Rank : Place(r) /\ Globals(r)
  BY DEF ControlInv, PlaceInv, GlobalsInv, FailureInv
<1>1. CASE HostCall
  BY <1>1 DEF HostCall, AllGoto, Refused
<1>2. ASSUME NEW s \in Rank, LocalStep(s)
      PROVE  Refused(q)'
  <2>1. \A r \in Rank : Heading(r)' = Heading(r)
    <3>1. UNCHANGED <<call, job, sp>>
      BY <1>2, LocalStay
    <3>2. QED  BY <1>0, <1>2, <3>1, HeadingLocal, LocalFrame, HeadingFrame DEF TypeInv
  <2>2. AllFail' <=> AllFail
    BY <2>1 DEF AllFail
  <2>3. pc[s] # "sunk" /\ pc'[s] # "sunk"
    BY <1>0, <1>2, LocalNotSunk
  <2>5. CASE s # q
    <3>1. /\ pc'[q] = pc[q] /\ status'[q] = status[q] /\ failed'[q] = failed[q]
      BY <1>0, <1>2, <2>5, LocalFrame DEF TypeInv
    <3>2. pc[q] # "sunk"
      BY <1>0, <2>3 DEF Refused
    <3>3. QED  BY <1>0, <2>2, <3>1, <3>2 DEF Refused
  <2>6. CASE s = q /\ Calls(q)
    <3>1. ~AllFail
      BY <1>0, <2>6, HadCallback DEF AllFail
    <3>2. pc[q] \in {"begin", "batch", "end"}
      BY <1>0, <2>6, HadCallback
    <3>3. ~failed[q]
      BY <1>0, <3>1, <3>2 DEF Refused
    <3>4. PICK code \in CallbackCode :
            /\ status' = [status EXCEPT ![q] = code]
            /\ failed' = [failed EXCEPT ![q] = @ \/ code # 0]
      BY <2>6 DEF Calls, BeginCallback, EndCallback, BatchCallback, Callback
    <3>5. status'[q] = code /\ (failed'[q] <=> code # 0)
      BY <1>0, <3>3, <3>4 DEF TypeInv, TypeOK
    <3>6. pc'[q] \in {"begun", "batched", "ended"}
      BY <1>0, <2>6 DEF Calls, BeginCallback, EndCallback, BatchCallback, Goto, TypeInv, TypeOK
    <3>7. code \in Nat
      OBVIOUS
    <3>8. QED  BY <3>5, <3>6, <3>7 DEF Refused
  <2>7. CASE s = q /\ ~Calls(q)
    <3>1. failed'[q] = failed[q]
      BY <1>0, <1>2, <2>7, HadLocal
    <3>2. pc[q] \notin {"begun", "batched", "ended"}
      BY <1>2, <2>7, LocalNotWaiting DEF Waiting
    <3>3. QED  BY <1>0, <2>2, <2>3, <2>7, <3>1, <3>2 DEF Refused
  <2>8. QED  BY <2>5, <2>6, <2>7
<1>3. ASSUME NEW s \in Rank, LocalFault(s)
      PROVE  Refused(q)'
  <2>1. UNCHANGED <<call, job, sp, status, failed>>
    BY <1>3, LocalStay DEF LocalFault, history
  <2>2. Heading(s)' = "fail" /\ \A r \in Rank \ {s} : Heading(r)' = Heading(r)
    BY <1>0, <1>3, <2>1, HeadingFault, LocalFrame, HeadingFrame DEF TypeInv
  <2>3. AllFail => AllFail'
    BY <2>2 DEF AllFail
  <2>4. pc[s] \notin {"begun", "batched", "ended", "sunk"} /\ pc'[s] = "unwind"
    BY <1>0, <1>3 DEF LocalFault, Throw, Goto, TypeInv, TypeOK
  <2>5. pc[q] # "sunk" /\ (q # s => pc'[q] = pc[q])
    BY <1>0, <1>3, <2>4, LocalFrame DEF Refused, TypeInv
  <2>6. QED  BY <1>0, <2>1, <2>3, <2>4, <2>5 DEF Refused
<1>4. CASE Collective
  <2>1. UNCHANGED failed /\ \A r, s \in Rank : Heading(r)' = Heading(s)'
    BY <1>0, <1>4, HadCollective, HeadingCollective DEF ControlInv
  <2>2. ~AllFail
    <3>1. pc[q] \in Waiting
      BY <1>4 DEF Collective, AllAt, Waiting, ClassAgreed, HintsAgreed, BegunAgreed,
        CountAgreed, FastDFAgreed, BatchAgreed, SunkAgreed, TotalsAgreed, EndedAgreed
    <3>2. QED  BY <3>1 DEF AllFail, Heading, Waiting
  <2>3. pc'[q] = "unwind" => AllFail'
    BY <2>1 DEF AllFail, Heading, Waiting
  <2>4. failed[q] => pc[q] \in {"begun", "batched", "ended", "sunk"} /\ ~MaxIsZero(status)
    BY <1>0, <2>2 DEF Refused, MaxIsZero, TypeInv, TypeOK
  <2>5. CASE BatchAgreed
    <3>0. AllAt("batched") /\ Lockstep
      BY <2>5 DEF BatchAgreed, ControlInv
    <3>1. \A r \in Rank : Species(r) = Species(q)
      BY <3>0, AllSameSpecies
    <3>2. MaxIsZero(status) => ~failed'[q]
      BY <2>1, <2>4
    <3>3. CASE Species(q) = Neutrino
      <4>1. \A r \in Rank : pc'[r] = "sunk" /\ status'[r] = IF MaxIsZero(status) THEN 0 ELSE 1
        BY <2>5, <3>1, <3>3 DEF BatchAgreed
      <4>2. QED  BY <3>2, <4>1 DEF Refused
    <3>4. CASE Species(q) # Neutrino
      <4>1. pc'[q] = IF MaxIsZero(status) THEN "species" ELSE "unwind"
        BY <2>5, <3>4 DEF BatchAgreed
      <4>2. QED  BY <2>3, <3>2, <4>1 DEF Refused
    <3>5. QED  BY <3>3, <3>4
  <2>6. CASE BegunAgreed \/ SunkAgreed \/ EndedAgreed
    <3>1. /\ failed[q] => pc'[q] = "unwind"
          /\ pc'[q] # "sunk"
      BY <2>4, <2>6 DEF BegunAgreed, SunkAgreed, EndedAgreed, AllThrow, AllGoto
    <3>2. QED  BY <2>1, <2>3, <3>1 DEF Refused
  <2>7. CASE ClassAgreed \/ HintsAgreed \/ CountAgreed \/ FastDFAgreed \/ TotalsAgreed
    <3>1. ~failed[q]
      BY <2>4, <2>7 DEF AllAt, ClassAgreed, HintsAgreed, CountAgreed, FastDFAgreed, TotalsAgreed
    <3>2. pc'[q] # "sunk"
      BY <2>7 DEF ClassAgreed, HintsAgreed, CountAgreed, FastDFAgreed, TotalsAgreed,
        AllThrow, AllGoto, AfterCosmology
    <3>3. QED  BY <2>1, <3>1, <3>2 DEF Refused
  <2>8. QED  BY <1>4, <2>5, <2>6, <2>7 DEF Collective
<1>5. CASE UNCHANGED vars
  <2>1. UNCHANGED <<job, pc, sp, status, result, failed>>
    BY <1>5 DEF vars, history
  <2>2. AllFail' <=> AllFail
    BY <2>1, HeadingFrame DEF AllFail
  <2>3. QED  BY <1>0, <2>1, <2>2 DEF Refused
<1>6. QED  BY <1>1, <1>2, <1>3, <1>4, <1>5 DEF Next

\* The log grows at a callback only, and then the callback's rank goes on.
LEMMA LogQuiet ==
  ASSUME ControlInv, [Next]_vars, AllFail'
  PROVE  UNCHANGED <<log, failed>> \/ \A r \in Rank : log'[r] = <<>> /\ ~failed'[r]
<1>0. TypeInv /\ \A r \in Rank : Place(r) /\ Globals(r)
  BY DEF ControlInv, PlaceInv, GlobalsInv
<1>1. CASE HostCall
  BY <1>1 DEF HostCall
<1>2. ASSUME NEW s \in Rank, LocalStep(s)
      PROVE  UNCHANGED <<log, failed>>
  <2>1. Heading(s)' = Heading(s) /\ Heading(s)' = "fail"
    BY <1>0, <1>2, HeadingLocal DEF AllFail
  <2>2. ~Calls(s)
    BY <1>0, <2>1, HadCallback
  <2>3. QED  BY <1>0, <1>2, <2>2, HadLocal
<1>3. ASSUME NEW s \in Rank, LocalFault(s)
      PROVE  UNCHANGED <<log, failed>>
  BY <1>3 DEF LocalFault, history
<1>4. CASE Collective
  BY <1>0, <1>4, HadCollective, RankAssumption
<1>5. CASE UNCHANGED vars
  BY <1>5 DEF vars, history
<1>6. QED  BY <1>1, <1>2, <1>3, <1>4, <1>5 DEF Next

LEMMA FailureNext ==
  ASSUME CallbackCode \subseteq Nat
  PROVE  ControlInv /\ LogInv /\ FailureInv /\ [Next]_vars /\ ControlInv' /\ LogInv'
           => FailureInv'
<1>1. ControlInv /\ FailureInv /\ [Next]_vars => (\A q \in Rank : Refused(q))'
  BY RefusedNext
<1>2. (ControlInv /\ LogInv /\ \A q \in Rank : Refused(q))'
        => (\A q, r \in Rank : failed[q] /\ ~AllFail => Seen(r) <= Seen(q))'
  BY NobodyAhead, PTL
<1>3. ASSUME ControlInv, LogInv, FailureInv, [Next]_vars, ControlInv', LogInv'
      PROVE  FailureStopsStream'
  <2>1. CASE AllFail'
    BY <1>3, <2>1, LogQuiet, EmptySeq DEF FailureInv, FailureStopsStream
  <2>2. CASE ~AllFail'
    BY <1>1, <1>2, <1>3, <2>2 DEF FailureStopsStream, Seen
  <2>3. QED  BY <2>1, <2>2
<1>4. QED  BY <1>1, <1>3 DEF FailureInv

LEMMA FailureCorrect ==
  ASSUME CallbackCode \subseteq Nat
  PROVE  Spec => []FailureInv
<1>1. Init => FailureInv
  BY FailureInit
<1>2. ControlInv /\ LogInv /\ FailureInv /\ [Next]_vars /\ ControlInv' /\ LogInv'
        => FailureInv'
  BY FailureNext
<1>3. QED  BY <1>1, <1>2, ControlCorrect, LogCorrect, PTL DEF Spec

\* When the host reports failures with positive codes, check_callback_status
\* stops the stream on every rank at the callback that failed.
THEOREM StreamStops ==
  ASSUME CallbackCode \subseteq Nat
  PROVE  Spec => []FailureStopsStream
<1>1. FailureInv => FailureStopsStream
  BY DEF FailureInv
<1>2. QED  BY <1>1, FailureCorrect, PTL

\* A rank that heads for the return of 0 after a call of the host has had the
\* whole script.
LEMMA ReturnHad ==
  ASSUME TypeInv, NEW q \in Rank, Place(q), call # 0, Heading(q) = "return"
  PROVE  Had(q) = ScriptLength
<1>1. pc[q] \in {"idle", "close", "entry", "config", "cosmo", "plugin", "audit"}
  BY DEF Heading, Waiting, SpeciesHeading
<1>2. CASE pc[q] = "idle"
  BY <1>2 DEF Had
<1>3. CASE pc[q] = "close"
  <2>1. job.kind = "generate" /\ sp[q] = NumSpecies + 1
    BY <1>3 DEF Place, InGenerate, Announced, Begun, AfterLoop
  <2>2. NumSpecies \in Nat /\ ScriptLength = NumSpecies + 2
    BY <2>1, ScriptLengthFact, JobFact DEF TypeInv, TypeOK
  <2>3. Had(q) = NumSpecies + 1 + 1
    BY <1>3, <2>1 DEF Had
  <2>4. \A n \in Nat : n + 1 + 1 = n + 2
    OBVIOUS
  <2>5. QED  BY <2>2, <2>3, <2>4
<1>4. CASE pc[q] \in {"entry", "config", "cosmo", "plugin", "audit"}
  <2>1. job.kind = "prepare"
    BY <1>4 DEF Heading, Waiting, EntryHeading, ConfigHeading, CosmoHeading, AuditHeading
  <2>2. ScriptLength = 0
    BY <2>1, EmptySeq DEF ScriptLength, Script
  <2>3. QED  BY <1>4, <2>2 DEF Had
<1>5. QED  BY <1>1, <1>2, <1>3, <1>4

\* A rank that has returned 0 knows that every rank has had the whole stream.
LEMMA ReturnedZero ==
  ControlInv /\ LogInv /\ FailureInv => SuccessMeansDelivered
<1> SUFFICES ASSUME ControlInv, LogInv, FailureInv, NEW r \in Rank, result[r] = 0
             PROVE  /\ background[r] = call
                    /\ \A q \in Rank : log[q] = Script(job) /\ ~failed[q]
  BY DEF SuccessMeansDelivered
<1>0. TypeInv /\ \A q \in Rank : Place(q) /\ Globals(q)
  BY DEF ControlInv, PlaceInv, GlobalsInv
<1>1. pc[r] = "idle" /\ call # 0 /\ Heading(r) = "return"
  BY <1>0 DEF Place, NoResult, Heading, Waiting
<1>2. background[r] = call
  BY <1>0 DEF Globals
<1>3. ASSUME NEW q \in Rank
      PROVE  log[q] = Script(job) /\ ~failed[q]
  <2>1. Heading(q) = "return"
    BY <1>1 DEF ControlInv, Lockstep
  <2>2. Seen(q) = Had(q)
    BY <2>1 DEF LogInv, CountedLog
  <2>3. Had(q) = ScriptLength
    BY <1>0, <1>1, <2>1, ReturnHad
  <2>4. log[q] \in Seq(Event) /\ Script(job) \in Seq(Event)
    <3>1. job \in Job /\ log[q] \in Seq(Event)
      BY <1>0, JobsAssumption DEF TypeInv, TypeOK
    <3>2. CASE job.kind = "generate"
      BY <3>1, <3>2, ScriptFact
    <3>3. CASE job.kind # "generate"
      BY <3>1, <3>3, EmptySeq DEF Script
    <3>4. QED  BY <3>1, <3>2, <3>3
  <2>5. /\ Len(log[q]) = Len(Script(job))
        /\ \A i \in 1 .. Len(log[q]) : log[q][i] = Script(job)[i]
    BY <2>2, <2>3 DEF Seen, ScriptLength, LogInv, HostOrder
  <2>6. log[q] = Script(job)
    BY <2>4, <2>5, SeqEqual
  <2>7. ~failed[q]
    BY <2>1 DEF FailureInv, Refused, AllFail, Heading, Waiting
  <2>8. QED  BY <2>6, <2>7
<1>4. QED  BY <1>2, <1>3

\* Under the same assumption a call that returns 0 on one rank delivered the
\* whole stream on every rank, no callback refused it, and the background
\* table of the rank is the one this call computed.
THEOREM SuccessIsDelivered ==
  ASSUME CallbackCode \subseteq Nat
  PROVE  Spec => []SuccessMeansDelivered
<1>1. QED  BY ReturnedZero, ControlCorrect, LogCorrect, FailureCorrect, PTL

-----------------------------------------------------------------------------
(***************************************************************************)
(* The counts                                                              *)
(***************************************************************************)
\* Nothing has been handed over before the first batch.
LEMMA ShareZero ==
  ASSUME NEW j, NEW r \in Rank
  PROVE  ShareUpTo(j, r, 0) = Zero
BY DEF ShareUpTo, Zero

\* One more batch adds the rank's share of its species, which was not there yet.
LEMMA ShareNext ==
  ASSUME job \in Jobs, NEW r \in Rank, sp[r] \in Nat \ {0}, sp[r] <= NumSpecies
  PROVE  [ShareUpTo(job, r, sp[r] - 1) EXCEPT ![Species(r)] = @ + Made(r)]
           = ShareUpTo(job, r, sp[r])
<1> DEFINE l == SpeciesList(job)
<1>1. job \in Job
  BY JobsAssumption
<1>2. /\ NumSpecies \in Nat /\ NumSpecies = Len(l)
      /\ \A i \in 1 .. NumSpecies : l[i] \in Type
      /\ \A i, k \in 1 .. NumSpecies : l[i] = l[k] => i = k
  BY <1>1, SpeciesListFact DEF NumSpecies
<1>3. Species(r) = l[sp[r]] /\ Made(r) = job.made[l[sp[r]]][r]
  BY DEF Species, Made
<1>4. l[sp[r]] \in Type /\ job.made[l[sp[r]]][r] \in Nat
  BY <1>1, <1>2 DEF Job
<1>5. ASSUME NEW t \in Type
      PROVE  /\ ShareUpTo(job, r, sp[r] - 1)[t] =
                  IF \E i \in 1 .. sp[r] - 1 : l[i] = t THEN job.made[t][r] ELSE 0
             /\ ShareUpTo(job, r, sp[r])[t] =
                  IF \E i \in 1 .. sp[r] : l[i] = t THEN job.made[t][r] ELSE 0
  <2>1. /\ \A i \in 1 .. sp[r] : i <= Len(l)
        /\ \A i \in 1 .. sp[r] - 1 : i <= Len(l)
    BY <1>2
  <2>2. QED  BY <2>1 DEF ShareUpTo
<1> HIDE DEF l
<1>6. ~ \E i \in 1 .. sp[r] - 1 : l[i] = l[sp[r]]
  BY <1>2
<1>7. ASSUME NEW t \in Type, t # l[sp[r]]
      PROVE  (\E i \in 1 .. sp[r] : l[i] = t) <=> (\E i \in 1 .. sp[r] - 1 : l[i] = t)
  BY <1>7
<1>8. \E i \in 1 .. sp[r] : l[i] = l[sp[r]]
  OBVIOUS
<1> DEFINE a == ShareUpTo(job, r, sp[r] - 1)
           b == ShareUpTo(job, r, sp[r])
<1>9. a = [t \in Type |-> a[t]] /\ b = [t \in Type |-> b[t]]
  BY DEF ShareUpTo
<1>10. /\ a[l[sp[r]]] = 0 /\ b[l[sp[r]]] = job.made[l[sp[r]]][r]
       /\ \A t \in Type : t # l[sp[r]] => a[t] = b[t]
  BY <1>4, <1>5, <1>6, <1>7, <1>8
<1> HIDE DEF a, b
<1>11. [a EXCEPT ![l[sp[r]]] = @ + job.made[l[sp[r]]][r]] = b
  BY <1>4, <1>9, <1>10
<1>12. QED  BY <1>3, <1>11 DEF a, b

\* A rank on its way from one collective to the next keeps its counts.
LEMMA CountsLocal ==
  ASSUME TypeInv, NEW r \in Rank, Place(r), Globals(r), Counts(r), CountedLog(r),
         LocalStep(r)
  PROVE  Counts(r)'
<1>0. UNCHANGED <<call, job, sp>> /\ ScriptLength' = ScriptLength
  BY LocalStay DEF ScriptLength, Script, SpeciesList
<1>1. pc[r] # "sunk" /\ pc'[r] # "sunk"
  BY LocalNotSunk
<1>2. /\ pc'[r] \in Announced => pc[r] \in Announced /\ local'[r] = local[r]
      /\ pc'[r] \in AfterLoop \ {"totals"} => pc[r] \in AfterLoop \ {"totals"}
  <2> USE DEF Announced, Begun, InLoop, AfterLoop, TypeInv, TypeOK, Throw, Goto, ReturnTo,
              globals, history
  <2>1. CASE CheckArguments(r)
    BY <2>1 DEF CheckArguments
  <2>2. CASE Begin(r)
    BY <2>2 DEF Begin
  <2>3. CASE BuildCosmology(r)
    BY <2>3 DEF BuildCosmology, AfterCosmology
  <2>4. CASE MakeOutputPlugin(r)
    BY <2>4 DEF MakeOutputPlugin
  <2>5. CASE BeginCallback(r)
    BY <2>5 DEF BeginCallback
  <2>6. CASE StartRun(r)
    BY <2>6 DEF StartRun
  <2>7. CASE GenerateLattice(r)
    BY <2>7 DEF GenerateLattice
  <2>8. CASE RunFastDF(r)
    BY <2>8 DEF RunFastDF
  <2>9. CASE BatchCallback(r)
    BY <2>9, <1>1 DEF BatchCallback
  <2>10. CASE FinishTransfer(r)
    BY <2>10 DEF FinishTransfer
  <2>11. CASE EndCallback(r)
    BY <2>11 DEF EndCallback
  <2>12. CASE Close(r)
    BY <2>12 DEF Close
  <2>13. CASE Audit(r)
    BY <2>13 DEF Audit
  <2>14. CASE Catch(r)
    BY <2>14 DEF Catch
  <2>15. QED
    BY <2>1, <2>2, <2>3, <2>4, <2>5, <2>6, <2>7, <2>8, <2>9, <2>10, <2>11, <2>12, <2>13,
       <2>14 DEF LocalStep
<1>3. job.kind = "generate" /\ Seen(r)' = ScriptLength => AddsUp(job)
  <2>1. CASE ~Calls(r)
    BY <2>1, HadLocal DEF Counts, Seen
  <2>2. CASE EndCallback(r)
    BY <2>2 DEF EndCallback, Counts, AfterLoop
  <2>3. CASE Calls(r) /\ ~EndCallback(r)
    <3>1. /\ Had(r)' = Had(r) + 1 /\ Had(r) \in Nat
          /\ log'[r] = Append(log[r], Script(job)[Had(r) + 1])
          /\ Heading(r) # "fail" /\ pc[r] \in {"begin", "batch", "end"}
      BY <2>3, HadCallback
    <3>2. pc[r] \in {"begin", "batch"} /\ job.kind = "generate"
      BY <2>3, <3>1 DEF Calls, BeginCallback, BatchCallback, Place, InGenerate, Announced,
        Begun, InLoop
    <3>3. Seen(r) = Had(r) /\ Had(r) <= NumSpecies
      <4>1. sp[r] \in Nat /\ NumSpecies \in Nat /\ 1 <= NumSpecies
        BY JobFact DEF TypeInv, TypeOK
      <4>2. pc[r] = "batch" => sp[r] <= NumSpecies
        BY DEF TypeInv, LoopInv, InLoop
      <4>3. QED  BY <3>1, <3>2, <4>1, <4>2 DEF CountedLog, Had
    <3>4. Seen(r)' = Seen(r) + 1
      <4>1. log[r] \in Seq(Event)
        BY DEF TypeInv, TypeOK
      <4>2. Len(log'[r]) = Len(log[r]) + 1
        BY <3>1, <4>1
      <4>3. QED  BY <4>2 DEF Seen
    <3>5. ScriptLength = NumSpecies + 2 /\ NumSpecies \in Nat
      BY <3>2, ScriptLengthFact, JobFact DEF TypeInv, TypeOK
    <3>6. QED  BY <3>1, <3>3, <3>4, <3>5
  <2>4. QED  BY <2>1, <2>2, <2>3
<1>4. Accepted(r)' = Accepted(r)
  BY <1>0, <1>1 DEF Accepted
<1>5. QED  BY <1>0, <1>1, <1>2, <1>3, <1>4 DEF Counts

\* What a collective does to the counts.
LEMMA CountsCollective ==
  ASSUME TypeInv, PlaceInv, GlobalsInv, Lockstep, CountsInv, Collective, NEW r \in Rank
  PROVE  Counts(r)'
<1>0. /\ job \in Jobs /\ sp[r] \in Nat \ {0} /\ NumSpecies \in Nat
      /\ UNCHANGED <<call, job, log>> /\ ScriptLength' = ScriptLength
      /\ Place(r) /\ Globals(r) /\ Counts(r)
  BY HadCollective, JobFact DEF TypeInv, TypeOK, PlaceInv, GlobalsInv, CountsInv, ScriptLength,
    Script, SpeciesList
<1>1. job.kind = "generate" /\ Seen(r)' = ScriptLength => AddsUp(job)
  BY <1>0 DEF Counts, Seen
<1>2. SUFFICES /\ pc'[r] = "sunk" => status'[r] \in {0, 1}
               /\ pc'[r] \in Announced => local'[r] = ShareUpTo(job, r, Accepted(r)')
               /\ pc'[r] \in AfterLoop \ {"totals"} => AddsUp(job)
  BY <1>0, <1>1 DEF Counts
<1> USE DEF AllThrow, AllGoto, AllAt, Stay, globals, history, Announced, Begun, InLoop,
            AfterLoop
<1>3. CASE ClassAgreed
  BY <1>3 DEF ClassAgreed, AfterCosmology
<1>4. CASE HintsAgreed
  <2>1. pc'[r] \in {"begin", "unwind"} /\ sp'[r] = 1
    BY <1>0, <1>4 DEF HintsAgreed, Place, InGenerate
  <2>2. pc'[r] = "begin" => local'[r] = Zero /\ Accepted(r)' = 0
    BY <1>4, <2>1 DEF HintsAgreed, Accepted
  <2>3. QED  BY <2>1, <2>2, ShareZero
<1>5. CASE BegunAgreed
  <2>1. pc'[r] \in {"run", "unwind"} /\ local'[r] = local[r] /\ pc[r] = "begun" /\ sp'[r] = sp[r]
    BY <1>5 DEF BegunAgreed
  <2>2. QED  BY <1>0, <2>1 DEF Counts, Accepted
<1>6. CASE CountAgreed
  <2>1. /\ pc'[r] \in {"batch", "unwind"} /\ local'[r] = local[r] /\ pc[r] = "count"
        /\ sp'[r] = sp[r]
    BY <1>6 DEF CountAgreed
  <2>2. QED  BY <1>0, <2>1 DEF Counts, Accepted
<1>7. CASE FastDFAgreed
  <2>1. /\ pc'[r] \in {"batch", "unwind"} /\ local'[r] = local[r] /\ pc[r] = "fastdf"
        /\ sp'[r] = sp[r]
    BY <1>7 DEF FastDFAgreed
  <2>2. QED  BY <1>0, <2>1 DEF Counts, Accepted
<1>8. CASE BatchAgreed
  <2>1. pc[r] = "batched" /\ local[r] = ShareUpTo(job, r, sp[r] - 1) /\ sp[r] <= NumSpecies
    BY <1>0, <1>8 DEF BatchAgreed, Counts, Accepted, TypeInv, LoopInv
  <2>2. CASE MaxIsZero(status)
    <3>1. local'[r] = [local[r] EXCEPT ![Species(r)] = @ + Made(r)]
      BY <1>8, <2>2 DEF BatchAgreed
    <3>2. local'[r] = ShareUpTo(job, r, sp[r])
      BY <1>0, <2>1, <3>1, ShareNext
    <3>3. \/ pc'[r] = "sunk" /\ status'[r] = 0 /\ sp'[r] = sp[r]
          \/ pc'[r] = "species" /\ sp'[r] = sp[r] + 1
      BY <1>8, <2>2 DEF BatchAgreed
    <3>4. Accepted(r)' = sp[r]
      BY <1>0, <3>3 DEF Accepted
    <3>5. QED  BY <3>2, <3>3, <3>4
  <2>3. CASE ~MaxIsZero(status)
    <3>1. local'[r] = local[r] /\ sp'[r] = sp[r] /\ status'[r] = 1 /\ pc'[r] \in {"sunk", "unwind"}
      BY <1>8, <2>3 DEF BatchAgreed
    <3>2. Accepted(r)' = sp[r] - 1
      BY <3>1 DEF Accepted
    <3>3. QED  BY <2>1, <3>1, <3>2
  <2>4. QED  BY <2>2, <2>3
<1>9. CASE SunkAgreed
  <2>1. CASE MaxIsZero(status)
    <3>1. status[r] <= 0 /\ pc[r] = "sunk" /\ pc'[r] = "species" /\ sp'[r] = sp[r] + 1
          /\ local'[r] = local[r]
      BY <1>9, <2>1 DEF SunkAgreed, MaxIsZero
    <3>2. status[r] = 0
      BY <1>0, <3>1 DEF Counts
    <3>3. Accepted(r) = sp[r] /\ Accepted(r)' = sp[r]
      BY <1>0, <3>1, <3>2 DEF Accepted
    <3>4. QED  BY <1>0, <3>1, <3>3 DEF Counts
  <2>2. CASE ~MaxIsZero(status)
    BY <1>9, <2>2 DEF SunkAgreed
  <2>3. QED  BY <2>1, <2>2
<1>10. CASE TotalsAgreed
  <2>1. /\ pc[r] = "totals" /\ pc'[r] \in {"end", "unwind"} /\ local'[r] = local[r]
        /\ sp'[r] = sp[r]
    BY <1>10 DEF TotalsAgreed
  <2>2. pc'[r] = "end" => [t \in Type |-> Sum([q \in Rank |-> local[q][t]])] = job.num
    BY <1>0, <1>10 DEF TotalsAgreed, Globals
  <2>3. ASSUME NEW q \in Rank
        PROVE  local[q] = ShareUpTo(job, q, Len(SpeciesList(job)))
    <3>1. pc[q] = "totals" /\ Counts(q) /\ Place(q)
      BY <1>10 DEF TotalsAgreed, CountsInv, PlaceInv
    <3>2. sp[q] = NumSpecies + 1 /\ sp[q] \in Nat
      BY <3>1 DEF Place, TypeInv, TypeOK
    <3>3. Accepted(q) = NumSpecies
      BY <1>0, <3>1, <3>2 DEF Accepted
    <3>4. QED  BY <3>1, <3>3 DEF Counts, NumSpecies
  <2>4. ASSUME NEW t \in Type
        PROVE  [q \in Rank |-> local[q][t]]
                 = [q \in Rank |-> ShareUpTo(job, q, Len(SpeciesList(job)))[t]]
    BY <2>3
  <2>5. pc'[r] = "end" => AddsUp(job)
    <3>1. ASSUME pc'[r] = "end", NEW t \in Type
          PROVE  Sum([q \in Rank |-> ShareUpTo(job, q, Len(SpeciesList(job)))[t]]) = job.num[t]
      <4>1. Sum([q \in Rank |-> local[q][t]]) = job.num[t]
        BY <2>2, <3>1
      <4>2. QED  BY <2>4, <4>1
    <3>2. QED  BY <3>1 DEF AddsUp
  <2>6. QED  BY <1>0, <2>1, <2>5 DEF Counts, Accepted
<1>11. CASE EndedAgreed
  <2>1. /\ pc[r] = "ended" /\ pc'[r] \in {"close", "unwind"} /\ local'[r] = local[r]
        /\ sp'[r] = sp[r]
    BY <1>11 DEF EndedAgreed
  <2>2. QED  BY <1>0, <2>1 DEF Counts, Accepted
<1>12. QED
  BY <1>3, <1>4, <1>5, <1>6, <1>7, <1>8, <1>9, <1>10, <1>11 DEF Collective

\* The counts of a rank are its own.
LEMMA CountsFrame ==
  ASSUME NEW r \in Rank, Counts(r), UNCHANGED <<call, job, sp>>, pc'[r] = pc[r],
         status'[r] = status[r], local'[r] = local[r], log'[r] = log[r]
  PROVE  Counts(r)'
<1>1. ScriptLength' = ScriptLength /\ Accepted(r)' = Accepted(r) /\ Seen(r)' = Seen(r)
  BY DEF ScriptLength, Script, SpeciesList, Accepted, Seen
<1>2. QED  BY <1>1 DEF Counts

LEMMA CountsNext ==
  ASSUME ControlInv, LogInv, CountsInv, [Next]_vars, ControlInv'
  PROVE  CountsInv'
<1>0. TypeInv /\ \A r \in Rank : Place(r) /\ Globals(r) /\ Counts(r) /\ CountedLog(r)
  BY DEF ControlInv, PlaceInv, GlobalsInv, CountsInv, LogInv
<1>1. CASE HostCall
  <2>1. ASSUME NEW r \in Rank
        PROVE  pc'[r] = "entry" /\ Seen(r)' = 0
    BY <1>1 DEF HostCall, AllGoto, Seen
  <2>2. job'.kind = "generate" => ScriptLength' # 0
    <3>1. job' \in Job
      BY JobsAssumption DEF ControlInv, TypeInv, TypeOK
    <3>2. job'.kind = "generate" => ScriptLength' = Len(SpeciesList(job')) + 2
      BY <3>1, ScriptFact DEF ScriptLength
    <3>3. Len(SpeciesList(job')) \in Nat
      BY <3>1, SpeciesListFact
    <3>4. \A n \in Nat : n + 2 # 0
      OBVIOUS
    <3>5. QED  BY <3>2, <3>3, <3>4
  <2>3. QED
    BY <2>1, <2>2 DEF CountsInv, Counts, Announced, Begun, InLoop, AfterLoop
<1>2. ASSUME NEW s \in Rank, LocalStep(s), NEW r \in Rank
      PROVE  Counts(r)'
  <2>1. CASE r = s
    BY <1>0, <1>2, <2>1, CountsLocal
  <2>2. CASE r # s
    BY <1>0, <1>2, <2>2, LocalStay, LocalFrame, CountsFrame DEF TypeInv
  <2>3. QED  BY <2>1, <2>2
<1>3. ASSUME NEW s \in Rank, LocalFault(s), NEW r \in Rank
      PROVE  Counts(r)'
  <2>1. CASE r = s
    <3>1. pc'[r] = "unwind" /\ UNCHANGED <<call, job, sp, log>>
      BY <1>0, <1>3, <2>1 DEF LocalFault, Throw, Goto, Stay, history, TypeInv, TypeOK
    <3>2. ScriptLength' = ScriptLength /\ Seen(r)' = Seen(r)
      BY <3>1 DEF ScriptLength, Script, SpeciesList, Seen
    <3>3. QED
      BY <1>0, <3>1, <3>2 DEF Counts, Announced, Begun, InLoop, AfterLoop
  <2>2. CASE r # s
    BY <1>0, <1>3, <2>2, LocalStay, LocalFrame, CountsFrame DEF TypeInv
  <2>3. QED  BY <2>1, <2>2
<1>4. ASSUME Collective, NEW r \in Rank
      PROVE  Counts(r)'
  BY <1>4, CountsCollective DEF ControlInv
<1>5. ASSUME UNCHANGED vars, NEW r \in Rank
      PROVE  Counts(r)'
  BY <1>0, <1>5, CountsFrame DEF vars, globals, history
<1>6. QED  BY <1>1, <1>2, <1>3, <1>4, <1>5 DEF Next, CountsInv

LEMMA CountsCorrect == Spec => []CountsInv
<1>1. Init => CountsInv
  <2>1. ASSUME Init, NEW r \in Rank
        PROVE  pc[r] = "idle" /\ Seen(r) = 0
    BY <2>1 DEF Init, Seen
  <2>2. ASSUME Init, job.kind = "generate"
        PROVE  ScriptLength # 0
    <3>1. TypeInv /\ NumSpecies \in Nat
      BY <2>2, TypeInit, JobFact DEF Init
    <3>2. ScriptLength = NumSpecies + 2
      BY <2>2, <3>1, ScriptLengthFact
    <3>3. QED  BY <3>1, <3>2
  <2>3. QED
    BY <2>1, <2>2 DEF CountsInv, Counts, Announced, Begun, InLoop, AfterLoop
<1>2. ControlInv /\ LogInv /\ CountsInv /\ [Next]_vars /\ ControlInv' => CountsInv'
  BY CountsNext
<1>3. QED  BY <1>1, <1>2, ControlCorrect, LogCorrect, PTL DEF Spec

\* Once a rank has seen end, all ranks have seen every batch.
LEMMA EndSeen ==
  ASSUME TypeInv, LogInv, NEW r \in Rank, \E i \in 1 .. Len(log[r]) : log[r][i] = EndEvent
  PROVE  /\ job.kind = "generate" /\ Seen(r) = ScriptLength
         /\ \A q \in Rank : Seen(q) >= NumSpecies + 1
<1>0. /\ job \in Job /\ job.kind \in {"generate", "prepare"}
      /\ NumSpecies \in Nat /\ 1 <= NumSpecies /\ ScriptLength \in Nat
      /\ \A q \in Rank : Seen(q) \in Nat
  BY JobsAssumption, JobFact, ScriptLengthFact, SeenFact DEF TypeInv, TypeOK, Job
<1>1. PICK i \in 1 .. Seen(r) : log[r][i] = EndEvent
  BY DEF Seen
<1>2. Seen(r) <= ScriptLength /\ Script(job)[i] = EndEvent
  BY <1>1 DEF LogInv, HostOrder, Seen, ScriptLength
<1>3. job.kind = "generate" /\ ScriptLength = NumSpecies + 2
  BY <1>0, <1>1, <1>2, ScriptLengthFact
<1>4. i \notin 1 .. NumSpecies + 1
  <2>1. i # 1
    BY <1>2, <1>3, NextEvent DEF BeginEvent, EndEvent
  <2>2. ASSUME NEW k \in 1 .. NumSpecies, i = k + 1
        PROVE  FALSE
    <3>1. Script(job)[k + 1] = SpeciesList(job)[k] /\ SpeciesList(job)[k] \in Type
      BY <1>0, <1>3, ScriptFact, SpeciesListFact DEF NumSpecies
    <3>2. QED  BY <1>2, <2>2, <3>1 DEF Type, EndEvent, Baryon, DM, Neutrino
  <2>3. i \in 1 .. NumSpecies + 1 => i - 1 \in 1 .. NumSpecies /\ i = (i - 1) + 1
    BY <1>0, <2>1
  <2>4. QED  BY <2>2, <2>3
<1>5. Seen(r) = ScriptLength
  BY <1>0, <1>1, <1>2, <1>3, <1>4
<1>6. \A q \in Rank : Seen(q) >= NumSpecies + 1
  BY <1>0, <1>3, <1>5 DEF LogInv, Near
<1>7. QED  BY <1>3, <1>5, <1>6

\* A rank that has seen every batch has been handed its share of each species.
LEMMA AllDelivered ==
  ASSUME TypeInv, LogInv, job.kind = "generate", NEW q \in Rank, Seen(q) >= NumSpecies + 1,
         NEW t \in Type
  PROVE  Delivered(q, t) = ShareUpTo(job, q, Len(SpeciesList(job)))[t]
<1>0. /\ job \in Job /\ NumSpecies \in Nat /\ Seen(q) \in Nat
      /\ ScriptLength = NumSpecies + 2
  BY JobsAssumption, JobFact, ScriptLengthFact, SeenFact DEF TypeInv, TypeOK
<1>1. /\ Script(job)[1] = BeginEvent /\ Script(job)[NumSpecies + 2] = EndEvent
      /\ \A k \in 1 .. NumSpecies : Script(job)[k + 1] = SpeciesList(job)[k]
  BY <1>0, ScriptFact DEF NumSpecies
<1>2. Seen(q) <= ScriptLength /\ \A i \in 1 .. Seen(q) : log[q][i] = Script(job)[i]
  BY DEF LogInv, HostOrder, Seen, ScriptLength
<1>3. t # BeginEvent /\ t # EndEvent
  BY DEF Type, BeginEvent, EndEvent, Baryon, DM, Neutrino
<1>4. ASSUME NEW i \in 1 .. Seen(q), log[q][i] = t
      PROVE  \E k \in 1 .. NumSpecies : SpeciesList(job)[k] = t
  <2>1. Script(job)[i] = t /\ i # 1 /\ i # NumSpecies + 2
    BY <1>1, <1>2, <1>3, <1>4
  <2>2. i - 1 \in 1 .. NumSpecies /\ i = (i - 1) + 1
    BY <1>0, <1>2, <2>1
  <2>3. SpeciesList(job)[i - 1] = t
    BY <1>1, <2>1, <2>2
  <2>4. QED  BY <2>2, <2>3
<1>5. ASSUME NEW k \in 1 .. NumSpecies, SpeciesList(job)[k] = t
      PROVE  \E i \in 1 .. Seen(q) : log[q][i] = t
  <2>1. k + 1 \in 1 .. Seen(q)
    BY <1>0
  <2>2. log[q][k + 1] = t
    BY <1>1, <1>2, <1>5, <2>1
  <2>3. QED  BY <2>1, <2>2
<1>6. Delivered(q, t) =
        IF \E k \in 1 .. NumSpecies : SpeciesList(job)[k] = t THEN job.made[t][q] ELSE 0
  BY <1>4, <1>5 DEF Delivered, Seen
<1>7. ShareUpTo(job, q, NumSpecies)[t] =
        IF \E k \in 1 .. NumSpecies : SpeciesList(job)[k] = t THEN job.made[t][q] ELSE 0
  <2>1. \A k \in 1 .. NumSpecies : k <= Len(SpeciesList(job))
    BY <1>0 DEF NumSpecies
  <2>2. QED  BY <2>1 DEF ShareUpTo
<1>8. QED  BY <1>6, <1>7 DEF NumSpecies

\* When the host sees end on a rank, the batches it has seen on all ranks add up,
\* type by type, to the counts finish_particle_transfer checked them against.
THEOREM EndIsComplete == Spec => []EndMeansComplete
<1>1. ASSUME ControlInv, LogInv, CountsInv
      PROVE  EndMeansComplete
  <2> SUFFICES ASSUME NEW r \in Rank, \E i \in 1 .. Len(log[r]) : log[r][i] = EndEvent,
                      NEW t \in Type
               PROVE  Sum([q \in Rank |-> Delivered(q, t)]) = job.num[t]
    BY DEF EndMeansComplete
  <2>0. TypeInv
    BY <1>1 DEF ControlInv
  <2>1. /\ job.kind = "generate" /\ Seen(r) = ScriptLength
        /\ \A q \in Rank : Seen(q) >= NumSpecies + 1
    BY <1>1, <2>0, EndSeen
  <2>2. AddsUp(job)
    BY <1>1, <2>1 DEF CountsInv, Counts
  <2>3. [q \in Rank |-> Delivered(q, t)]
          = [q \in Rank |-> ShareUpTo(job, q, Len(SpeciesList(job)))[t]]
    BY <1>1, <2>0, <2>1, AllDelivered
  <2>4. QED  BY <2>2, <2>3 DEF AddsUp
<1>2. ControlInv /\ LogInv /\ CountsInv => EndMeansComplete
  BY <1>1
<1>3. QED  BY <1>2, ControlCorrect, LogCorrect, CountsCorrect, PTL

-----------------------------------------------------------------------------
(***************************************************************************)
(* The background table                                                    *)
(***************************************************************************)
\* From clear_background on, the table is empty or of this call; the handler of
\* monofonic_prepare_background empties it.
Fresh(r) ==
  /\ pc[r] \notin {"entry", "config"} /\ job.reject \notin {"args", "config"} /\ ~LocalFaults
       => background[r] \in {0, call}
  /\ pc[r] = "idle" /\ result[r] = 1 /\ job.kind = "prepare" /\ job.reject # "args"
       => background[r] = 0
FreshInv == \A r \in Rank : Fresh(r)

LEMMA FreshLocal ==
  ASSUME TypeInv, NEW r \in Rank, Place(r), Fresh(r), LocalStep(r) \/ LocalFault(r)
  PROVE  Fresh(r)'
<1>0. UNCHANGED <<call, job>>
  BY LocalStay
<1> USE <1>0 DEF TypeInv, TypeOK, Fresh, Throw, Goto, ReturnTo, globals, history
<1>1. CASE CheckArguments(r)
  BY <1>1 DEF CheckArguments
<1>2. CASE Begin(r)
  BY <1>2 DEF Begin
<1>3. CASE BuildCosmology(r)
  BY <1>3 DEF BuildCosmology, AfterCosmology
<1>4. CASE MakeOutputPlugin(r)
  BY <1>4 DEF MakeOutputPlugin
<1>5. CASE BeginCallback(r)
  BY <1>5 DEF BeginCallback
<1>6. CASE StartRun(r)
  BY <1>6 DEF StartRun
<1>7. CASE GenerateLattice(r)
  BY <1>7 DEF GenerateLattice
<1>8. CASE RunFastDF(r)
  BY <1>8 DEF RunFastDF
<1>9. CASE BatchCallback(r)
  BY <1>9 DEF BatchCallback
<1>10. CASE FinishTransfer(r)
  BY <1>10 DEF FinishTransfer
<1>11. CASE EndCallback(r)
  BY <1>11 DEF EndCallback
<1>12. CASE Close(r)
  BY <1>12 DEF Close
<1>13. CASE Audit(r)
  BY <1>13 DEF Audit
<1>14. CASE Catch(r)
  BY <1>14 DEF Catch
<1>15. CASE LocalFault(r)
  BY <1>15, LocalFaultsAssumption DEF LocalFault
<1>16. QED
  BY <1>1, <1>2, <1>3, <1>4, <1>5, <1>6, <1>7, <1>8, <1>9, <1>10, <1>11, <1>12, <1>13,
     <1>14, <1>15 DEF LocalStep

LEMMA FreshCollective ==
  ASSUME NEW r \in Rank, Fresh(r), Collective
  PROVE  Fresh(r)'
<1> USE DEF Fresh, AllThrow, AllGoto, AllAt, Stay, globals, history
<1>1. CASE ClassAgreed
  BY <1>1 DEF ClassAgreed, AfterCosmology
<1>2. CASE HintsAgreed
  BY <1>2 DEF HintsAgreed
<1>3. CASE BegunAgreed
  BY <1>3 DEF BegunAgreed
<1>4. CASE CountAgreed
  BY <1>4 DEF CountAgreed
<1>5. CASE FastDFAgreed
  BY <1>5 DEF FastDFAgreed
<1>6. CASE BatchAgreed
  BY <1>6 DEF BatchAgreed
<1>7. CASE SunkAgreed
  BY <1>7 DEF SunkAgreed
<1>8. CASE TotalsAgreed
  BY <1>8 DEF TotalsAgreed
<1>9. CASE EndedAgreed
  BY <1>9 DEF EndedAgreed
<1>10. QED
  BY <1>1, <1>2, <1>3, <1>4, <1>5, <1>6, <1>7, <1>8, <1>9 DEF Collective

\* A call that got as far as reading its configuration never leaves the table
\* of an earlier call, and a failed prepare leaves none.
THEOREM NoStaleBackground == Spec => []BackgroundIsFresh
<1>1. Init => FreshInv
  BY DEF Init, FreshInv, Fresh, NoResult
<1>2. ControlInv /\ FreshInv /\ [Next]_vars => FreshInv'
  <2> SUFFICES ASSUME ControlInv, FreshInv, [Next]_vars, NEW r \in Rank
               PROVE  Fresh(r)'
    BY DEF FreshInv
  <2>0. TypeInv /\ Place(r) /\ Fresh(r)
    BY DEF ControlInv, PlaceInv, FreshInv
  <2>1. CASE HostCall
    BY <2>1 DEF HostCall, AllGoto, Fresh
  <2>2. ASSUME NEW s \in Rank, LocalStep(s) \/ LocalFault(s)
        PROVE  Fresh(r)'
    <3>1. CASE s = r
      BY <2>0, <2>2, <3>1, FreshLocal
    <3>2. CASE s # r
      <4>1. /\ UNCHANGED <<call, job>> /\ pc'[r] = pc[r] /\ result'[r] = result[r]
            /\ background'[r] = background[r]
        BY <2>0, <2>2, <3>2, LocalStay, LocalFrame DEF TypeInv
      <4>2. QED  BY <2>0, <4>1 DEF Fresh
    <3>3. QED  BY <3>1, <3>2
  <2>3. CASE Collective
    BY <2>0, <2>3, FreshCollective
  <2>4. CASE UNCHANGED vars
    BY <2>0, <2>4 DEF vars, globals, Fresh
  <2>5. QED  BY <2>1, <2>2, <2>3, <2>4 DEF Next
<1>3. FreshInv => BackgroundIsFresh
  BY DEF FreshInv, Fresh, BackgroundIsFresh
<1>4. QED  BY <1>1, <1>2, <1>3, ControlCorrect, PTL DEF Spec

-----------------------------------------------------------------------------
(***************************************************************************)
(* The contract of ParticleSink                                            *)
(***************************************************************************)
\* A call returns at most once on a rank, and on one rank at a time.
LEMMA LocalResult ==
  ASSUME NEW s \in Rank, LocalStep(s)
  PROVE  \/ UNCHANGED result
         \/ pc[s] # "idle" /\ ~Calls(s)
            /\ \E code \in {0, 1} : result' = [result EXCEPT ![s] = code]
<1> USE DEF ReturnTo
<1>1. CASE CheckArguments(s) \/ Close(s) \/ Audit(s) \/ Catch(s)
  <2>1. pc[s] \in {"entry", "close", "audit", "unwind"}
    BY <1>1 DEF CheckArguments, Close, Audit, Catch
  <2>2. ~Calls(s)
    BY <2>1 DEF Calls, BeginCallback, BatchCallback, EndCallback
  <2>3. UNCHANGED result \/ result' = [result EXCEPT ![s] = 0]
                        \/ result' = [result EXCEPT ![s] = 1]
    BY <1>1 DEF CheckArguments, Close, Audit, Catch
  <2>4. QED  BY <2>1, <2>2, <2>3
<1>2. CASE \/ Begin(s) \/ BuildCosmology(s) \/ MakeOutputPlugin(s) \/ BeginCallback(s)
           \/ StartRun(s) \/ GenerateLattice(s) \/ RunFastDF(s) \/ BatchCallback(s)
           \/ FinishTransfer(s) \/ EndCallback(s)
  BY <1>2 DEF Begin, BuildCosmology, MakeOutputPlugin, BeginCallback, StartRun,
    GenerateLattice, RunFastDF, BatchCallback, FinishTransfer, EndCallback
<1>3. QED  BY <1>1, <1>2 DEF LocalStep

\* When a rank gets a callback no rank is behind it, and a rank that refused a
\* callback has had one more.
LEMMA DeliverInStep ==
  ASSUME ControlInv, LogInv, FailureInv, NEW s \in Rank, LocalStep(s), Calls(s),
         NEW q \in Rank
  PROVE  Seen(q) >= Seen(s) /\ (failed[q] => Seen(q) > Seen(s))
<1>0. /\ TypeInv /\ Place(s) /\ Globals(s) /\ Refused(q) /\ Seen(q) \in Nat /\ Seen(s) \in Nat
      /\ sp[q] \in Nat /\ sp[s] \in Nat
  BY SeenFact DEF ControlInv, PlaceInv, GlobalsInv, FailureInv, TypeInv, TypeOK
<1>1. /\ Heading(s) \in {"begun", "batched", "ended"} /\ Had(s) = Before(Heading(s), sp[s])
      /\ pc[s] \in {"begin", "batch", "end"}
  BY <1>0, HadCallback
<1>2. Seen(s) = Had(s)
  BY <1>1 DEF LogInv, CountedLog
<1>3. Seen(q) >= Seen(s)
  <2>1. CASE Heading(q) = "fail"
    BY <1>0, <1>1, <1>2, <2>1 DEF LogInv, LeftBehind
  <2>2. CASE Heading(q) # "fail"
    <3>1. Heading(q) = Heading(s) /\ sp[q] = sp[s]
      BY <1>1, <2>2 DEF ControlInv, Lockstep
    <3>2. Seen(q) = Had(q)
      BY <2>2 DEF LogInv, CountedLog
    <3>3. Had(q) >= Before(Heading(q), sp[q])
      BY <1>0, <1>1, <3>1, <3>2, HadBefore
    <3>4. QED  BY <1>1, <1>2, <3>1, <3>2, <3>3
  <2>3. QED  BY <2>1, <2>2
<1>4. ASSUME failed[q]
      PROVE  Seen(q) > Seen(s)
  <2>1. ~AllFail
    BY <1>1 DEF AllFail
  <2>2. pc[q] \in {"begun", "batched", "ended"}
    BY <1>0, <1>1, <1>4, <2>1 DEF Refused
  <2>3. Heading(q) = pc[q] /\ Heading(s) = pc[q] /\ sp[q] = sp[s]
    <3>1. Heading(q) = pc[q]
      BY <2>2 DEF Heading, Waiting
    <3>2. QED  BY <1>1, <2>2, <3>1 DEF ControlInv, Lockstep
  <2>4. Seen(q) = IF pc[q] = "begun" THEN 1 ELSE sp[q] + 1
    BY <2>2, <2>3 DEF LogInv, CountedLog, Had
  <2>5. Seen(s) = IF pc[q] = "begun" THEN 0 ELSE sp[q]
    BY <1>1, <1>2, <2>2, <2>3 DEF Before
  <2>6. QED  BY <1>0, <2>4, <2>5
<1>5. QED  BY <1>3, <1>4

\* Every step of the bridge is a step of the contract, or invisible to the host.
LEMMA ContractNext ==
  ASSUME ControlInv, LogInv, FailureInv, [Next]_vars, SuccessMeansDelivered'
  PROVE  [Sink!Next]_(Sink!vars)
<1>0. /\ TypeInv /\ \A r \in Rank : Place(r) /\ Globals(r)
  BY DEF ControlInv, PlaceInv, GlobalsInv
<1>1. CASE HostCall
  <2>1. call = 0 \/ \A r \in Rank : result[r] # NoResult
    BY <1>0, <1>1 DEF HostCall, AllAt, Place
  <2>2. Sink!NewCall
    BY <1>1, <2>1 DEF HostCall, Sink!NewCall
  <2>3. QED  BY <2>2 DEF Sink!Next
<1>2. ASSUME NEW s \in Rank, LocalStep(s), Calls(s)
      PROVE  Sink!Deliver(s)
  <2>1. /\ Had(s) < ScriptLength /\ log'[s] = Append(log[s], Script(job)[Had(s) + 1])
        /\ Heading(s) # "fail" /\ pc[s] \in {"begin", "batch", "end"}
        /\ UNCHANGED <<call, job, sp>>
    BY <1>0, <1>2, HadCallback
  <2>2. Len(log[s]) = Had(s)
    BY <2>1 DEF LogInv, CountedLog, Seen
  <2>3. result[s] = NoResult /\ Len(log[s]) < Len(Script(job))
    BY <1>0, <2>1, <2>2 DEF Place, ScriptLength
  <2>4. \A q \in Rank : /\ Len(log[q]) >= Len(log[s])
                        /\ failed[q] => Len(log[q]) > Len(log[s])
    BY <1>2, DeliverInStep DEF Seen
  <2>5. log' = [log EXCEPT ![s] = Append(@, Script(job)[Len(log[s]) + 1])]
    <3>1. \E e : log' = [log EXCEPT ![s] = Append(@, e)]
      BY <1>2 DEF Calls, BeginCallback, BatchCallback, EndCallback, Callback
    <3>2. log \in [Rank -> Seq(Event)]
      BY <1>0 DEF TypeInv, TypeOK
    <3>3. log' = [log EXCEPT ![s] = log'[s]]
      BY <3>1, <3>2
    <3>4. QED  BY <2>1, <2>2, <3>3
  <2>6. \E code \in CallbackCode : failed' = [failed EXCEPT ![s] = @ \/ code # 0]
    BY <1>2 DEF Calls, BeginCallback, BatchCallback, EndCallback, Callback
  <2>7. UNCHANGED result
    BY <1>2, LocalResult
  <2>8. QED  BY <2>1, <2>3, <2>4, <2>5, <2>6, <2>7 DEF Sink!Deliver
<1>3. ASSUME NEW s \in Rank, LocalStep(s), ~Calls(s)
      PROVE  (UNCHANGED Sink!vars) \/ Sink!Succeed(s) \/ Sink!Fail(s)
  <2>1. UNCHANGED <<call, job, log, failed>>
    BY <1>0, <1>3, HadLocal, LocalStay
  <2>2. CASE UNCHANGED result
    BY <2>1, <2>2 DEF Sink!vars
  <2>3. ASSUME pc[s] # "idle", result' = [result EXCEPT ![s] = 0]
        PROVE  Sink!Succeed(s)
    <3>1. result[s] = NoResult /\ result'[s] = 0
      BY <1>0, <2>3 DEF Place, TypeInv, TypeOK
    <3>2. \A q \in Rank : log[q] = Script(job) /\ ~failed[q]
      <4>1. \A q \in Rank : log'[q] = Script(job)' /\ ~failed'[q]
        BY <3>1 DEF SuccessMeansDelivered
      <4>2. Script(job)' = Script(job)
        BY <2>1 DEF Script, SpeciesList
      <4>3. QED  BY <2>1, <4>1, <4>2
    <3>3. QED  BY <2>1, <2>3, <3>1, <3>2 DEF Sink!Succeed
  <2>4. ASSUME pc[s] # "idle", result' = [result EXCEPT ![s] = 1]
        PROVE  Sink!Fail(s)
    <3>1. result[s] = NoResult
      BY <1>0, <2>4 DEF Place
    <3>2. QED  BY <2>1, <2>4, <3>1 DEF Sink!Fail
  <2>5. QED  BY <1>3, <2>2, <2>3, <2>4, LocalResult
<1>4. ASSUME NEW s \in Rank, LocalFault(s)
      PROVE  UNCHANGED Sink!vars
  BY <1>4 DEF LocalFault, Stay, history, Sink!vars
<1>5. CASE Collective
  <2>1. UNCHANGED <<call, job, log, failed>>
    BY <1>0, <1>5, HadCollective, RankAssumption
  <2>2. UNCHANGED result
    BY <1>5 DEF Collective, ClassAgreed, HintsAgreed, BegunAgreed, CountAgreed, FastDFAgreed,
      BatchAgreed, SunkAgreed, TotalsAgreed, EndedAgreed
  <2>3. QED  BY <2>1, <2>2 DEF Sink!vars
<1>6. CASE UNCHANGED vars
  BY <1>6 DEF vars, history, Sink!vars
<1>7. QED  BY <1>1, <1>2, <1>3, <1>4, <1>5, <1>6 DEF Next, Sink!Next

\* The bridge implements the abstract contract, for a host that reports
\* failures with positive codes: every step of a rank is the delivery of the
\* next callback of the script, the return of the call, or invisible.
THEOREM ImplementsContract ==
  ASSUME CallbackCode \subseteq Nat
  PROVE  Spec => Contract
<1>1. Init => Sink!Init
  BY DEF Init, Sink!Init
<1>2. ControlInv /\ LogInv /\ FailureInv /\ [Next]_vars /\ SuccessMeansDelivered'
        => [Sink!Next]_(Sink!vars)
  BY ContractNext
<1>3. QED
  BY <1>1, <1>2, ControlCorrect, LogCorrect, FailureCorrect, SuccessIsDelivered, PTL
  DEF Spec, Contract, Sink!Spec
=============================================================================
