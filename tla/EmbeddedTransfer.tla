--------------------------- MODULE EmbeddedTransfer ---------------------------
(***************************************************************************)
(* The embedded bridge of monofonIC: every MPI rank of a host simulation   *)
(* calls monofonic_generate_to_sink or monofonic_prepare_background, and   *)
(* the library pushes the particles of each species into the callbacks of  *)
(* the host (begin, particles, end).                                       *)
(*                                                                         *)
(* Modelled from src/src/embedded.cc, the in-memory output plugin          *)
(* src/src/plugins/output_opengadget_memory.cc and the driver              *)
(* src/src/ic_generator.cc that feeds them.                                *)
(*                                                                         *)
(* A rank is a process with its own copy of the globals of embedded.cc.    *)
(* It runs alone between two collectives.  A collective (MPI_Allreduce on  *)
(* MPI_COMM_WORLD) needs the contribution of every rank before any rank    *)
(* gets the result, so it is one action that all ranks take once the last  *)
(* of them has arrived; what a rank does next with the result is local to  *)
(* it and the first part of that (the check of the result) is taken in the *)
(* same step.                                                              *)
(***************************************************************************)
EXTENDS Integers, Sequences, Functions

CONSTANTS
  Rank,          \* the ranks of MPI_COMM_WORLD
  Jobs,          \* the calls a host may make: arguments and configuration
  MaxCalls,      \* bound: how many calls the host makes
  CallbackCode,  \* what a callback of the host may return; 0 is success
  LocalFaults    \* may a single rank throw where nothing tells the others?

(***************************************************************************)
(* Gadget particle types, as opengadget_memory_output_plugin maps them.    *)
(***************************************************************************)
Baryon   == 0
DM       == 1
Neutrino == 2
Type     == {Baryon, DM, Neutrino}
Count    == [Type -> Nat]

\* Events in the history of callbacks: a batch is recorded as its type.
BeginEvent == 6
EndEvent   == 7
NoResult   == -1

(***************************************************************************)
(* The points at which the same input makes every rank throw, in the order *)
(* the code reaches them; "none" for an input that none of them rejects.   *)
(***************************************************************************)
Rejection == {"none", "args", "config", "setup", "plugin", "run"}

(***************************************************************************)
(* A call: what the host asks for, which species the configuration selects,*)
(* whether its transfer plugin retains a background table (zwindstroom),   *)
(* the particle counts announced in the metadata (num), the share of each  *)
(* rank as announced (hint) and as generated (made).                       *)
(***************************************************************************)
Job == [kind        : {"generate", "prepare"},
        reject      : Rejection,
        baryons     : BOOLEAN,
        neutrinos   : BOOLEAN,
        zwindstroom : BOOLEAN,
        num         : Count,
        hint        : [Type -> [Rank -> Nat]],
        made        : [Type -> [Rank -> Nat]]]

ASSUME RankAssumption == Rank # {}
ASSUME JobsAssumption == Jobs \subseteq Job
ASSUME MaxCallsAssumption == MaxCalls \in Nat
ASSUME CallbackCodeAssumption == CallbackCode \subseteq Int
ASSUME LocalFaultsAssumption == LocalFaults \in BOOLEAN

VARIABLES
  call,        \* number of the current (or last) call
  job,         \* what that call asks for
  pc,          \* where each rank is
  objects,     \* RNG, cosmology and output plugin objects of ic_generator held
  sink,        \* particle_sink # nullptr
  started,     \* particle_transfer_started
  expected,    \* expected_particle_counts
  local,       \* local_particle_counts
  background,  \* 0: empty table, k: the table computed by call k
  sp,          \* position in the species list of the loop in run()
  status,      \* the rank's contribution to the MPI_MAX collective it enters
  log,         \* history: the callbacks the host has seen on this rank
  failed,      \* history: has one of them reported a failure?
  result       \* what the call returned on this rank: NoResult, 0 or 1

globals == <<objects, sink, started, expected, local, background>>
history == <<log, failed>>
vars == <<call, job, pc, globals, sp, status, history, result>>

-----------------------------------------------------------------------------
(***************************************************************************)
(* Helpers.                                                                *)
(***************************************************************************)

\* species_list of ic_generator::run
SpeciesList(j) ==
  <<DM>> \o (IF j.baryons THEN <<Baryon>> ELSE <<>>)
         \o (IF j.neutrinos THEN <<Neutrino>> ELSE <<>>)

NumSpecies == Len(SpeciesList(job))

\* The species rank r works on, and the share of it the rank generated.
Species(r) == SpeciesList(job)[sp[r]]
Made(r) == job.made[Species(r)][r]

Zero == [t \in Type |-> 0]

\* MPI_Allreduce(MPI_SUM) over MPI_COMM_WORLD
Sum(f) == SumFunction(f)

\* MPI_Allreduce(MPI_MAX) over MPI_COMM_WORLD of the statuses is zero
MaxIsZero(f) ==
  /\ \E r \in Rank : f[r] = 0
  /\ \A r \in Rank : f[r] <= 0

Goto(r, to) == pc' = [pc EXCEPT ![r] = to]
AllGoto(to) == pc' = [r \in Rank |-> to]
AllAt(site) == \A r \in Rank : pc[r] = site

\* A C++ exception on its way to the handler of the entry point.
Throw(r) == Goto(r, "unwind")
AllThrow == AllGoto("unwind")

\* The entry point returns on rank r.
ReturnTo(r, code) ==
  /\ Goto(r, "idle")
  /\ result' = [result EXCEPT ![r] = code]

Stay == UNCHANGED <<call, job>>

-----------------------------------------------------------------------------
(***************************************************************************)
(* The host calls the library on all ranks with the same arguments, and    *)
(* waits for all of them before it calls again.                            *)
(***************************************************************************)
HostCall ==
  /\ AllAt("idle")
  /\ call < MaxCalls
  /\ call' = call + 1
  /\ job' \in Jobs
  /\ AllGoto("entry")
  /\ log' = [r \in Rank |-> <<>>]
  /\ failed' = [r \in Rank |-> FALSE]
  /\ result' = [r \in Rank |-> NoResult]
  /\ sp' = [r \in Rank |-> 1]
  /\ status' = [r \in Rank |-> 0]
  /\ UNCHANGED globals

\* The checks of config_path, sink or metadata, before the try block.
CheckArguments(r) ==
  /\ pc[r] = "entry"
  /\ IF job.reject = "args"
       THEN ReturnTo(r, 1)
       ELSE Goto(r, "config") /\ UNCHANGED result
  /\ Stay
  /\ UNCHANGED <<globals, history, sp, status>>

\* Mutant: the globals are reset, the background table is not.
Begin_KeepBackground(r) ==
  /\ pc[r] = "config"
  /\ IF job.reject = "config"
       THEN Throw(r) /\ UNCHANGED <<sink, started>>
       ELSE /\ Goto(r, "cosmo")
            /\ sink' = [sink EXCEPT ![r] = job.kind = "generate"]
            /\ started' = [started EXCEPT ![r] = FALSE]
  /\ Stay
  /\ UNCHANGED <<objects, expected, local, background, history, sp, status, result>>

\* Read the configuration, initialise the runtime, reset the globals.
Begin(r) ==
  /\ pc[r] = "config"
  /\ IF job.reject = "config"
       THEN Throw(r) /\ UNCHANGED globals
       ELSE /\ Goto(r, "cosmo")
            /\ background' = [background EXCEPT ![r] = 0]
            /\ sink' = [sink EXCEPT ![r] = job.kind = "generate"]
            /\ started' = [started EXCEPT ![r] = FALSE]
            /\ IF job.kind = "generate"
                 THEN /\ expected' = [expected EXCEPT ![r] = Zero]
                      /\ local' = [local EXCEPT ![r] = Zero]
                 ELSE UNCHANGED <<expected, local>>
            /\ UNCHANGED objects
  /\ Stay
  /\ UNCHANGED <<history, sp, status, result>>

\* generate goes on to the output plugin, prepare to require_background.
AfterCosmology == IF job.kind = "generate" THEN "plugin" ELSE "audit"

\* The RNG plugin (generate only) and the cosmology calculator with its
\* transfer plugin: zwindstroom runs CLASS on the node leaders and the
\* ranks agree on whether it worked; the others involve no other rank.
BuildCosmology(r) ==
  /\ pc[r] = "cosmo"
  /\ objects' = [objects EXCEPT ![r] = @ \/ job.kind = "generate"]
  /\ IF job.reject = "setup"
       THEN Throw(r) /\ UNCHANGED status
       ELSE IF job.zwindstroom
         THEN /\ Goto(r, "class")
              /\ \E s \in {0, 1} : status' = [status EXCEPT ![r] = s]
         ELSE Goto(r, AfterCosmology) /\ UNCHANGED status
  /\ Stay
  /\ UNCHANGED <<sink, started, expected, local, background, history, sp, result>>

\* Mutant: every rank looks at the outcome of its own node only.
ClassAgreed_OwnStatus ==
  /\ AllAt("class")
  /\ pc' = [r \in Rank |-> IF status[r] = 0 THEN AfterCosmology ELSE "unwind"]
  /\ background' = [r \in Rank |-> IF status[r] = 0 THEN call ELSE background[r]]
  /\ Stay
  /\ UNCHANGED <<objects, sink, started, expected, local, history, sp, status, result>>

\* The agreement inside distribute_ClassTables; the constructor then ends
\* with set_background_table.
ClassAgreed ==
  /\ AllAt("class")
  /\ IF MaxIsZero(status)
       THEN /\ AllGoto(AfterCosmology)
            /\ background' = [r \in Rank |-> call]
       ELSE AllThrow /\ UNCHANGED background
  /\ Stay
  /\ UNCHANGED <<objects, sink, started, expected, local, history, sp, status, result>>

-----------------------------------------------------------------------------
(***************************************************************************)
(* monofonic_generate_to_sink: metadata                                    *)
(***************************************************************************)

\* Constructor of the memory output plugin up to the first collective of
\* emit_ic_metadata.
MakeOutputPlugin(r) ==
  /\ pc[r] = "plugin"
  /\ IF ~sink[r] \/ started[r] \/ job.reject = "plugin"
       THEN Throw(r)
       ELSE Goto(r, "hints")
  /\ Stay
  /\ UNCHANGED <<globals, history, sp, status, result>>

HintMatches(t) == Sum(job.hint[t]) = job.num[t]

\* emit_ic_metadata: the loop that compares the reduced hints with the
\* metadata stops at the first type that differs.
HintsAgreed ==
  /\ AllAt("hints")
  /\ expected' = [r \in Rank |-> [t \in Type |->
       IF \A u \in Type : u <= t => HintMatches(u)
         THEN job.num[t] ELSE expected[r][t]]]
  /\ IF \A t \in Type : HintMatches(t)
       THEN /\ AllGoto("begin")
            /\ local' = [r \in Rank |-> Zero]
       ELSE AllThrow /\ UNCHANGED local
  /\ Stay
  /\ UNCHANGED <<objects, sink, started, background, history, sp, status, result>>

\* A callback of the host runs on rank r and returns.
Callback(r, event) ==
  /\ log' = [log EXCEPT ![r] = Append(@, event)]
  /\ \E code \in CallbackCode :
       /\ status' = [status EXCEPT ![r] = code]
       /\ failed' = [failed EXCEPT ![r] = @ \/ code # 0]

BeginCallback(r) ==
  /\ pc[r] = "begin"
  /\ Callback(r, BeginEvent)
  /\ Goto(r, "begun")
  /\ Stay
  /\ UNCHANGED <<globals, sp, result>>

\* Mutant: the status of begin is not checked.
BegunAgreed_Unchecked ==
  /\ AllAt("begun")
  /\ AllGoto("run")
  /\ started' = [r \in Rank |-> TRUE]
  /\ Stay
  /\ UNCHANGED <<objects, sink, expected, local, background, history, sp, status, result>>

\* check_callback_status(status, "begin")
BegunAgreed ==
  /\ AllAt("begun")
  /\ IF MaxIsZero(status)
       THEN /\ AllGoto("run")
            /\ started' = [r \in Rank |-> TRUE]
       ELSE AllThrow /\ UNCHANGED started
  /\ Stay
  /\ UNCHANGED <<objects, sink, expected, local, background, history, sp, status, result>>

-----------------------------------------------------------------------------
(***************************************************************************)
(* ic_generator::run: one batch of particles for each species              *)
(***************************************************************************)

\* run() reads its options and computes the fields all species share.
StartRun(r) ==
  /\ pc[r] = "run"
  /\ IF job.reject = "run" THEN Throw(r) ELSE Goto(r, "species")
  /\ Stay
  /\ UNCHANGED <<globals, history, sp, status, result>>

\* Lattice particles are generated without help from the other ranks, then
\* write_particle_data counts them globally.
GenerateLattice(r) ==
  /\ pc[r] = "species"
  /\ sp[r] <= NumSpecies
  /\ Species(r) # Neutrino
  /\ Goto(r, "count")
  /\ Stay
  /\ UNCHANGED <<globals, history, sp, status, result>>

NumMatches(t) == Sum(job.made[t]) = job.num[t]

\* write_particle_data: get_global_num_particles against the metadata.
CountAgreed ==
  /\ AllAt("count")
  /\ pc' = [r \in Rank |->
       IF NumMatches(Species(r)) THEN "batch" ELSE "unwind"]
  /\ Stay
  /\ UNCHANGED <<globals, history, sp, status, result>>

\* Neutrinos come from FastDF, whose ranks agree on the outcome of its
\* preparation (any rank may fail it).
RunFastDF(r) ==
  /\ pc[r] = "species"
  /\ sp[r] <= NumSpecies
  /\ Species(r) = Neutrino
  /\ Goto(r, "fastdf")
  /\ \E s \in {0, 1} : status' = [status EXCEPT ![r] = s]
  /\ Stay
  /\ UNCHANGED <<globals, history, sp, result>>

FastDFAgreed ==
  /\ AllAt("fastdf")
  /\ IF MaxIsZero(status) THEN AllGoto("batch") ELSE AllThrow
  /\ Stay
  /\ UNCHANGED <<globals, history, sp, status, result>>

\* Mutant: a rank without particles of the species skips the callback and
\* the collective that belongs to it.
BatchCallback_SkipEmpty(r) ==
  /\ pc[r] = "batch"
  /\ IF Made(r) = 0
       THEN /\ Goto(r, "species")
            /\ sp' = [sp EXCEPT ![r] = @ + 1]
            /\ UNCHANGED <<history, status>>
       ELSE Callback(r, Species(r)) /\ Goto(r, "batched") /\ UNCHANGED sp
  /\ Stay
  /\ UNCHANGED <<globals, result>>

\* emit_particle_batch
BatchCallback(r) ==
  /\ pc[r] = "batch"
  /\ IF ~sink[r] \/ ~started[r]
       THEN /\ UNCHANGED history
            /\ IF Species(r) = Neutrino
                 THEN Goto(r, "sunk") /\ status' = [status EXCEPT ![r] = 1]
                 ELSE Throw(r) /\ UNCHANGED status
       ELSE Callback(r, Species(r)) /\ Goto(r, "batched")
  /\ Stay
  /\ UNCHANGED <<globals, sp, result>>

\* Mutant: a delivered neutrino batch advances the species loop already here.
BatchAgreed_AdvanceTwice ==
  /\ AllAt("batched")
  /\ LET delivered == MaxIsZero(status) IN
       /\ status' = [r \in Rank |-> IF delivered THEN 0 ELSE 1]
       /\ pc' = [r \in Rank |-> IF Species(r) = Neutrino THEN "sunk"
                                ELSE IF delivered THEN "species" ELSE "unwind"]
       /\ sp' = [r \in Rank |-> IF delivered THEN sp[r] + 1 ELSE sp[r]]
  /\ Stay
  /\ UNCHANGED <<objects, sink, started, expected, local, background, history, result>>

\* check_callback_status(status, "particles") and the count of the batch.
\* For neutrinos the exception is caught by fastdf_memory_particle_sink,
\* which reports 1 to FastDF, and FastDF reduces that status once more.
BatchAgreed ==
  /\ AllAt("batched")
  /\ LET delivered == MaxIsZero(status) IN
       /\ local' = IF delivered
            THEN [r \in Rank |-> [local[r] EXCEPT ![Species(r)] = @ + Made(r)]]
            ELSE local
       /\ status' = [r \in Rank |-> IF delivered THEN 0 ELSE 1]
       /\ pc' = [r \in Rank |-> IF Species(r) = Neutrino THEN "sunk"
                                ELSE IF delivered THEN "species" ELSE "unwind"]
       /\ sp' = [r \in Rank |-> IF Species(r) # Neutrino /\ delivered
                                  THEN sp[r] + 1 ELSE sp[r]]
  /\ Stay
  /\ UNCHANGED <<objects, sink, started, expected, background, history, result>>

\* Mutant: a refused neutrino batch is offered again.
SunkAgreed_Retry ==
  /\ AllAt("sunk")
  /\ AllGoto("species")
  /\ sp' = [r \in Rank |-> IF MaxIsZero(status) THEN sp[r] + 1 ELSE sp[r]]
  /\ Stay
  /\ UNCHANGED <<globals, history, status, result>>

\* The reduction of the sink status at the end of run_fastdf.
SunkAgreed ==
  /\ AllAt("sunk")
  /\ IF MaxIsZero(status)
       THEN /\ AllGoto("species")
            /\ sp' = [r \in Rank |-> sp[r] + 1]
       ELSE AllThrow /\ UNCHANGED sp
  /\ Stay
  /\ UNCHANGED <<globals, history, status, result>>

-----------------------------------------------------------------------------
(***************************************************************************)
(* The end of the transfer and the return of the call                      *)
(***************************************************************************)

\* finish_particle_transfer up to its first collective.
FinishTransfer(r) ==
  /\ pc[r] = "species"
  /\ sp[r] > NumSpecies
  /\ IF ~sink[r] \/ ~started[r] THEN Throw(r) ELSE Goto(r, "totals")
  /\ Stay
  /\ UNCHANGED <<globals, history, sp, status, result>>

\* Mutant: the totals are not compared.
TotalsAgreed_Unchecked ==
  /\ AllAt("totals")
  /\ AllGoto("end")
  /\ Stay
  /\ UNCHANGED <<globals, history, sp, status, result>>

\* The particles emitted on all ranks against the metadata.
TotalsAgreed ==
  /\ AllAt("totals")
  /\ LET total == [t \in Type |-> Sum([q \in Rank |-> local[q][t]])] IN
       pc' = [r \in Rank |-> IF total = expected[r] THEN "end" ELSE "unwind"]
  /\ Stay
  /\ UNCHANGED <<globals, history, sp, status, result>>

EndCallback(r) ==
  /\ pc[r] = "end"
  /\ Callback(r, EndEvent)
  /\ Goto(r, "ended")
  /\ Stay
  /\ UNCHANGED <<globals, sp, result>>

\* Mutant: every rank looks at its own status only.
EndedAgreed_OwnStatus ==
  /\ AllAt("ended")
  /\ pc' = [r \in Rank |-> IF status[r] = 0 THEN "close" ELSE "unwind"]
  /\ started' = [r \in Rank |-> IF status[r] = 0 THEN FALSE ELSE started[r]]
  /\ Stay
  /\ UNCHANGED <<objects, sink, expected, local, background, history, sp, status, result>>

\* check_callback_status(status, "end")
EndedAgreed ==
  /\ AllAt("ended")
  /\ IF MaxIsZero(status)
       THEN /\ AllGoto("close")
            /\ started' = [r \in Rank |-> FALSE]
       ELSE AllThrow /\ UNCHANGED started
  /\ Stay
  /\ UNCHANGED <<objects, sink, expected, local, background, history, sp, status, result>>

\* ic_generator::reset, require_background, return 0.
Close(r) ==
  /\ pc[r] = "close"
  /\ objects' = [objects EXCEPT ![r] = FALSE]
  /\ IF background[r] = 0
       THEN Throw(r) /\ UNCHANGED <<sink, result>>
       ELSE ReturnTo(r, 0) /\ sink' = [sink EXCEPT ![r] = FALSE]
  /\ Stay
  /\ UNCHANGED <<started, expected, local, background, history, sp, status>>

\* The end of monofonic_prepare_background: require_background, return 0.
Audit(r) ==
  /\ pc[r] = "audit"
  /\ IF background[r] = 0
       THEN Throw(r) /\ UNCHANGED result
       ELSE ReturnTo(r, 0)
  /\ Stay
  /\ UNCHANGED <<globals, history, sp, status>>

\* Mutant: the handler leaves the pointer to the sink of the host.
Catch_KeepSink(r) ==
  /\ pc[r] = "unwind"
  /\ objects' = [objects EXCEPT ![r] = FALSE]
  /\ started' = [started EXCEPT ![r] = FALSE]
  /\ ReturnTo(r, 1)
  /\ Stay
  /\ UNCHANGED <<sink, expected, local, background, history, sp, status>>

\* The catch blocks of the two entry points.
Catch(r) ==
  /\ pc[r] = "unwind"
  /\ IF job.kind = "generate"
       THEN /\ objects' = [objects EXCEPT ![r] = FALSE]
            /\ sink' = [sink EXCEPT ![r] = FALSE]
            /\ started' = [started EXCEPT ![r] = FALSE]
            /\ UNCHANGED background
       ELSE /\ background' = [background EXCEPT ![r] = 0]
            /\ UNCHANGED <<objects, sink, started>>
  /\ ReturnTo(r, 1)
  /\ Stay
  /\ UNCHANGED <<expected, local, history, sp, status>>

\* A rank alone throws: its copy of a file cannot be read, or an allocation
\* fails, between two collectives.
LocalFault(r) ==
  /\ LocalFaults
  /\ pc[r] \in {"config", "cosmo", "plugin", "run", "species"}
  /\ Throw(r)
  /\ Stay
  /\ UNCHANGED <<globals, history, sp, status, result>>

-----------------------------------------------------------------------------
LocalStep(r) ==
  \/ CheckArguments(r)
  \/ Begin(r)
  \/ BuildCosmology(r)
  \/ MakeOutputPlugin(r)
  \/ BeginCallback(r)
  \/ StartRun(r)
  \/ GenerateLattice(r)
  \/ RunFastDF(r)
  \/ BatchCallback(r)
  \/ FinishTransfer(r)
  \/ EndCallback(r)
  \/ Close(r)
  \/ Audit(r)
  \/ Catch(r)

Collective ==
  \/ ClassAgreed
  \/ HintsAgreed
  \/ BegunAgreed
  \/ CountAgreed
  \/ FastDFAgreed
  \/ BatchAgreed
  \/ SunkAgreed
  \/ TotalsAgreed
  \/ EndedAgreed

Init ==
  /\ call = 0
  /\ job \in Jobs
  /\ pc = [r \in Rank |-> "idle"]
  /\ objects = [r \in Rank |-> FALSE]
  /\ sink = [r \in Rank |-> FALSE]
  /\ started = [r \in Rank |-> FALSE]
  /\ expected = [r \in Rank |-> Zero]
  /\ local = [r \in Rank |-> Zero]
  /\ background = [r \in Rank |-> 0]
  /\ sp = [r \in Rank |-> 1]
  /\ status = [r \in Rank |-> 0]
  /\ log = [r \in Rank |-> <<>>]
  /\ failed = [r \in Rank |-> FALSE]
  /\ result = [r \in Rank |-> NoResult]

Next ==
  \/ HostCall
  \/ \E r \in Rank : LocalStep(r)
  \/ \E r \in Rank : LocalFault(r)
  \/ Collective

Spec == Init /\ [][Next]_vars

\* MPI ranks are processes the operating system keeps running, and an
\* Allreduce that every rank has entered completes.
Fairness ==
  /\ \A r \in Rank : WF_vars(LocalStep(r))
  /\ WF_vars(Collective)

FairSpec == Spec /\ Fairness

-----------------------------------------------------------------------------
(***************************************************************************)
(* Properties                                                              *)
(***************************************************************************)
Waiting == {"class", "hints", "begun", "count", "fastdf", "batched", "sunk",
            "totals", "ended"}
Working == {"idle", "entry", "config", "cosmo", "plugin", "audit", "begin", "run",
            "species", "batch", "end", "close", "unwind"}
Event == {BeginEvent, EndEvent} \cup Type

\* The globals of embedded.cc, the position of every rank and the history
\* keep their types.
TypeOK ==
  /\ call \in Nat
  /\ job \in Jobs
  /\ pc \in [Rank -> Waiting \cup Working]
  /\ objects \in [Rank -> BOOLEAN]
  /\ sink \in [Rank -> BOOLEAN]
  /\ started \in [Rank -> BOOLEAN]
  /\ expected \in [Rank -> Count]
  /\ local \in [Rank -> Count]
  /\ background \in [Rank -> Nat]
  /\ sp \in [Rank -> Nat \ {0}]
  /\ \A r \in Rank : sp[r] <= NumSpecies + 1
  /\ status \in [Rank -> Int]
  /\ log \in [Rank -> Seq(Event)]
  /\ failed \in [Rank -> BOOLEAN]
  /\ result \in [Rank -> {NoResult, 0, 1}]

\* Two ranks that are blocked in MPI_COMM_WORLD collectives are blocked in
\* the same one, for the same species: no Allreduce of one call site is ever
\* paired with the Allreduce of another, whichever ranks fail.
CollectivesMatch ==
  \A r, q \in Rank :
    pc[r] \in Waiting /\ pc[q] \in Waiting => pc[r] = pc[q] /\ sp[r] = sp[q]

\* The callbacks a host sees in a successful call, in order: none for
\* monofonic_prepare_background.
Script(j) ==
  IF j.kind = "generate" THEN <<BeginEvent>> \o SpeciesList(j) \o <<EndEvent>> ELSE <<>>

\* On every rank the host sees begin before the first batch, one batch of
\* each species in the order of the species list, and end after the last
\* batch; a call that fails leaves a prefix of that.  Nothing is delivered
\* by monofonic_prepare_background.
HostOrder ==
  \A r \in Rank :
    /\ Len(log[r]) <= Len(Script(job))
    /\ \A i \in 1 .. Len(log[r]) : log[r][i] = Script(job)[i]

\* Once a callback has reported a failure on one rank, no rank gets ahead of
\* it: the status is agreed on before the next callback, so the stream stops
\* everywhere at that callback.
FailureStopsStream ==
  \A q, r \in Rank : failed[q] => Len(log[r]) <= Len(log[q])

Delivered(r, t) ==
  IF \E i \in 1 .. Len(log[r]) : log[r][i] = t THEN job.made[t][r] ELSE 0

\* When the host sees end on some rank, the batches it has seen on all ranks
\* add up, type by type, to the num_particles it was promised at begin.
EndMeansComplete ==
  \A r \in Rank : (\E i \in 1 .. Len(log[r]) : log[r][i] = EndEvent) =>
    \A t \in Type : Sum([q \in Rank |-> Delivered(q, t)]) = job.num[t]

\* A generate call that returns 0 on one rank delivered the whole stream on
\* every rank, no callback of any rank refused it, and the rank holds the
\* background table this very call computed.
SuccessMeansDelivered ==
  \A r \in Rank : result[r] = 0 =>
    /\ background[r] = call
    /\ \A q \in Rank : log[q] = Script(job) /\ ~failed[q]

\* All ranks return the same code, as long as no rank throws on its own.
UniformResult ==
  ~LocalFaults => \A r, q \in Rank :
    result[r] # NoResult /\ result[q] # NoResult => result[r] = result[q]

\* Between calls nothing of a call is left behind on a rank: no sink pointer
\* into the memory of the host, no transfer in progress, no plugin objects.
CleanReturn ==
  \A r \in Rank : pc[r] = "idle" => ~sink[r] /\ ~started[r] /\ ~objects[r]

\* A call that got far enough to read its configuration never leaves the
\* table of an earlier call behind, and a failed prepare leaves no table.
BackgroundIsFresh ==
  \A r \in Rank : pc[r] = "idle" =>
    /\ result[r] = 1 /\ job.reject \notin {"args", "config"} /\ ~LocalFaults
         => background[r] \in {0, call}
    /\ result[r] = 1 /\ job.kind = "prepare" /\ job.reject # "args"
         => background[r] = 0

\* The ranks never return while another one is left behind in a collective.
EveryCallReturns == \A r \in Rank : pc[r] # "idle" ~> pc[r] = "idle"

\* The bridge implements the abstract contract of the particle sink.
Sink == INSTANCE ParticleSink WITH Codes <- CallbackCode
Contract == Sink!Spec

\* A callback that returns a nonzero code makes the call fail: the check of
\* check_callback_status is "global_status != 0".
FailureIsReported ==
  \A r, q \in Rank : result[r] = 0 => ~failed[q]
=============================================================================
