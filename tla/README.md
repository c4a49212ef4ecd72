# A TLA+ development for monofonIC

monofonIC generates initial conditions for cosmological simulations. It is an
MPI program: a fixed set of ranks share distributed grids and take every
decision that matters together, through collectives. This directory models that
program, checks the models with TLC and proves theorems about them with TLAPS.
Paths below are relative to the repository.

## 1. Inventory

| Part | Source | State it keeps | Operations | What must be right |
|---|---|---|---|---|
| Embedded bridge | `src/embedded.cc`, `include/embedded.hh` | per rank: sink pointer, transfer flag, expected and local counts, background table | generate to sink, prepare background, emit metadata / batch, finish | all ranks decide alike, callbacks in order, nothing survives a call, 0 means delivered |
| In-memory output plugin | `src/plugins/output_opengadget_memory.cc` | metadata | constructor, write particle data (plain, strided) | announced counts and shares are what the generators make |
| Driver | `src/ic_generator.cc` | the RNG, cosmology and output objects; fields of `run` | initialise, run, reset | species order, files handed to FastDF and merged back |
| Zwindstroom plugin | `src/plugins/transfer_zwindstroom.cc` | CLASS tables | run CLASS on node leaders, distribute | one decision for all nodes |
| FastDF integration | `external/fastdf-monofonic-integration.patch` | grids in a shared window of the node | prepare, integrate, hand to sink or file | no race on the window, one decision, no rank left behind |
| Distributed grid, FFT | `src/grid_fft.cc`, `include/grid_fft.hh` | slabs, real or Fourier space | transforms, mode exchange, HDF5 output | planes owned once, sends match receives |
| Ghosts, interpolation | `include/grid_ghosts.hh`, `include/grid_interpolate.hh` | ghost planes, slab starts | exchange, domain decomposition | the owner of a plane is found, also with empty slabs |
| Convolution | `include/convolution.hh` | padded grids | pad, unpad | as for the exchange |
| Particles | `include/particle_container.hh`, `include/particle_generator.hh` | ids, positions, masses | lattices, glass, global count, offset | ids unique over ranks and species, every particle once |
| PLT | `include/particle_plt.hh` | tables | corrections | numerical |
| Random numbers | `src/plugins/random_*.cc`, `PANPHASIA.hh` | seeds, cubes | fill a field | independent of the number of ranks |
| Transfer functions | `src/plugins/transfer_*.cc` | tables | evaluate | numerical |
| Cosmology | `src/cosmology_*.cc`, headers | parameters, growth | compute | numerical |
| File output | `src/plugins/output_*.cc`, `include/HDF_IO.hh` | file names, headers | write particles or fields | ranks take turns, offsets do not overlap |
| Configuration | `include/config_file.hh` | map of strings | get, insert | defaults |
| Program | `src/main.cc`, `src/runtime.cc`, logger, statistics | process-wide flags | start, run, stop | |

How they interact. A host (or `main`) calls the driver on every rank. The driver
builds the plugins, computes the shared fields with distributed FFTs, and then
works through the species list; lattice species are generated from the fields
and given to the output plugin, neutrinos are made by FastDF, which reads the
white noise from a file and gives its particles to the output plugin through a C
callback, or to a file that is merged. The in-memory plugin hands everything to
the bridge, and the bridge to the callbacks of the host. Ranks share no memory
except FastDF's window; they interact in collectives on `MPI_COMM_WORLD` or on
the communicator of a node, in point-to-point exchanges of planes, and through
files.

What is hard: one rank failing where the others succeed (a callback, CLASS on
one node, an allocation); an exception thrown on one side of a collective;
exceptions that cross C code as status codes and are reduced twice; global state
that several calls share; exchanges in which sender and receiver compute the
pairing independently; ranks with empty slabs; files written in turn and read by
all; ids and counts at the limits of their types. There are no timeouts, no
retries, no message loss and no persistent state to recover: MPI is reliable,
and a process that dies takes the job with it. `PROJECT.json` lists the hazards
line by line.

## 2. What is modelled now

### `EmbeddedTransfer`

The bridge, with as much of the plugin, of the driver and of its two
multi-process helpers (CLASS through zwindstroom, FastDF) as its control flow
depends on.

A rank is a process with its own copy of the globals of `embedded.cc`:

| Variable | Code |
|---|---|
| `sink`, `started`, `expected`, `local` | `particle_sink != nullptr`, `particle_transfer_started`, `expected_particle_counts`, `local_particle_counts` |
| `background` | the two background vectors; 0 for empty, k for the table computed in call k |
| `objects` | the plugin objects of `ic_generator` |
| `sp` | the position in `species_list` |
| `status` | what the rank brings to the next `MPI_MAX` reduction |
| `pc`, `result`, `call`, `job` | where the rank is, what it returned, the call and what it asks for |
| `log`, `failed` | history: the callbacks the host has seen, whether one refused |

The code between two collectives touches only the rank's own state, so one
action takes a rank from one collective to the next, cut where a callback or an
exception can come in between. A collective needs every rank, so it is one
action of all ranks, enabled when the last one has arrived; it includes the test
of the result that each rank makes next, which is local. Which action is which
code:

| Actions | Code |
|---|---|
| `CheckArguments`, `Begin` | argument tests and the first half of the try block of both entry points |
| `BuildCosmology`, `ClassAgreed` | RNG and cosmology objects; `distribute_ClassTables`, `set_background_table` |
| `MakeOutputPlugin`, `HintsAgreed`, `BeginCallback`, `BegunAgreed` | constructor of the memory plugin, `emit_ic_metadata` |
| `StartRun`, `GenerateLattice`, `CountAgreed`, `RunFastDF`, `FastDFAgreed` | `ic_generator::run` up to the particles of a species |
| `BatchCallback`, `BatchAgreed`, `SunkAgreed` | `emit_particle_batch`, and the second reduction in `run_fastdf` |
| `FinishTransfer`, `TotalsAgreed`, `EndCallback`, `EndedAgreed` | `finish_particle_transfer` |
| `Close`, `Audit`, `Catch` | the ends of the entry points and their catch blocks |
| `LocalFault` | a rank throws where no collective tells the others |

A callback may return any member of `CallbackCode`. `Job` is what a call asks
for; `job.reject` names the first check that the same input fails on every rank.
The counts a job carries separate what is promised (`num`), announced by each
rank (`hint`) and generated (`made`), so the three count checks can fail one by
one.

Abstractions: the FFTs and fields of `run` are inside `StartRun` and
`GenerateLattice` (they involve all ranks but decide nothing); a type has a
count and no particles; the error text of CLASS is a status. The glass, which
the in-memory plugin rejects, is not a job.

### `ParticleSink`

The contract with the host, without collectives or globals: a call delivers a
fixed script of callbacks on each rank; a rank gets its next callback only when
no rank is behind it and none has refused an earlier one; 0 is returned only
after every rank had and accepted all of it; 1 may be returned at any time.
`Contract` in `EmbeddedTransfer` states that the bridge implements it, with
`log`, `failed`, `result`, `call`, `job` mapped to themselves.

### `ParticleShares`

Who makes which particles. The cubes of a run are divided among the ranks by
three pieces of code that know nothing of each other: FFTW's blocks decide which
lattice particles a rank makes; the constructor of the in-memory plugin announces
shares, from FFTW for lattices and from `ceil_partition_boundary` for neutrinos;
`run_fastdf` computes its planes in double precision. The bridge compares only
sums over all ranks, at begin and at end.

| Variable | Code |
|---|---|
| `announced` | `metadata_.local_num_particles` |
| `first`, `made` | the smallest id and the number of the particles of a species on a rank |
| `job` | `GridRes`, the particles per cell of `ParticleLoad`, `DoBaryons`, `NeutrinoCubeRootNum` |

| Actions | Code |
|---|---|
| `Announce`, `HintsAgreed` | constructor of the memory plugin, `emit_ic_metadata` |
| `MakeDM`, `MakeBaryons`, `CountAgreed` | `lattice_generator` as `run` calls it, the count check of `write_particle_data` |
| `MakeNeutrinos`, `AssignedAgreed` | planes and ids in `run_fastdf`, its `Allreduce` and the assertion, which builds with `NDEBUG` (the default) leave out |
| `TotalsAgreed` | `finish_particle_transfer` |

Callbacks and failures are those of `EmbeddedTransfer` and are left out here,
where the numbers are left abstract there (`Job.hint`, `Job.made`).

`fastdf_boundary` is the exact result of `ceil(part * fac)` with
`fac = (double) side / NumRanks`. It needs no floating point: of the two
roundings to 53 bits only the case of an integer product matters, in which `ceil`
turns the neighbouring double above into the next integer; `RoundsUp` says when,
from the remainder of the first rounding. Sides and numbers of ranks below 2^31
are meant, so that everything that is exact in the code stays exact here; the
overflow tests of `cube` and `multiply_checked` lie beyond TLC's integers.

### `GridExchange`

The message passing of the distributed grids: copies between grids of different
size in Fourier space, ghost zones, and the Orszag convolvers, which are built
from such copies. A job is one of these; its `Script` lists the exchanges and
products it consists of.

| Variable | Code |
|---|---|
| `net` | messages of `MPI_Isend` that no `MPI_Recv` has taken |
| `todo` | the planes a rank has still to receive, in the order of its loop |
| `field` | the Fourier fields: for every cell the wave numbers it holds a contribution of |
| `ghost` | `boundary_left_`, `boundary_right_`: which plane is in each ghost plane |
| `step`, `pc` | the exchange of the script, and where each rank is in it |

| Actions | Code |
|---|---|
| `EnterCopy`, `CopyFrom` | `FourierInterpolateCopyTo` up to the gathered offsets, and its shortcut for equal sizes |
| `EnterGhosts` | `update_ghosts_allow_multiple` up to its sends |
| `Isend`, `Recv`, `Flush`, `WaitAll`, `Leave` | the send loop, the (threaded) receive loop, the first barrier, the waits, the last barrier |
| `Multiply` | the product in real space in `convolve2` |

The offsets, `get_task`, the sent and the received indices and the ghost planes
are the expressions of the code; sender and receiver compute them apart, as
there, the right-hand bounds in unsigned arithmetic (`SizeT`, modulo
`SizeRange`). Two of the three dimensions of a field are kept, the distributed one and
one that is not; the third is cut like the second. Multiplying two fields adds
wave numbers modulo the size of the padded grid, so that an alias shows as a
number in a cell it does not belong to.

A copy goes to a grid at most twice as fine (`JobsAssumption`, for halves
rounded down). The function does not check this and does not work beyond it:
`from - to / 2` is then below zero and wraps (`grid_fft.cc:299`, `:383`). With MPI
no plane is sent on the right, and the planes of the destination above its
Nyquist plane are waited for at line 446 for ever; along the second dimension, and
without MPI in both, the mode of wave number 0 is put into cells of negative ones.
`FinerCopiesHang` in `GridExchange_proof` shows for every such pair of sizes that
the last plane is waited for and never sent, so the assumption cannot do with
less. No caller of the program asks for such a copy: the convolvers copy between
n and 3n/2 (`convolution.hh:591`, `:640`), PANPHASIA from a grid of more than half
of `GridRes` (`PANPHASIA.hh:491`) or of at least `GridRes`
(`random_panphasia.cc:186`).

### `FieldPipeline`

`ic_generator::run` from the white noise to the last field, sequentially: all
ranks do the same. A grid (`grid`) has a state, a space (real or Fourier) and a
symbolic expression; it is off (not allocated), empty (allocated and not filled),
filled, or infinite (filled, with no finite value at k = 0). A block of the driver
is an action that loads its instructions (`code`), `Execute` carries out one. The
lists of instructions are named for what they compute (`DrawNoise`, `FirstOrder`,
`SecondOrder`, `ThirdOrder`, `Scaling`, `Displacement`, `Velocity`, the tests); an
instruction is one operation of `Grid_FFT`, of a convolver or of an
output plugin, with what that operation does to the spaces of its operands
(convolutions transform their inputs, `Write_PowerSpectrum` leaves its grid in
Fourier space, `FourierTransformForward(false)` changes the label and not the
data). `flaws` collects reads of what is not there.

An expression is a sum, with integer coefficients, of products of fields, each
scaled by a bag of factors; sevenths are multiplied out. A derivative, a
nonlinear function and a convolution are opaque symbols of their arguments, so
that equality of expressions is equality of the formulas, up to the order of
sums and products. Blocks and their code: `Fill_Grid` to `ExportNoise` the noise;
`Phi1`, `Phi2`, `Phi3`, `ScalePotentials` the potentials; `RunTest` with the four
diagnostics of `testing.cc`; `Masses`, `Eulerian`, `Displace`, `Velocities`,
`Deliver`, `Neutrinos` the body of the species loop. `Configs` are the run
parameters, of the form that `ConfigsAssumption` gives.

### `ParticleLoad`

`lattice_generator` and its three setters: the container a rank allocates, the
ids, and the fields that are shifted from one sublattice to the next before they
are read. Positions are counted in quarters of a cell. `Shifted` accumulates the
shifts in the order in which the code applies them; `Reach` is the index the
loops over sublattices and cells arrive at, with the mask where the load has
one. `MaskedMass` gives the weights with which a masked particle's mass depends
on the cells around it, so that conservation can be stated without numbers.
`MakeParticles`, `set_masses`, `set_positions`, `set_velocities` are the methods;
`NextSpecies` is the driver's loop. The glass ends in `undefined`: under MPI its
constructor reads `local0starts_`, which nothing has filled.

### `SnapshotFiles`

Every file operation of the stand-alone program: the six file formats (the
gadget plugin in both precisions), the white noise that is exported and read
back by FastDF, the temporary neutrino files and their merge. `Program(r)` is the
list of steps of rank r, put together from operators named after the methods of
the code; ranks interleave step by step, and a collective is one step of all.
An operation of `HDF_IO.hh` is two steps, opening the file (which is locked while
open for writing) and the edit with the close; one that HDF5 refuses is noted in
`refused` and, as in the code, otherwise ignored. `hdr` is the header a plugin
keeps in memory for its destructor. `MergeOpen` and `MergeCopy` are
`merge_fastdf_particle_group`; `cfg.fault` makes one copy fail. A rank that
throws ends the job, and `Kill` may stop every other rank between any two of its
steps. `cfg.stale` starts from the files of an earlier run. `Configs` are the runs
explored, of the form that `ConfigsAssumption` gives.

Two assumptions are about HDF5, not about this repository: a file open for
writing cannot be opened by another process, and a dataset of fixed size must
not be smaller than its chunk (`ChunkSize`).

### `WhiteNoise`

Where the number in every Fourier mode comes from: the random number plugins
fill the distributed grid, the driver replaces the modes of a constraint field,
normalises, and exports the noise or a smaller copy of it. `mode` holds for each
cell the set of symbolic numbers added up in it; a number names its seed and its
place there, whether it was conjugated, by how much it was shifted, and the
scalings applied to it. `FillModes` is NGENIC: the order in which the seed table
is drawn, the two halves of the plane k = 0, the transposition under MPI.
`FillPlanes` is MUSIC1 (cubes, levels, refinement and degrading) and PANPHASIA
(its own grid, a multiple of the base). MUSIC1 draws a level cube by cube, each
from a generator of its own (`random_music_wnoise_generator.cc:598`), so that a
number names the size of the cubes with the seed (`Cubes`). `Refuse` is the
constructor of MUSIC1 without a seed or with a grid that is no power of two, that
of PANPHASIA with `DoFixing` (`random_panphasia.cc:80`), and a neutrino grid of no
cells or finer than the noise. The numerics of the generators and the
distributions are left out.

`Paired` is in unsigned arithmetic, as `ic_generator.cc:409` and `:416` are. A
constraint field is at most twice as fine as the noise (`ConfigsAssumption`): the
code does not check this, and the index along the second dimension wraps for a
finer one, so that line 435 writes outside the grid, which is undefined. The side
comes from a file of the user; a field twice as fine is in the run.


## 3. Runs

| Run | Instance | Checks |
|---|---|---|
| `embedded_faults` | 2 ranks, 2 calls, codes {0, 1}, rank-local exceptions | `TypeOK`, `CollectivesMatch`, `HostOrder`, `FailureStopsStream`, `EndMeansComplete`, `SuccessMeansDelivered`, `CleanReturn`, `Contract` |
| `embedded_live` | 3 ranks, 2 calls, codes {0, 1}, no rank-local exceptions, fair | `UniformResult`, `BackgroundIsFresh`, `EveryCallReturns` |
| `embedded_codes` | 2 ranks, 1 call, codes {-1, 0} | `FailureIsReported`: violated |
| `shares` | 7 ranks; lattices of side 2, 7, 9 with 1 or 4 particles per cell and of side 2 with 2 or 8; neutrino cubes of side 0, 3, 14, 29, 58 | `TypeOK`, `LatticeShareExact`, `LatticeIdsUnique`, `NeutrinosConsecutive`, `NeutrinosFillCube`, `BoundaryIsCeiling` |
| `shares_rounded` | 7 ranks, neutrino cube of side 29 | `NeutrinoShareExact`: violated |
| `shares_ids` | 2 ranks, body-centred lattice of side 2, neutrino cube of side 2 | `NeutrinosAfterDM`: violated |
| `grid_exchange` | 4 ranks, 2 receiving threads on each; copies between sides 2 to 8, up to twice as fine, convolutions of sides 2 to 6, ghost zones 1 and 2 deep on sides 2 to 8; fair | `TypeOK`, `NothingLeftBehind`, `EveryReceiveHasItsSend`, `NoAlias`, `NoModeLost`, `GhostsAreNeighbours`, `Ends` |
| `fields` | every order, format and species list, the switches one by one, every test | `ReadsAreDefined`, `MeansAreFinite`, `TermsAreLPT`, `HistoryLeavesNoTrace`, `OutputIsComplete` |
| `particle_load` | sides 2 to 4, 1 to 4 ranks, every load and mask, short ids of 128 values | `ContainersFit`, `SitesAgree`, `IdsAreUnique`, `MaskedMassIsKept` |
| `files` | 1 to 3 ranks, every format, files of an earlier run, a merge that fails | `NothingRefused`, `SnapshotIsWhole`, `HeaderMeansComplete`, `NoiseIsReadWhole`, `LostNeutrinosAreReported` |
| `files_header` | the same | `HeaderTellsContents`: violated |
| `noise` | grids up to 8^3, 1 to 3 ranks, with and without MPI, every generator | `NoiseIsReproducible`, `ExportIsLargeScale` |

Bounds. `MaxCalls` = 2 is the smallest number for which state can leak from one
call to the next; every job can follow every job. Two ranks are enough for one
to fail and one to succeed; the third, in the live run, gives a rank that is
neither. The jobs of `MCEmbeddedTransfer` are: all choices of species; each
rejection, on both entry points; a wrong lattice, a wrong FastDF run and a wrong
share; a transfer plugin without a table. In them one rank has no particles of
some species, as happens with more ranks than planes.

Deadlock is not checked: the host stops after `MaxCalls`, and in the run with
`LocalFaults` the ranks that wait for one that threw alone really hang. That is
what this code does (MPI's usual remedy is to abort the job), so
`EveryCallReturns` is claimed without such faults only, and
`CollectivesMatch` and `SuccessMeansDelivered` with them.

Fairness in `embedded_live`: weak fairness of each rank's steps (the system
keeps running every process) and of `Collective` (a reduction all ranks have
entered completes). The host is not required to call.

The sides of `shares` are fewer than the ranks (ranks with empty slabs, and
neutrino ranks without a plane), equal to them, a multiple of them, and a number
that the ranks do not divide (the last block is short or empty); 29 and 58 are
the sides at which 7 ranks meet the rounding of a double, and 7 is the smallest
number of ranks that does (for any side below 3000). A run ends with the
transfer, so deadlock is not checked.

Finding (`embedded_codes`). `check_callback_status` reduces the statuses with
`MPI_MAX` and then rejects `global_status != 0`. A negative code on one rank
loses against 0 on another, and the call goes on and returns 0. The properties
that say what a refusal causes are therefore claimed for nonnegative codes.

Finding (`shares_rounded`). For 29 planes on 7 ranks the double `7 * (29. / 7)`
is above 29, its ceiling is 30, and the last rank makes a plane beyond the cube
and more than the "exact number of particles this MPI rank will emit" it has
announced. The assertion on the sum would stop a debug build there; the default
build generates everything and is then refused by the check at the end
(`NeutrinosFillCube` holds). Other pairs, such as 36 planes on 28 ranks, move a
boundary between two ranks: the sum is right, the announced shares are not, and
nothing detects it.

Finding (`shares_ids`). `FirstID` is `ngrid^3 + 1` whatever the particle load.
With two or more particles per cell the ids of the neutrinos are also ids of the
dark matter, against the comment "immediately after the dm particles". The same
number lies among the ids of the baryons, which start where those of the dark
matter end: `LatticeIdsUnique` is therefore claimed for the lattice species only.

`grid_exchange`. Four ranks on sides of 2, 3 and 5 leave ranks without planes
and blocks that are short; ghost zones are deeper than a slab, so that they lie
on several ranks and on the rank itself. The padded grid of sides 2 and 6 is
odd (3 and 9), that of 4 even (6). Two threads receive at a time, which lets receives overtake each
other; with one thread the order is a special case. A send completes when it is
received, the strictest MPI allows for large messages. Fairness: weak fairness of
each rank's own steps and of the steps all ranks take together once they have
arrived; under it `Ends` says that no exchange deadlocks. Deadlock itself is not
checked because a run stops when its job is done. `NoModeLost` is claimed for
even destinations: of an odd one the code takes the highest mode for a Nyquist
mode and drops it.

`fields`. The program is sequential, so that a configuration is one behaviour;
what is explored is the set of configurations: order, format and species list in
full product, and the other switches by themselves or in pairs. The tests run at
third order, as the configuration files of the repository have them: at lower
orders three of them read potentials that are not allocated (`testing.cc:87`,
`:183`); `TestsThirdOrder` says so, as the hypothesis of the theorems. `HistoryLeavesNoTrace` excepts the convergence test, which rescales the
potentials it is given and does not scale them back (`testing.cc:282`). The run
stops with the program.

`particle_load`. Slabs of one plane split a cube of the mask between two ranks,
four ranks on two or three planes leave ranks empty, an odd side is refused by
the masked load. 128 short ids hold some loads and not others: `IdsAreUnique` is
claimed for those they hold.

`files`. Three ranks, one of them without particles and one without planes, are
enough for every interleaving of a writer with one before and one after it; two
particles per chunk put some species below a chunk. The run ends in `Done`, so
that deadlock is checked: the ranks always reach the same collectives. SWIFT with
fewer particles than a chunk is excepted from two properties (see below).

`noise`. Grids of sides 4, 6 and 8 have one mode pair below the Nyquist
frequency or several; three ranks on side 4 leave one without planes. MUSIC1 is
instantiated on one rank and PANPHASIA with a grid of its own at least as fine as
the noise: on more ranks MUSIC1's loop leaves planes unset (the hazard at
`random_music.cc`), and `NoiseIsReproducible` does not hold. Cubes of sides 2 and
32 divide the coarse levels or exceed them; with another size the noise is another
one, which is why the property compares runs with the same cubes. A level coarser
than a cube is one cube of its own size, and as such the same for both.

Finding (`files_header`). `set_particle_attributes` of the gadget plugin assigns
the 32-bit counts; the destructor writes the 64-bit ones unless
`Gadget2Compatibility` is set. The header of a default snapshot says that it has
no neutrinos while the file holds them.

What else modelling showed, without a run of its own, because no statement in
the repository says otherwise or because the model excepts it by name:

* SWIFT: datasets with less than 1 MB per chunk are refused by HDF5 and silently
  missing (`HDF_IO.hh:913`). Neutrinos in SWIFT or AREPO on several ranks always
  end in an exception at the merge, after all the work; so do
  `gadget_hdf5_double` and genericio with neutrinos.
* grafic2: every rank removes and makes the directory while rank 0 writes the
  namelist (`output_grafic2.cc:109`), which may lose it; files of an earlier run
  that this one does not write remain.
* A merge whose copy fails has already deleted the old group and loses both
  copies; the run ends with an exception, which is what
  `LostNeutrinosAreReported` asks for.
* Odd sides: NGENIC drops mode n / 2. Constraint fields and the downsampled noise
  copy only one of the two Nyquist modes of the coarser grid, so that the
  properties of `WhiteNoise` leave these modes aside. A cube size that does not
  divide the grid makes MUSIC1 repeat its noise.
* The testing mode writes initial conditions although it warns that it does not
  (`ic_generator.cc:758`, `:793`).
* The glass under MPI uses starts that were never set, divides the particles with
  a remainder that is lost (`particle_generator.hh:95`) and takes `tile_z` modulo
  the square of the number of tiles (`:112`); with baryons `set_masses` throws.

## 4. Theorems

`EmbeddedTransfer_proof` proves for every nonempty set of ranks, every set of
jobs and callback codes and every number of calls: `TypeCorrect`,
`CollectivesAlwaysMatch`, `ResultIsUniform`, `ReturnIsClean`, `HostSeesScript`,
`EndIsComplete`, `NoStaleBackground`; and, with the additional hypothesis that
callback codes are natural numbers, `StreamStops`, `SuccessIsDelivered` and
`ImplementsContract`. The other assumptions are the five named ones of the
module, which give the constants their types. Deviating from them is refused by
TLC in every run.

The argument. None of the properties is inductive. The invariant that carries
them is about where ranks can be relative to each other:

* `Lockstep`: each place in the code has a *heading*, the next collective (and
  its species) the rank will enter if nothing is thrown on it alone; all ranks
  that are neither unwinding nor returned have the same heading. Only a
  collective changes headings, and it moves all ranks at once.
* `PlaceInv` and `GlobalsInv`: what the globals of a rank are at each place.
* `LogInv`: how many callbacks a rank has had, given its place, and that those
  are a prefix of the script; ranks that have left are never ahead.
* `FailureInv`: a rank whose callback refused is at the reduction of that
  callback or has left after it.
* `CountsInv`: `local` adds up, over the species already delivered, to what was
  made.
* `FreshInv`: the background table of a rank that has begun is empty or of this
  call.

Each is preserved by one step per action. The refinement maps every action to
`Deliver`, `Succeed`, `Fail`, `NewCall` or a stutter.

The arithmetic and counting that several proofs need is in `Counting`: quotients
and remainders, the cardinality of an image, the n-th element of a set of
numbers, the sum over a finite set, the steps of a list put together from lists. Its
`LeastOf`, that a nonempty set of numbers
has a least element, is what the proofs use in place of induction: the least
counterexample has a predecessor that is none.

`ParticleShares_proof` proves, for every number of ranks and loads and cubes of
every size, `TypeCorrect`, `LatticeSharesAreExact`, `LatticeIdsAreUnique`,
`NeutrinosAreConsecutive`, `BoundaryIsTheCeiling` and `NeutrinosFillTheCube`. They
rest on arithmetic first: the quotient rounded up is characterised by two
inequalities (`CeilDivBounds`, `CeilDivUnique`), from which
`ceil_partition_boundary` equals it (`PartitionBoundary`), and each of the three
partitions has boundaries in ascending order (`SlabMonotone`,
`PartitionMonotone`, and `FastDFMonotone`, which holds whatever `RoundsUp` says).
The invariant then says that what a rank has announced is its `Share`
(`AnnouncedInv`), that what it has made is what the partitions give it
(`MadeInv`), and that it has made a species when it is past its place in the loop
(`ProgressInv`); consecutive and disjoint ids follow from the order of the
boundaries. For `NeutrinosFillTheCube` the table of partial sums telescopes
(`SumOfDifferences`): what all ranks make is the last boundary less the first. A
transfer that is found complete therefore ends at the end of the cube
(`DeliveredInv`), and boundaries in ascending order leave nothing out.

`GridExchange_proof` proves, for every number of ranks and threads and all jobs of
`JobsAssumption` (copies to grids at most twice as fine) on grids whose sides a
`size_t` holds (`SizeRangeAssumption`), `TypeCorrect`, `ReceivesHaveTheirSends`, `NoMessageIsLeftBehind` and
`GhostPlanesAreNeighbours`. Three layers:

* Slabs. FFTW's blocks tile the box in order (`SlabBounds`, `Blocks`); the
  gathered and raised offsets are the clipped multiples of the block whatever a
  rank without planes reports (`OffsetsAre`), so that the slab of a rank is an
  interval (`SlabIs`) and `get_task` returns the one rank whose slab has the
  plane (`OwnerIs`, `Owned`).
* Pairing. The unsigned bounds of both sides do not wrap (`SizesDoNotWrap`). The
  sent and the received indices of two grids are in bijection (`SentIsReceived`, `ReceivedIsSent`), a ghost plane seen by its owner is the one
  its reader wants (`GhostPlaneAgrees`), hence every send has its receive and
  every receive its send (`SendIsReceived`, `ReceiveIsSent`), and no two messages
  of an exchange share source, destination and tag (`TagsAreUnique`).
* The invariant. `EveryReceiveHasItsSend` is not inductive: it has to be known
  that what is in the net or still to be sent is exactly what somebody waits for.
  `IInv` adds which places the ranks can be in together (`InPhase`), that open
  receives and sent messages are those of this exchange (`TodoIsOpen`,
  `SentIsExpected`, `ExpectedIsSent`) and that a message for a rank that has not
  posted its receives yet is kept for it (`WaitsForTheLate`, `KeptForTheLate`).
  The barrier after the receives then finds the net empty (`NetIsEmpty`).
  `GInv` adds what the ghost planes that have arrived contain (`GhostsArrive`).

The same module proves `ResultsHaveNoAlias` and `NoModeIsLost`: what a copy or
a convolution leaves in its result is free of aliases, and has every mode that
the result and the factors resolve (of an even destination, see section 3), for
grids of every such size and any number of ranks. A copy moves an index to one of the
same wave number, which both grids resolve (`WaveIsKept`, `CopiedRow`); two
resolved wave numbers add up on the padded grid to a resolved one or to one that
the copy back drops (`NoWrapAround`, Orszag's 3/2 rule), so that a product of two
padded fields may be unpadded (`ProductIsUnpadable`). The rows of a copy arrive
one message at a time and in any order, and a row that has not arrived is empty,
which is no alias; so `DInv` adds to `IInv` only what the fields are past each
step of a convolution (`Convolved`): padded factors, a product that may be
unpadded, a clean outcome, which is the first factor of the second convolution of
three fields. It rests on what `IInv` says of messages in flight: the row a rank
receives is the one that belongs there.

That nothing is lost needs more, since an empty row does lose modes. `FInv` adds
that a rank has every row it no longer waits for, and has it as the source has it
(`RowsHold`), and which modes each field holds at each step of the script
(`FullHold`): the padded factors all modes of theirs, the product the sums of all
pairs of them, the outcome those of the sums that it resolves. A rank that has
left a copy waits for nothing, so that its rows are complete (`CopyIsFull`); that
each sum is found in the one cell of the padded grid it belongs to is
`SumIsFound`.

`ParticleLoad_proof` proves every property of the module, `IdsNeverRepeat`,
`SitesAlwaysAgree`, `ContainersAlwaysFit` and `MaskKeepsMass`, for grids of
every size, every lattice and mask and any number of ranks. They assume that the
configurations are of the form `Config` (`ConfigsAssumption`) and that short ids
have a positive range. The properties compare particles of all ranks and species
at the end of a run; the argument brings them back to what one iteration of one
loop writes:

* Cells. A local index of a slab is one cell of the grid, and no two ranks have
  the same one (`CellOf`, `CellsDiffer`). The loops reach every index of a
  container once, each with another sublattice or cell (`ReachFacts`; for a
  masked load by `NthExists`).
* Ids. What is counted is a number in the base `overload`, with the sublattice as
  its last digit and the cells of the second species behind those of the first
  (`CountedIs`), so that it tells particles apart (`CountedDiffer`), and it is
  stored as it is when the number of particles fits (`StoredIs`).
* Places. The differences by which a field is shifted from one sublattice to the
  next add up to the shift of the sublattice (`ShiftedIs`); no two sublattices of
  the two species have the same place in a cell, even up to whole cells
  (`OffsetsDiffer`), hence no two particles in the box (`PlacesDiffer`).
* The invariant. `LInv` says of every species how far it is (`Made`, `Weighed`,
  `Put`, `Given`), that its containers have the indices the loops reach, and that
  the particle at an index holds what belongs to what is reached there
  (`ParticleHolds`). It holds for species that are done with as for the one at
  hand; each setter adds one quantity and leaves the others alone. `CInv` adds
  what the total of the species at hand counts.
* Totals. A lattice counts its particles as `ngrid^3` times the sublattices, a
  masked load sums over the ranks; both are the number of what the loops of all
  ranks reach (`CountIs`), the first because the slabs telescope (`LoopsUpto`),
  the second because the sum grows by the container of each rank (`SumOfRanks`).
* Cubes. Every cell of the grid is reached on the one rank that owns its plane
  (`OwnerOfPlane`, `IndexOfCell`, `NthIs`), so that a cube has one particle in
  each corner of its species, whether or not it is cut by a slab (`MineAreKept`,
  `KeptAreMine`). A masked load is made on even grids only (`EvenSide`), which is
  why no cube wraps around the box and the corners of a cube are found from any
  of its cells (`WeightIs`). The weights then add up to the same for each of the
  eight cells (`CubeSum`).

`WhiteNoise_proof` proves `ExportedIsLargeScale` and `Reproducible`, for grids of
every even size, neutrino grids of every even size, constraint fields of every
even size up to twice that of the noise and any number of ranks
(`ConfigsAssumption`, with the finest of these grids, `MaxRes`, as the
unit in which shifts are counted; `PairedUnsigned` shows that no index wraps). The properties compare
what is in a cell with a formula for its wave vector; the proof follows the
number of a cell through the program:

* Every generator writes each cell of a slab once: the two halves of NGENIC's
  plane k = 0 and its general case do not overlap and leave out only the Nyquist
  modes, the planes of MUSIC1 and PANPHASIA are those of the slab. The number
  written is that of the wave vector, with or without the transposition that MPI
  brings; NGENIC's table of seeds, drawn ring after ring, is one of place and not
  of size, so that a finer grid begins with the same seeds.
* `IInv` says that every cell a rank has filled holds one number with the
  scalings of the steps it has been through (`CellsHold`), and what is in the
  partial copies that the ranks sum into the exported field and in the export
  (`PartHolds`, `ExportHolds`). `RInv` adds which planes are filled and what the
  number in a cell is (`PlanesRight`, `CellsRight`).

`Reproducible` has the hypothesis `Regular`: MUSIC1 runs on one rank and its
cubes divide its levels, and the grid of PANPHASIA is not coarser than the noise.
It is not a convenience. Without it the property fails in the code: MUSIC1's loop
leaves the planes of all ranks but the first unset (`random_music.cc:92`), it
repeats the noise when a cube does not fit, and `PANPHASIA.hh:137` rounds the
level of its grid down. Every configuration of the run `noise` is regular.

`SnapshotFiles_proof` proves `NoiseIsAlwaysReadWhole`, for every number of ranks,
every distribution of the planes, rank 0 without any included, and all formats,
whatever an earlier run has left on disk, whichever merge fails and whoever is
terminated (`ConfigsAssumption` gives the fields of a configuration their types).
The hazard is the order of steps on different ranks, and what a rank still has to
do is a list put together from the methods of the code; so the proof is in two
halves.

* Lists. `FlattenIs` and `FlattenFirst` say what joining a list of lists gives; the prover has no induction over them, so that `JoinsExist` finds the table of
  partial joins with a least counterexample. From these follow what every program
  is made of: the constructors have no step about the file of the noise
  (`ConstructIs`), nothing after the export has one but the reads
  (`RestIsRest`), and the export itself goes from one collective to the next, with
  the step of rank q in turn q (`ExportTails`, `ProgramIs`).
* The invariant. `Underway` says where the ranks are in the export, relative to
  each other, in eight phases (`Exporting`), and what is then in the file: while
  the constructors and the unlinking go on, an old file may be there, but then rank
  0 has yet to unlink it (`Clearing`); when turn q has come, the planes before those
  of rank q are written and the ones behind are blank (`Filled`). Whoever has the
  file open is about to edit it (`HeldRight`), which is why no open is refused. The
  ranks' slabs adjoin, also around empty ones (`SlabStarts`, `PlanesAdd`), hence
  after the last turn the field is whole (`FilledIsWhole`). `After` says that it
  stays so. What follows the export is the same list from the first step on,
  quantified in the invariant and never changed by it.

It also proves `LostNeutrinosEndTheRun`: a run with neutrinos that ends well has
every neutrino of every rank in the snapshot, once, in each of the two datasets.
The invariant is `NeutrinoInv`.

* Where every program leads (`ProgramMerges`, `ProgramThrows`). The neutrinos are
  the last species (`NeutrinosLast`), so that around `Neutrinos(r)` come steps about
  the files of rank r and those that all share (`PlacedList`, which also says which
  steps may name a snapshot for the merge), and behind it only steps that leave the
  data of a file alone: counts, groups, attributes and collectives (`ClosingList`).
* Formats that fit the merge (`Matching`: gadget_hdf5, or one rank). Each rank is
  before the step in which FastDF writes its file, before the merge opens it,
  before it copies it, or past that with the neutrinos received (`InMerge`). What
  makes this inductive is that no step of another rank is about this rank's
  snapshot or temporary file (`MergeFiles`, `OtherMerge`).
* The others. An exception is ahead of rank 0 and can only be taken by dying
  (`Throwing`), or the merge will open a snapshot under a name that nobody gives to
  a file (`Missing`: `ic.hdf5.0` and `ic.hdf5` are written, `ic.0.hdf5` is
  looked for). Neither list ever becomes empty while nobody is dead (`Stuck`). The
  theorem thus says why AREPO and SWIFT with neutrinos on several ranks end in an
  error, and that they do so without exception.
* `ReceivedByAll` adds up the files: `EntriesAre` turns the sum of their entries
  into the number of what they hold, since no entry is there twice.

`FieldPipeline_proof` proves `FieldsAreReadAsTheyAre` and `NoInfiniteMean`: no block
of a run, no diagnostic and no output reads a grid that is not allocated, not
filled, in the other space, or infinite at k = 0, for runs of every order and every
combination of species, format, corrections and switches. `ConfigsAssumption` gives
the parameters their types. Both have the hypothesis `TestsThirdOrder`: the diagnostics of potentials, symmetries and
convergence are run at third order. It is one of the code: `testing.cc` takes `phi2`,
`phi3` and `A3` by reference and reads them whatever the order, while the driver
fills `phi2` from the second order on and `phi3` and `A3` from the third; at a lower
order the statement is false.

* Marks. Which reads are sound depends on the state and the space of a grid and not
  on its data, so the proof forgets the data: `Shows` relates the grids to a mark of
  each ("off"; "r0", "k0" when empty; "r", "k" when filled; "k8" when infinite). One
  lemma per instruction says what it needs of the marks and what it makes of them
  (`Steps`).
* Lists. `Runs` follows the marks through a list of instructions, `Takes` through a
  list for every member of a set of marks; both compose when lists are joined
  (`RunsJoin`, `TakesJoin`), which is why no induction over the lists is needed.
* Blocks. One lemma for each block, between sets of marks that are also what one
  block promises the next: `Drawn` after the noise, `Begun(n)` and `Complete(n)` while
  the potentials up to order n are made, then `Between(n)`, in which a potential may
  be left in either space, and `Moving(n)`, in which all are in Fourier space. That
  displacing begins with `PotentialsForward` is what takes `Between` to `Moving`;
  the wave function and the diagnostics leave potentials in real space.
* The invariant. `ReadsAreDefined` is not inductive: what a read finds was left by
  another block. `IInv` says that nothing was read that was not there, and that the
  rest of the current block, run from the present marks, leads to those that the
  next block is entered with (`Ready`). `Execute` takes one instruction from the
  list (`GoesOn`); every other action finds the list empty and loads one
  (`EntersBlock`).

Only model-checked: `EveryCallReturns` and `Ends`, since liveness under fairness
and ENABLED are beyond the prover; `TermsAreLPT` and `HistoryLeavesNoTrace` of
`FieldPipeline`, whose expressions are evaluated by folds that would take an
induction over the data, and its `OutputIsComplete`, which selects the fields of a
species from the list of outputs with such a fold; and `NothingRefused`, `SnapshotIsWhole` and `HeaderMeansComplete` of
`SnapshotFiles`,
for which the particles and headers of every format would have to be followed
through the steps as the noise and the neutrinos are. Sums over finite
sets are within reach, since the table they are defined by can be reasoned about
with least counterexamples (`SumTableExists`, `SumIs` in `Counting`). The bridge's
sums over all ranks in `EmbeddedTransfer` are an uninterpreted function of the
shares, which is all its proofs need.

## 5. What is left

1. `ClassTables`: `distribute_ClassTables` on two communicators, with the tables
   and the error text, refining an abstract agreement.
2. `FastDFWindow`: the grids a node shares in one window, and that no rank reads
   what another is writing between two fences.
3. The glass, once its decomposition has a meaning under MPI.

## 6. Not modelled

| What | Why |
|---|---|
| Cosmology, transfer functions, PLT, vectors and interpolation | floating-point numerics without control state; `FieldPipeline` names them as factors |
| `config_file.hh` | a map from names to text, read once; the models take the values |
| CLASS and its tables | the outcome is in `EmbeddedTransfer`; the tables are numerics |
| FastDF's integration and its shared window | the decisions, ids, files and noise are modelled; the window is in the list above |
| The numbers of PANPHASIA, MUSIC1 and NGENIC, noise that MUSIC1 reads from a file | `WhiteNoise` says where a number is drawn from, not what it is |
| FFTs, power spectra, PDFs | taken for what they promise |
| The interpolation of `grid_interpolate.hh` | only the glass uses it |
| Units, cosmology attributes, encodings of files; logging, statistics, the build, tests | no property is about them |
| Vendored PANPHASIA code | third party |

The stand-alone `main` makes the same calls as the embedded entry point with less
state, except that it does not catch exceptions of `run`; `SnapshotFiles` models
what that does to the files. `PROJECT.json` gives the status of each component.
