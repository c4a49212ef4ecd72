---------------------------- MODULE SnapshotFiles ----------------------------
(***************************************************************************)
(* The files of a run of the stand-alone program: the snapshot that the    *)
(* file output plugins write, by one rank, by every rank into a file of    *)
(* its own or by the ranks in turn, the white noise that FastDF reads back *)
(* and the temporary files with neutrinos that are merged into the         *)
(* snapshot.  Every rank runs a list of steps, one at a time, interleaved  *)
(* with those of the other ranks; collectives are steps that all ranks     *)
(* take together.  An HDF5 file that is open for writing is locked, and an *)
(* HDF5 call that fails returns an error nobody looks at.                  *)
(*                                                                         *)
(* A particle is <<species, rank, number>>; a dataset maps indices to      *)
(* what is stored, and a plane of a field is <<number>>.                   *)
(***************************************************************************)
EXTENDS Integers, FiniteSets, FiniteSetsExt, Sequences, SequencesExt

CONSTANTS
  Configs,         \* the runs explored
  ChunkSize        \* the entries of a chunk of SWIFT's datasets

ASSUME ChunkSizeIsPositive == ChunkSize \in Nat \ {0}

\* load, nu     the particles and the neutrinos every rank has
\* planes       the planes of its slab
\* sampled      the noise that FastDF reads is a smaller copy, on one rank
\* stale        an earlier run has left its files
\* fault        the rank on which the merge of the neutrinos fails, or -1
ASSUME ConfigsAssumption ==
  \A c \in Configs :
    /\ c.format \in {"gadget_hdf5", "gadget_hdf5_double", "AREPO", "SWIFT", "generic", "grafic2",
                    "genericio"}
    /\ c.ranks \in Nat \ {0}
    /\ \A share \in {c.load, c.nu, c.planes} : share \in [0..(c.ranks - 1) -> Nat]
    /\ {c.baryons, c.neutrinos, c.sampled, c.compatible, c.stale} \subseteq BOOLEAN
    /\ c.fault \in Int

VARIABLES
  cfg,             \* format, ranks, loads, species, planes, faults
  fs,              \* the files on disk
  held,            \* the HDF5 files that every rank has open for writing
  code,            \* the steps that every rank has left
  hdr,             \* the header every plugin keeps for its destructor
  seen,            \* the white noise every rank has read
  refused,         \* the HDF5 calls that failed
  dead             \* the ranks that were terminated

vars == <<cfg, fs, held, code, hdr, seen, refused, dead>>

Rank == 0..(cfg.ranks - 1)
Baryon == 0
DM == 1
Neutrino == 2
Species == {Baryon, DM, Neutrino}
species_list ==
  <<DM>> \o (IF cfg.baryons THEN <<Baryon>> ELSE <<>>)
         \o (IF cfg.neutrinos THEN <<Neutrino>> ELSE <<>>)

Unset == <<>>
NewFile == [groups |-> {}, data |-> [d \in {} |-> Unset], attr |-> [a \in {} |-> Unset]]
Path(name, r) == [name |-> name, rank |-> r]
Shared(name) == Path(name, -1)
Step(op, file, on, val) == [op |-> op, file |-> file, on |-> on, val |-> val]
NoFile == Shared("")

\* Lists of steps.
Only(r, q, steps) == IF r = q THEN steps ELSE <<>>
When(c, steps) == IF c THEN steps ELSE <<>>
ForEach(list, Steps(_)) == FlattenSeq([i \in DOMAIN list |-> Steps(list[i])])
RanksInOrder == [i \in 1..cfg.ranks |-> i - 1]
Sync(call) == <<Step("sync", NoFile, call, Unset)>>
Throw == <<Step("throw", NoFile, "", Unset)>>

-----------------------------------------------------------------------------
(* HDF_IO.hh: every operation opens the file, edits it and closes it.      *)

unlink(f) == <<Step("unlink", f, "", Unset)>>
HDFCreateFile(f) == <<Step("create", f, "", Unset)>>
HDFCreateGroup(f, g) == <<Step("group", f, g, Unset)>>
HDFWriteGroupAttribute(f, g, a, v) == <<Step("attribute", f, <<g, a>>, v)>>
HDFWriteGroupText(f, g, a) == <<Step("attribute", f, <<g, a>>, "text")>>
HDFWriteDataset(f, d, values) == <<Step("dataset", f, d, values)>>
HDFWriteDatasetVector(f, d, values) == <<Step("dataset", f, d, values)>>
HDFCreateEmptyDataset(f, d, n) == <<Step("empty", f, d, n)>>
HDFCreateEmptyDatasetVector(f, d, n) == <<Step("empty", f, d, n)>>
HDFWriteDatasetChunk(f, d, values, offset) ==
  <<Step("chunk", f, d, [values |-> values, offset |-> offset])>>
HDFWriteDatasetVectorChunk(f, d, values, offset) ==
  <<Step("chunk", f, d, [values |-> values, offset |-> offset])>>

-----------------------------------------------------------------------------
(* Particles, planes and the shares of the ranks.                          *)

\* The particles a rank has of a species, in the order of its container.
get_local_num_particles(r, s) == IF s = Neutrino THEN cfg.nu[r] ELSE cfg.load[r]
get_global_num_particles(s) ==
  MapThenSumSet(LAMBDA r : get_local_num_particles(r, s), Rank)
Container(r, s) == [i \in 0..(get_local_num_particles(r, s) - 1) |-> <<s, r, i>>]

\* MPI_Exscan: the particles of the ranks before.
Exscan(r, s) == MapThenSumSet(LAMBDA q : get_local_num_particles(q, s), 0..(r - 1))

\* Slabs as FFTW reports them: an empty one starts at 0.
Planes(r) == cfg.planes[r]
AllPlanes == MapThenSumSet(Planes, Rank)
local_0_start(r) == IF Planes(r) = 0 THEN 0 ELSE MapThenSumSet(Planes, 0..(r - 1))

\* The starts that Write_to_HDF5 uses: an empty slab starts where the one
\* before it ends.
offsets0(r) ==
  LET ends == {local_0_start(q) + Planes(q) : q \in 0..(r - 1)}
  IN Max({local_0_start(r)} \cup ends)

-----------------------------------------------------------------------------
(* Grid_FFT::Write_to_HDF5.                                                *)

Slab(r) == [i \in 0..(Planes(r) - 1) |-> <<local_0_start(r) + i>>]
WholeField == [p \in 0..(AllPlanes - 1) |-> <<p>>]

\* Mutant: rank 0 writes its own planes, without those reduced onto it.
WriteLocalField_Own(r, f, d) ==
  Only(r, 0, <<Step("ensure", f, "", Unset)>> \o HDFWriteDataset(f, d, Slab(r)))

\* A field of which one rank has all the planes.
WriteLocalField(r, f, d) ==
  Only(r, 0, <<Step("ensure", f, "", Unset)>> \o HDFWriteDataset(f, d, WholeField))

\* Mutant: the turns are not separated.
WriteField_NoTurns(r, f, d) ==
  Only(r, 0, <<Step("ensure", f, "", Unset)>>)
  \o Sync("Barrier") \o Sync("Allgather") \o Sync("Allgather") \o Sync("Allreduce")
  \o <<Step(IF r = 0 THEN "field" ELSE "planes", f, d,
            [values |-> Slab(r), offset |-> offsets0(r)])>>

\* A distributed field: rank 0 creates the file, if there is none, and the
\* dataset; every rank writes its planes when its turn has come.
WriteField(r, f, d) ==
  LET Turn(q) ==
        Sync("Barrier")
        \o Only(r, q, <<Step(IF q = 0 THEN "field" ELSE "planes", f, d,
                             [values |-> Slab(r), offset |-> offsets0(r)])>>)
  IN Only(r, 0, <<Step("ensure", f, "", Unset)>>)
     \o Sync("Barrier") \o Sync("Allgather") \o Sync("Allgather") \o Sync("Allreduce")
     \o ForEach(RanksInOrder, Turn)

-----------------------------------------------------------------------------
(* The plugins: constructors.                                              *)

\* gadget_hdf5 puts the rank before the suffix, AREPO behind it.
GadgetFile(r) == IF cfg.ranks > 1 THEN Path("ic.#.hdf5", r) ELSE Shared("ic.hdf5")
ArepoFile(r) == IF cfg.ranks > 1 THEN Path("ic.hdf5.#", r) ELSE Shared("ic.hdf5")
SharedFile == Shared("ic.hdf5")
Gadget == {"gadget_hdf5", "gadget_hdf5_double"}
this_fname(r) ==
  CASE cfg.format \in Gadget -> GadgetFile(r)
    [] cfg.format = "AREPO" -> ArepoFile(r)
    [] OTHER -> SharedFile
ParticleFormats == Gadget \cup {"AREPO", "SWIFT", "genericio"}

Parameters(f) ==
  HDFCreateGroup(f, "ICs_parameters") \o HDFWriteGroupText(f, "ICs_parameters", "Code")

ConstructGadget(r) ==
  unlink(GadgetFile(r)) \o HDFCreateFile(GadgetFile(r)) \o Parameters(GadgetFile(r))
ConstructArepo(r) == unlink(ArepoFile(r)) \o HDFCreateFile(ArepoFile(r))
ConstructSwift(r) ==
  Only(r, 0, unlink(SharedFile) \o HDFCreateFile(SharedFile)
             \o HDFCreateGroup(SharedFile, "Units")
             \o HDFWriteGroupText(SharedFile, "Units", "Unit mass")
             \o Parameters(SharedFile))
ConstructGeneric(r) ==
  Only(r, 0, unlink(SharedFile) \o HDFCreateFile(SharedFile)
             \o HDFCreateGroup(SharedFile, "Header")
             \o HDFWriteGroupText(SharedFile, "Header", "Boxsize"))
  \o Sync("Barrier")
\* Every rank removes and makes the directory; rank 0 writes the namelist.
ConstructGrafic(r) ==
  <<Step("rmdir", Shared("ic"), "", Unset)>> \o <<Step("mkdir", Shared("ic"), "", Unset)>>
  \o Only(r, 0, unlink(Shared("ic/ramses.nml"))
                \o <<Step("append", Shared("ic/ramses.nml"), "", <<0>>)>>)

Construct(r) ==
  CASE cfg.format \in Gadget -> ConstructGadget(r)
    [] cfg.format = "AREPO" -> ConstructArepo(r)
    [] cfg.format = "SWIFT" -> ConstructSwift(r)
    [] cfg.format = "generic" -> ConstructGeneric(r)
    [] cfg.format = "grafic2" -> ConstructGrafic(r)
    [] cfg.format = "genericio" -> <<>>

-----------------------------------------------------------------------------
(* The plugins: particles of a species.                                    *)

get_species_idx(s) == IF s = Neutrino /\ cfg.format = "SWIFT" THEN 6 ELSE s
PartType == [i \in 0..6 |-> CASE i = 0 -> "PartType0" [] i = 1 -> "PartType1"
                              [] i = 2 -> "PartType2" [] OTHER -> "PartType6"]
Group(s) == PartType[get_species_idx(s)]
Dataset(s, d) == <<Group(s), d>>

\* The counts of a species, into the header of the plugin.  set: the fields
\* of the header that are assigned.
SetCounts(s, local, all, set) ==
  <<Step("note", NoFile, s, [local |-> local, all |-> all, set |-> set])>>
Counts32 == {"npart", "npartTotal"}
Counts64 == {"npart64", "npartTotal64"}

\* get_global_num_particles, called again and again.
Totals(times) == ForEach([i \in 1..times |-> i], LAMBDA i : Sync("Allreduce"))

WriteGadgetParticles(r, s) ==
  LET f == this_fname(r) IN
    Totals(IF cfg.baryons THEN 3 ELSE 4)
    \o SetCounts(s, get_local_num_particles(r, s), get_global_num_particles(s),
                 Counts32 \cup Counts64)
    \o HDFCreateGroup(f, Group(s))
    \o HDFWriteDatasetVector(f, Dataset(s, "Coordinates"), Container(r, s))
    \o HDFWriteDatasetVector(f, Dataset(s, "Velocities"), Container(r, s))
    \o HDFWriteDataset(f, Dataset(s, "ParticleIDs"), Container(r, s))
    \o When(cfg.baryons, HDFWriteDataset(f, Dataset(s, "Masses"), Container(r, s)))

WriteArepoParticles(r, s) ==
  LET f == this_fname(r) IN
    Totals(IF cfg.baryons THEN 2 ELSE 3)
    \o SetCounts(s, get_local_num_particles(r, s), get_global_num_particles(s), Counts32)
    \o HDFCreateGroup(f, Group(s))
    \o HDFWriteDatasetVector(f, Dataset(s, "Coordinates"), Container(r, s))
    \o HDFWriteDatasetVector(f, Dataset(s, "Velocities"), Container(r, s))
    \o HDFWriteDataset(f, Dataset(s, "ParticleIDs"), Container(r, s))
    \o When(cfg.baryons, HDFWriteDataset(f, Dataset(s, "Masses"), Container(r, s)))

\* Rank 0 creates the datasets at their full size, then the ranks fill in
\* their parts in turn.
WriteSwiftParticles(r, s) ==
  LET f == SharedFile
      n == get_global_num_particles(s)
      Empty(d) == HDFCreateEmptyDataset(f, Dataset(s, d), n)
      Chunk(d) == HDFWriteDatasetChunk(f, Dataset(s, d), Container(r, s), Exscan(r, s))
      Vector(d) == HDFWriteDatasetVectorChunk(f, Dataset(s, d), Container(r, s), Exscan(r, s))
      gas == IF s = Baryon THEN <<"InternalEnergy", "SmoothingLength">> ELSE <<>>
      Turn(q) ==
        Sync("Barrier")
        \o Only(r, q, Vector("Coordinates") \o Vector("Velocities") \o Chunk("ParticleIDs")
                      \o Chunk("Masses") \o ForEach(gas, Chunk))
  IN Totals(IF cfg.baryons THEN 4 ELSE 5)
     \o SetCounts(s, n, n, Counts32)
     \o Only(r, 0, HDFCreateGroup(f, Group(s))
                   \o HDFCreateEmptyDatasetVector(f, Dataset(s, "Coordinates"), n)
                   \o HDFCreateEmptyDatasetVector(f, Dataset(s, "Velocities"), n)
                   \o Empty("ParticleIDs") \o Empty("Masses") \o ForEach(gas, Empty))
     \o Sync("Exscan") \o ForEach(RanksInOrder, Turn) \o Sync("Barrier")

write_particle_data(r, s) ==
  CASE cfg.format \in Gadget -> WriteGadgetParticles(r, s)
    [] cfg.format = "AREPO" -> WriteArepoParticles(r, s)
    [] cfg.format = "SWIFT" -> WriteSwiftParticles(r, s)
    [] cfg.format = "genericio" -> Sync("Allreduce")

\* The counts of a species that another program has written.
set_particle_attributes(r, s) ==
  SetCounts(s, IF cfg.format = "SWIFT" THEN get_global_num_particles(s)
                                      ELSE get_local_num_particles(r, s),
            get_global_num_particles(s), Counts32)

-----------------------------------------------------------------------------
(* The plugins: fields of a species.                                       *)

Components == <<"dx", "vx">>
FieldName == [s \in Species |-> CASE s = DM -> [dx |-> "DM_dx", vx |-> "DM_vx"]
                                  [] s = Baryon -> [dx |-> "BA_dx", vx |-> "BA_vx"]
                                  [] OTHER -> [dx |-> "NU_dx", vx |-> "NU_vx"]]
GraficName == [s \in Species |-> CASE s = DM -> [dx |-> "ic/poscx", vx |-> "ic/velcx"]
                                   [] s = Baryon -> [dx |-> "ic/posbx", vx |-> "ic/velbx"]
                                   [] OTHER -> [dx |-> "ic/posnx", vx |-> "ic/velnx"]]

\* Mutant: the file of an earlier run is appended to.
WriteGraficField_Kept(r, s, c) ==
  LET f == Shared(GraficName[s][c])
      Plane(p) == Sync("Reduce") \o Only(r, 0, <<Step("append", f, "", <<p>>)>>)
  IN When(~(s = Baryon /\ c = "dx"),
          Only(r, 0, <<Step("append", f, "", <<-1>>)>>)
          \o ForEach([p \in 1..AllPlanes |-> p - 1], Plane))

\* Rank 0 appends the planes, each summed over the ranks.
WriteGraficField(r, s, c) ==
  LET f == Shared(GraficName[s][c])
      Plane(p) == Sync("Reduce") \o Only(r, 0, <<Step("append", f, "", <<p>>)>>)
  IN When(~(s = Baryon /\ c = "dx"),
          Only(r, 0, unlink(f) \o <<Step("append", f, "", <<-1>>)>>)
          \o ForEach([p \in 1..AllPlanes |-> p - 1], Plane))

write_grid_data(r, s, c) ==
  IF cfg.format = "generic" THEN WriteField(r, SharedFile, <<"", FieldName[s][c]>>)
                            ELSE WriteGraficField(r, s, c)

-----------------------------------------------------------------------------
(* The plugins: destructors.                                               *)

HeaderSteps(f, this, all) ==
  HDFCreateGroup(f, "Header")
  \o HDFWriteGroupAttribute(f, "Header", "NumPart_ThisFile", this)
  \o HDFWriteGroupAttribute(f, "Header", "NumPart_Total", all)
  \o HDFWriteGroupText(f, "Header", "MassTable")

\* Mutant: the file's own counts are those of the snapshot.
DestructGadget_Total(r) == HeaderSteps(GadgetFile(r), "npartTotal", "npartTotal")

DestructGadget(r) ==
  IF cfg.compatible THEN HeaderSteps(GadgetFile(r), "npart", "npartTotal")
                    ELSE HeaderSteps(GadgetFile(r), "npart64", "npartTotal64")
DestructArepo(r) == HeaderSteps(ArepoFile(r), "npart", "npartTotal")
DestructSwift(r) == Only(r, 0, HeaderSteps(SharedFile, "npart", "npartTotal"))

\* GenericIO writes what the ranks have buffered, all of them together.
Buffered ==
  LET Of(s, r) == [i \in 1..get_local_num_particles(r, s) |-> <<s, r, i - 1>>]
      all == ForEach(RanksInOrder, LAMBDA r : ForEach(SelectSeq(species_list, LAMBDA s : s # Neutrino),
                                                     LAMBDA s : Of(s, r)))
  IN [i \in 0..(Len(all) - 1) |-> all[i + 1]]
DestructGenericIO(r) ==
  Sync("GenericIO")
  \o Only(r, 0, HDFCreateFile(SharedFile)
                \o HDFWriteDataset(SharedFile, <<"", "x">>, Buffered)
                \o HDFWriteDataset(SharedFile, <<"", "id">>, Buffered))
  \o Sync("Barrier")

Destruct(r) ==
  CASE cfg.format \in Gadget -> DestructGadget(r)
    [] cfg.format = "AREPO" -> DestructArepo(r)
    [] cfg.format = "SWIFT" -> DestructSwift(r)
    [] cfg.format = "genericio" -> DestructGenericIO(r)
    [] OTHER -> <<>>

-----------------------------------------------------------------------------
(* ic_generator::run: the white noise and the neutrinos of FastDF.         *)

WhiteNoise == Shared("white_noise.hdf5")
noise_dset == <<"", "white_noise">>

ExportNoise(r) ==
  When(cfg.neutrinos,
       IF cfg.sampled
         THEN Sync("Reduce") \o Only(r, 0, unlink(WhiteNoise))
              \o WriteLocalField(r, WhiteNoise, noise_dset)
         ELSE Only(r, 0, unlink(WhiteNoise)) \o Sync("Barrier")
              \o WriteField(r, WhiteNoise, noise_dset))
  \o Sync("FFT")

distributed_hdf5_filename(name, r) ==
  IF cfg.ranks > 1 THEN Path(name[2], r) ELSE Shared(name[1])
Temporary == <<"tmp.hdf5", "tmp.#.hdf5">>
Snapshot == <<"ic.hdf5", "ic.#.hdf5">>

\* FastDF: it reads the noise, agrees on the outcome and writes a file on
\* every rank or one for all.
DistributedFiles == cfg.format \in {"gadget_hdf5", "AREPO"}
NeutrinoFile(parts) ==
  LET Data(i) == parts[i + 1] IN
    [NewFile EXCEPT !.groups = {Group(Neutrino)},
       !.data = [d \in {Dataset(Neutrino, "Coordinates"), Dataset(Neutrino, "ParticleIDs")} |->
                   [i \in 0..(Len(parts) - 1) |-> Data(i)]]]
Cube(r) == [i \in 1..cfg.nu[r] |-> <<Neutrino, r, i - 1>>]
run_fastdf(r) ==
  <<Step("read", WhiteNoise, noise_dset, Unset)>> \o Sync("Allreduce")
  \o (IF DistributedFiles
        THEN <<Step("put", distributed_hdf5_filename(Temporary, r), "", NeutrinoFile(Cube(r)))>>
        ELSE Only(r, 0, <<Step("put", Shared("tmp.hdf5"), "",
                               NeutrinoFile(ForEach(RanksInOrder, Cube)))>>))

merge_fastdf_particle_group(r) ==
  <<Step("open", distributed_hdf5_filename(Snapshot, r), distributed_hdf5_filename(Temporary, r),
         Unset),
    Step("copy", distributed_hdf5_filename(Snapshot, r), distributed_hdf5_filename(Temporary, r),
         Unset)>>

\* Mutant: other formats go without neutrinos.
Neutrinos_Skipped(r) ==
  When(cfg.format \in {"gadget_hdf5", "AREPO", "SWIFT"},
       unlink(distributed_hdf5_filename(Temporary, r)) \o run_fastdf(r)
       \o merge_fastdf_particle_group(r) \o set_particle_attributes(r, Neutrino))

Neutrinos(r) ==
  IF cfg.format \in {"gadget_hdf5", "AREPO", "SWIFT"}
    THEN unlink(distributed_hdf5_filename(Temporary, r)) \o run_fastdf(r)
         \o merge_fastdf_particle_group(r) \o set_particle_attributes(r, Neutrino)
    ELSE Throw

WriteSpecies(r, s) ==
  IF s = Neutrino THEN Neutrinos(r)
  ELSE IF cfg.format \in ParticleFormats THEN Sync("FFT") \o write_particle_data(r, s)
  ELSE ForEach(Components, LAMBDA c : Sync("FFT") \o write_grid_data(r, s, c))

Program(r) ==
  Construct(r) \o ExportNoise(r) \o ForEach(species_list, LAMBDA s : WriteSpecies(r, s))
  \o Destruct(r) \o Sync("Barrier")

-----------------------------------------------------------------------------
(* The ranks.                                                              *)

\* Earlier runs have left a snapshot and a noise file behind.
Old == [NewFile EXCEPT !.groups = {"Header", "PartType1"},
          !.data = (noise_dset :> [p \in 0..0 |-> <<-5>>])
                   @@ (<<"", "records">> :> [p \in 0..0 |-> <<-5>>]),
          !.attr = (<<"Header", "NumPart_ThisFile">> :> [s \in Species |-> 5])]
Init ==
  /\ cfg \in Configs
  /\ fs = IF cfg.stale
            THEN [f \in {WhiteNoise, Shared("ic"), Shared("ic/poscx")}
                          \cup {this_fname(r) : r \in Rank} |-> Old]
            ELSE [f \in {} |-> NewFile]
  /\ held = [r \in Rank |-> NoFile]
  /\ code = [r \in Rank |-> Program(r)]
  /\ hdr = [r \in Rank |-> [h \in Counts32 \cup Counts64 |-> [s \in Species |-> 0]]]
  /\ seen = [r \in Rank |-> Unset]
  /\ refused = {} /\ dead = {}

At(r, op) == code[r] # <<>> /\ Head(code[r]).op = op
Pop(r) == code' = [code EXCEPT ![r] = Tail(@)]
Exists(f) == f \in DOMAIN fs
\* The function f with x at d, where it may have had no value.
Updated(f, d, x) == [e \in DOMAIN f \cup {d} |-> IF e = d THEN x ELSE f[e]]
SetFile(f, content) == fs' = Updated(fs, f, content)
DropFile(f) == fs' = [g \in DOMAIN fs \ {f} |-> fs[g]]
In(dir) == {f \in DOMAIN fs : dir = Shared("ic") /\ f.name \in
              {"ic/ramses.nml", "ic/poscx", "ic/velcx", "ic/posbx", "ic/velbx"}}

\* Operations on whole files.
Unlink(r) ==
  /\ At(r, "unlink") /\ Pop(r)
  /\ DropFile(Head(code[r]).file)
  /\ UNCHANGED <<cfg, held, hdr, seen, refused, dead>>

RemoveDirectory(r) ==
  /\ At(r, "rmdir") /\ Pop(r)
  /\ LET f == Head(code[r]).file IN
       IF In(f) = {} THEN DropFile(f) ELSE UNCHANGED fs
  /\ UNCHANGED <<cfg, held, hdr, seen, refused, dead>>

MakeDirectory(r) ==
  /\ At(r, "mkdir") /\ Pop(r)
  /\ LET f == Head(code[r]).file IN
       IF Exists(f) THEN UNCHANGED fs ELSE SetFile(f, NewFile)
  /\ UNCHANGED <<cfg, held, hdr, seen, refused, dead>>

\* HDFCreateFile and create_hdf5: an existing file is emptied.
CreateFile(r) ==
  /\ \/ At(r, "create") /\ SetFile(Head(code[r]).file, NewFile)
     \/ At(r, "ensure") /\ LET f == Head(code[r]).file IN
                                IF Exists(f) THEN UNCHANGED fs ELSE SetFile(f, NewFile)
  /\ Pop(r)
  /\ UNCHANGED <<cfg, held, hdr, seen, refused, dead>>

\* FastDF writes its file on its own.
PutFile(r) ==
  /\ At(r, "put") /\ Pop(r)
  /\ SetFile(Head(code[r]).file, Head(code[r]).val)
  /\ UNCHANGED <<cfg, held, hdr, seen, refused, dead>>

\* One more record at the end of a file that is not HDF5; its directory may
\* have gone.
AppendRecord(r) ==
  /\ At(r, "append") /\ Pop(r)
  /\ LET f == Head(code[r]).file
         old == IF Exists(f) THEN fs[f] ELSE NewFile
         all == IF <<"", "records">> \in DOMAIN old.data THEN old.data[<<"", "records">>]
                                                      ELSE [i \in {} |-> Unset]
         more == Updated(all, Cardinality(DOMAIN all), Head(code[r]).val)
     IN IF Exists(Shared("ic"))
          THEN SetFile(f, [old EXCEPT !.data = Updated(@, <<"", "records">>, more)])
          ELSE UNCHANGED fs
  /\ UNCHANGED <<cfg, held, hdr, seen, refused, dead>>

\* An HDF5 file is opened for writing, unless another rank has it open.
Edits == {"group", "attribute", "dataset", "empty", "chunk", "field", "planes"}
Refuse(r) ==
  /\ Pop(r)
  /\ refused' = refused \cup {[Head(code[r]) EXCEPT !.val = Unset]}
Free(f) == \A q \in Rank : held[q] # f
Open(r) ==
  /\ code[r] # <<>> /\ Head(code[r]).op \in Edits /\ held[r] = NoFile
  /\ LET f == Head(code[r]).file IN
       IF Exists(f) /\ Free(f)
         THEN held' = [held EXCEPT ![r] = f] /\ UNCHANGED <<code, refused>>
         ELSE Refuse(r) /\ UNCHANGED held
  /\ UNCHANGED <<cfg, fs, hdr, seen, dead>>

\* The edit, unless HDF5 refuses it, and the file is closed.
Edit(r, op, Possible(_, _), Result(_, _)) ==
  /\ At(r, op) /\ held[r] # NoFile
  /\ held' = [held EXCEPT ![r] = NoFile]
  /\ LET i == Head(code[r]) f == fs[i.file] IN
       IF Possible(f, i)
         THEN Pop(r) /\ SetFile(i.file, Result(f, i)) /\ UNCHANGED refused
         ELSE Refuse(r) /\ UNCHANGED fs
  /\ UNCHANGED <<cfg, hdr, seen, dead>>

HasGroup(f, g) == g = "" \/ g \in f.groups
NewDataset(f, i) == HasGroup(f, i.on[1]) /\ i.on \notin DOMAIN f.data
Size(f, d) == Cardinality(DOMAIN f.data[d])
WithData(f, d, values) == [f EXCEPT !.data = Updated(@, d, values)]
Blank(n) == [i \in 0..(n - 1) |-> Unset]
\* values from offset on.
Patched(old, values, offset) ==
  [i \in DOMAIN old |-> IF i - offset \in DOMAIN values THEN values[i - offset] ELSE old[i]]

CreateGroup(r) ==
  Edit(r, "group", LAMBDA f, i : i.on \notin f.groups,
       LAMBDA f, i : [f EXCEPT !.groups = @ \cup {i.on}])
CreateAttribute(r) ==
  Edit(r, "attribute", LAMBDA f, i : i.on[1] \in f.groups /\ i.on \notin DOMAIN f.attr,
       LAMBDA f, i : [f EXCEPT !.attr =
         Updated(@, i.on, IF i.val = "text" THEN [s \in Species |-> 0] ELSE hdr[r][i.val])])
CreateDataset(r) ==
  Edit(r, "dataset", NewDataset, LAMBDA f, i : WithData(f, i.on, i.val))
\* A dataset of fixed size must not be smaller than its chunks.
CreateEmpty(r) ==
  Edit(r, "empty", LAMBDA f, i : NewDataset(f, i) /\ i.val >= ChunkSize,
       LAMBDA f, i : WithData(f, i.on, Blank(i.val)))
WriteChunk(r) ==
  Edit(r, "chunk",
       LAMBDA f, i : /\ i.on \in DOMAIN f.data
                     /\ i.val.offset + Cardinality(DOMAIN i.val.values) <= Size(f, i.on),
       LAMBDA f, i : WithData(f, i.on, Patched(f.data[i.on], i.val.values, i.val.offset)))
CreateField(r) ==
  Edit(r, "field", NewDataset,
       LAMBDA f, i : WithData(f, i.on, Patched(Blank(AllPlanes), i.val.values, i.val.offset)))
WritePlanes(r) ==
  Edit(r, "planes", LAMBDA f, i : i.on \in DOMAIN f.data,
       LAMBDA f, i : WithData(f, i.on, Patched(f.data[i.on], i.val.values, i.val.offset)))

\* Reading the white noise; a missing file or dataset reads as nothing.
ReadNoise(r) ==
  /\ At(r, "read") /\ Pop(r)
  /\ LET i == Head(code[r]) IN
       IF Exists(i.file) /\ i.on \in DOMAIN fs[i.file].data /\ Free(i.file)
         THEN seen' = [seen EXCEPT ![r] = fs[i.file].data[i.on]] /\ UNCHANGED refused
         ELSE refused' = refused \cup {i} /\ UNCHANGED seen
  /\ UNCHANGED <<cfg, fs, held, hdr, dead>>

\* The counts go into the header that the plugin keeps.
NoteCounts(r) ==
  /\ At(r, "note") /\ Pop(r)
  /\ LET i == Head(code[r]) IN
       hdr' = [hdr EXCEPT ![r] = [h \in DOMAIN @ |->
         IF h \in i.val.set
           THEN [@[h] EXCEPT ![i.on] = IF h \in {"npart", "npart64"} THEN i.val.local
                                                                  ELSE i.val.all]
           ELSE @[h]]]
  /\ UNCHANGED <<cfg, fs, held, seen, refused, dead>>

\* A rank that is terminated: its files are closed, no destructor runs.
Terminate(r) ==
  /\ code' = [code EXCEPT ![r] = <<>>]
  /\ held' = [held EXCEPT ![r] = NoFile]
  /\ dead' = dead \cup {r}

\* merge_fastdf_particle_group opens both files or throws.
MergeOpen(r) ==
  /\ At(r, "open")
  /\ LET i == Head(code[r]) IN
       IF Exists(i.on) /\ Exists(i.file) /\ Free(i.file)
         THEN Pop(r) /\ held' = [held EXCEPT ![r] = i.file] /\ UNCHANGED dead
         ELSE Terminate(r)
  /\ UNCHANGED <<cfg, fs, hdr, seen, refused>>

\* It deletes the group, copies that of the temporary file, which may fail,
\* and removes the temporary file.
Merged(i) ==
  LET old == fs[i.file]
      source == fs[i.on].data
      kept == {d \in DOMAIN old.data : d[1] # Group(Neutrino)}
  IN [groups |-> old.groups \cup {Group(Neutrino)}, attr |-> old.attr,
      data |-> [d \in DOMAIN source \cup kept |->
                  IF d \in DOMAIN source THEN source[d] ELSE old.data[d]]]
NotMerged(i) ==
  LET old == fs[i.file] IN
    [old EXCEPT !.groups = @ \ {Group(Neutrino)},
       !.data = [d \in {x \in DOMAIN @ : x[1] # Group(Neutrino)} |-> @[d]]]
AfterMerge(i, content) ==
  fs' = [f \in DOMAIN fs \ {i.on} |-> IF f = i.file THEN content ELSE fs[f]]

MergeCopy(r) ==
  /\ At(r, "copy")
  /\ LET i == Head(code[r]) IN
       IF cfg.fault = r
         THEN AfterMerge(i, NotMerged(i)) /\ Terminate(r)
         ELSE /\ AfterMerge(i, Merged(i)) /\ Pop(r)
              /\ held' = [held EXCEPT ![r] = NoFile] /\ UNCHANGED dead
  /\ UNCHANGED <<cfg, hdr, seen, refused>>

\* An exception that ic_generator::run lets out ends the process, and with
\* it, at any moment, all the others.
ThrowOut(r) ==
  /\ At(r, "throw") /\ Terminate(r)
  /\ UNCHANGED <<cfg, fs, hdr, seen, refused>>
Kill(r) ==
  /\ dead # {} /\ code[r] # <<>> /\ Terminate(r)
  /\ UNCHANGED <<cfg, fs, hdr, seen, refused>>

\* All ranks together, at the same call.
Collective ==
  /\ \A r \in Rank : At(r, "sync") /\ Head(code[r]).on = Head(code[0]).on
  /\ code' = [r \in Rank |-> Tail(code[r])]
  /\ UNCHANGED <<cfg, fs, held, hdr, seen, refused, dead>>

Finished == \A r \in Rank : code[r] = <<>>
Done == Finished /\ UNCHANGED vars

RankStep(r) ==
  \/ Unlink(r) \/ RemoveDirectory(r) \/ MakeDirectory(r) \/ CreateFile(r) \/ PutFile(r)
  \/ AppendRecord(r) \/ Open(r) \/ CreateGroup(r) \/ CreateAttribute(r) \/ CreateDataset(r)
  \/ CreateEmpty(r) \/ WriteChunk(r) \/ CreateField(r) \/ WritePlanes(r)
  \/ ReadNoise(r) \/ NoteCounts(r) \/ MergeOpen(r) \/ MergeCopy(r)
  \/ ThrowOut(r) \/ Kill(r)

Next == Collective \/ Done \/ \E r \in Rank : RankStep(r)
Spec == Init /\ [][Next]_vars

-----------------------------------------------------------------------------
(* Properties.                                                             *)

Success == Finished /\ dead = {}
SnapshotFile == {this_fname(r) : r \in Rank}
InFile(f, s) == {d \in DOMAIN fs[f].data : d[1] = Group(s)}
Lattice == {s \in {DM, Baryon} : s = DM \/ cfg.baryons}
Particles(s) ==
  UNION {{<<s, r, i>> : i \in 0..(get_local_num_particles(r, s) - 1)} : r \in Rank}

\* No HDF5 call fails: no rank opens a file that another one is writing or
\* that is not there, no dataset is created twice or written before it
\* exists or past its end.  (SWIFT's datasets of less than a chunk excepted.)
NothingRefused ==
  (cfg.format = "SWIFT" /\ get_global_num_particles(DM) < ChunkSize) \/ refused = {}

\* The particles of a species that some file holds: every dataset has them
\* in the same order, none is missing and none is there twice.
Holds(s, names) ==
  /\ \A f \in SnapshotFile, d \in names :
       /\ <<Group(s), d>> \in DOMAIN fs[f].data
       /\ \A e \in InFile(f, s) : fs[f].data[e] = fs[f].data[<<Group(s), d>>]
  /\ \A d \in names :
       LET stored(f) == fs[f].data[<<Group(s), d>>] IN
         /\ UNION {{stored(f)[i] : i \in DOMAIN stored(f)} : f \in SnapshotFile} = Particles(s)
         /\ MapThenSumSet(LAMBDA f : Cardinality(DOMAIN stored(f)), SnapshotFile)
              = Cardinality(Particles(s))

\* A run that ends well leaves every particle and every plane of every
\* species in its place, whatever earlier runs left in the files and however
\* the ranks' writes interleave.
SnapshotIsWhole ==
  Success /\ ~(cfg.format = "SWIFT" /\ get_global_num_particles(DM) < ChunkSize) =>
    CASE cfg.format \in ParticleFormats \ {"genericio"} ->
           \A s \in Lattice :
             Holds(s, {"Coordinates", "Velocities", "ParticleIDs"}
                      \cup (IF cfg.baryons THEN {"Masses"} ELSE {}))
      [] cfg.format = "generic" ->
           \A s \in Lattice, c \in {"dx", "vx"} :
             fs[SharedFile].data[<<"", FieldName[s][c]>>] = WholeField
      [] cfg.format = "grafic2" ->
           \A s \in Lattice, c \in {"dx", "vx"} : (s = Baryon /\ c = "dx") \/
             fs[Shared(GraficName[s][c])].data[<<"", "records">>]
               = [i \in 0..AllPlanes |-> <<i - 1>>]
      [] OTHER ->
           LET x == fs[SharedFile].data[<<"", "x">>] IN
             /\ fs[SharedFile].data[<<"", "id">>] = x
             /\ {x[i] : i \in DOMAIN x} = UNION {Particles(s) : s \in Lattice}

\* The header is written last: a file that says how many particles of a
\* species it has holds that many in every dataset, at any moment, also in
\* the remains of a run that was killed.
this_file == <<"Header", "NumPart_ThisFile">>
HeaderMeansComplete ==
  \A f \in SnapshotFile \cap DOMAIN fs : this_file \in DOMAIN fs[f].attr /\ fs[f] # Old =>
    \A s \in Species : fs[f].attr[this_file][s] > 0 /\ refused = {} =>
      /\ InFile(f, s) # {}
      /\ \A d \in InFile(f, s) :
           /\ Size(fs[f], d) = fs[f].attr[this_file][s]
           /\ \A i \in DOMAIN fs[f].data[d] : fs[f].data[d][i] # Unset

\* FastDF reads every plane of the noise of this run, on every rank.
NoiseIsReadWhole == \A r \in Rank : seen[r] \in {Unset, WholeField}

\* Neutrinos that did not reach the snapshot are not passed over: the run
\* ends well only if they are all there.
LostNeutrinosAreReported ==
  Success /\ cfg.neutrinos => Holds(Neutrino, {"Coordinates", "ParticleIDs"})

\* What the comments on the headers say: a header gives the numbers of all
\* the particles in its file.  The code does not do so for the neutrinos of
\* gadget_hdf5.
HeaderTellsContents ==
  Success => \A r \in Rank :
    LET f == this_fname(r) IN f \in DOMAIN fs /\ this_file \in DOMAIN fs[f].attr =>
      \A s \in Species : \A d \in InFile(f, s) :
        fs[f].attr[this_file][s] = Size(fs[f], d)
=============================================================================
