-------------------------- MODULE MirrorCopyProofs --------------------------
(***************************************************************************)
(* Proofs about MirrorCopy for every set of files, sizes, presets, targets *)
(* and processes, and without the bound on changes that TLC needs.         *)
(*                                                                         *)
(* MirrorKeepsUp speaks of the time between runs.  The invariant follows   *)
(* the files of the snapshot through a run: until the question a file that *)
(* did not change is as good as it was (step "saved"), after the filters   *)
(* one that is not to be copied is good (step "confirm"), and from then on *)
(* one that is neither waiting nor being copied.  A file that is good      *)
(* stays so, whoever writes, because no change of the source goes unseen:  *)
(* times only grow.                                                        *)
(***************************************************************************)
EXTENDS MirrorCopy, TLAPS

FileMap(fn, T) == DOMAIN fn \subseteq Files /\ \A f \in DOMAIN fn : fn[f] \in T

Seen == [size : Sizes, time : Nat]

(* There is a snapshot of a run.                                            *)
BaseKnown == base # None \/ trust.preset # None

MirrorTypeOK ==
    /\ source \in [Files -> Sizes \cup {None}]
    /\ age \in [Files -> Nat]
    /\ BaseKnown => FileMap(base.files, Seen)
    /\ DOMAIN mirror = Targets
    /\ \A T \in Targets : FileMap(mirror[T], Sizes)
    /\ preset \in Presets
    /\ DOMAIN run = DOMAIN Idle
    /\ run.step \in {"rest", "walked", "saved", "confirm", "copy"}
    /\ FileMap(run.new, Seen)
    /\ run.changed \subseteq Files
    /\ run.full \in BOOLEAN
    /\ run.waiting \subseteq Files /\ run.active \subseteq Files
    /\ loose \subseteq Targets \X Files
    /\ DOMAIN trust = {"preset", "skipped"}
    /\ trust.preset \in Presets \cup {None}

(* No snapshot is ahead of the source.                                      *)
TimesPast(files) == \A f \in DOMAIN files : files[f].time <= age[f]

(* If the file is still as the snapshot files has it, the target of p has   *)
(* it too.                                                                  *)
Good(files, p, f) ==
    f \in Existing /\ files[f] = Metadata(f) /\ files[f].size <= p.limit
        => f \in DOMAIN mirror[p.target] /\ mirror[p.target][f] = files[f].size

GoodBut(files, p, others) ==
    \A f \in (DOMAIN files \cap p.wanted) \ others : Good(files, p, f)

(* Files that are still open at this step of the run.                       *)
Open == IF run.step = "saved" THEN run.changed ELSE run.waiting \cup run.active

Started == run.step \in {"saved", "confirm", "copy"}

SnapshotOK ==
    /\ BaseKnown => TimesPast(base.files)
    /\ run.step # "rest" => TimesPast(run.new)
    /\ Started => base = Snapshot
    /\ run.step # "copy" => run.active = {}

(* The snapshot on disk, while no run has replaced it.                      *)
KeptUp ==
    ~ Started /\ trust.preset # None =>
        GoodBut(base.files, trust.preset, trust.skipped)

(* The snapshot of the run.                                                 *)
RunKeepsUp ==
    Started /\ (run.full \/ trust.preset = preset) =>
        GoodBut(run.new, preset, trust.skipped \cup Open)

MInv == MirrorTypeOK /\ SnapshotOK /\ KeptUp /\ RunKeepsUp

-----------------------------------------------------------------------------
(* Changes of the source and of the target *)

LEMMA PresetTargets ==
    /\ \A p \in Presets : p.target \in Targets /\ p.limit \in Nat
    /\ None \notin Presets
BY MirrorAssumption

LEMMA ChangeKeeps ==
    ASSUME MirrorTypeOK, NEW g \in Files, Change(g),
           NEW files, FileMap(files, Seen), TimesPast(files)
    PROVE  /\ TimesPast(files)'
           /\ \A p \in Presets : \A f \in DOMAIN files : Good(files, p, f) => Good(files, p, f)'
<1>1. /\ \A f \in Files \ {g} : source'[f] = source[f] /\ age'[f] = age[f]
      /\ age'[g] = age[g] + 1 /\ age[g] \in Nat
      /\ mirror' = mirror
  BY DEF Change, MirrorTypeOK
<1>2. \A f \in DOMAIN files : f \in Files /\ files[f].time \in Nat /\ files[f].time <= age[f]
  BY DEF FileMap, Seen, TimesPast
<1>3. TimesPast(files)'
  <2>1. ASSUME NEW f \in DOMAIN files PROVE files[f].time <= age'[f]
    BY <1>1, <1>2
  <2> QED
    BY <2>1 DEF TimesPast
<1>4. ASSUME NEW p \in Presets, NEW f \in DOMAIN files, Good(files, p, f)
      PROVE  Good(files, p, f)'
  <2>1. CASE f = g
    <3>1. files[f].time # age'[f]
      BY <1>1, <1>2, <2>1
    <3>2. files[f] # Metadata(f)'
      BY <3>1 DEF Metadata
    <3> QED
      BY <3>2 DEF Good
  <2>2. CASE f # g
    <3>1. source'[f] = source[f] /\ age'[f] = age[f] /\ f \in Files
      BY <1>1, <1>2, <2>2
    <3> QED
      BY <1>1, <1>4, <3>1 DEF Good, Existing, Metadata
  <2> QED
    BY <2>1, <2>2
<1> QED
  BY <1>3, <1>4

LEMMA DeliverType ==
    ASSUME MirrorTypeOK, NEW T \in Targets, NEW g \in Files, Deliver(T, g)
    PROVE  /\ DOMAIN mirror' = Targets
           /\ \A U \in Targets : FileMap(mirror'[U], Sizes)
           /\ \A U \in Targets : DOMAIN mirror[U] \subseteq DOMAIN mirror'[U]
           /\ \A U \in Targets : \A f \in DOMAIN mirror[U] :
                  <<U, f>> # <<T, g>> => mirror'[U][f] = mirror[U][f]
           /\ g \in Existing => g \in DOMAIN mirror'[T] /\ mirror'[T][g] = source[g]
<1>1. CASE g \notin Existing
  BY <1>1 DEF Deliver, MirrorTypeOK
<1>2. CASE g \in Existing
  <2>1. source[g] \in Sizes
    BY <1>2 DEF Existing, MirrorTypeOK
  <2>2. mirror' = [mirror EXCEPT ![T] = [h \in DOMAIN mirror[T] \cup {g} |->
                                            IF h = g THEN source[g] ELSE mirror[T][h]]]
    BY <1>2 DEF Deliver
  <2>3. DOMAIN mirror' = Targets /\ \A U \in Targets \ {T} : mirror'[U] = mirror[U]
    BY <2>2 DEF MirrorTypeOK
  <2>4. mirror'[T] = [h \in DOMAIN mirror[T] \cup {g} |->
                         IF h = g THEN source[g] ELSE mirror[T][h]]
    BY <2>2 DEF MirrorTypeOK
  <2>5. FileMap(mirror'[T], Sizes)
    BY <2>1, <2>4 DEF FileMap, MirrorTypeOK
  <2> QED
    BY <1>2, <2>3, <2>4, <2>5 DEF MirrorTypeOK
<1> QED
  BY <1>1, <1>2

(* A delivery makes its file good and leaves the others so.                 *)
LEMMA DeliverKeeps ==
    ASSUME MirrorTypeOK, UNCHANGED <<source, age>>, NEW T \in Targets, NEW g \in Files,
           Deliver(T, g), NEW files, NEW p \in Presets, NEW f,
           Good(files, p, f) \/ (f = g /\ T = p.target)
    PROVE  Good(files, p, f)'
<1>1. SUFFICES ASSUME f \in Existing, files[f] = Metadata(f), files[f].size <= p.limit
               PROVE  f \in DOMAIN mirror'[p.target] /\ mirror'[p.target][f] = files[f].size
  BY DEF Good, Existing, Metadata
<1>2. p.target \in Targets
  BY PresetTargets
<1>3. CASE f = g /\ T = p.target
  BY <1>1, <1>2, <1>3, DeliverType DEF Metadata
<1>4. CASE Good(files, p, f) /\ ~ (f = g /\ T = p.target)
  <2>1. f \in DOMAIN mirror[p.target] /\ mirror[p.target][f] = files[f].size
    BY <1>1, <1>4 DEF Good
  <2> QED
    BY <1>2, <1>4, <2>1, DeliverType
<1> QED
  BY <1>3, <1>4

-----------------------------------------------------------------------------
(* Types *)

LEMMA MirrorTypeInit == MirrorInit => MirrorTypeOK
<1> SUFFICES ASSUME MirrorInit PROVE MirrorTypeOK
  OBVIOUS
<1>1. /\ base = None /\ trust = NoTrust /\ run = Idle
      /\ mirror = [T \in Targets |-> [f \in {} |-> 0]]
  BY DEF MirrorInit
<1>2. DOMAIN run.new = {} /\ run.step = "rest" /\ run.changed = {} /\ run.full = FALSE
      /\ run.waiting = {} /\ run.active = {} /\ DOMAIN run = DOMAIN Idle
  BY <1>1 DEF Idle
<1>3. \A T \in Targets : DOMAIN mirror[T] = {}
  BY <1>1
<1>4. trust.preset = None /\ DOMAIN trust = {"preset", "skipped"} /\ ~ BaseKnown
  BY <1>1 DEF NoTrust, BaseKnown
<1>5. DOMAIN mirror = Targets /\ age \in [Files -> Nat]
  BY <1>1 DEF MirrorInit
<1>6. FileMap(run.new, Seen) /\ \A T \in Targets : FileMap(mirror[T], Sizes)
  BY <1>2, <1>3 DEF FileMap
<1>7. loose = {} /\ preset \in Presets /\ source \in [Files -> Sizes \cup {None}]
  BY DEF MirrorInit
<1> HIDE DEF MirrorInit
<1> QED
  BY <1>2, <1>4, <1>5, <1>6, <1>7 DEF MirrorTypeOK

LEMMA TrustTypes ==
    ASSUME MirrorTypeOK, NEW complete \in BOOLEAN
    PROVE  /\ DOMAIN Trusted(complete) = {"preset", "skipped"}
           /\ Trusted(complete).preset \in {preset, None}
           /\ complete /\ (run.full \/ trust.preset = preset) =>
                  /\ Trusted(complete).preset = preset
                  /\ Trusted(complete).skipped = trust.skipped
           /\ ~ (complete /\ (run.full \/ trust.preset = preset)) =>
                  Trusted(complete).preset = None
BY DEF Trusted, NoTrust, MirrorTypeOK

LEMMA IdleFields ==
    /\ Idle.step = "rest" /\ FileMap(Idle.new, Seen) /\ Idle.changed = {} /\ Idle.full = FALSE
    /\ Idle.waiting = {} /\ Idle.active = {}
<1>1. DOMAIN <<>> = {}
  OBVIOUS
<1> QED
  BY <1>1 DEF Idle, FileMap

LEMMA MirrorTypeStep ==
    ASSUME MirrorTypeOK, Started => base = Snapshot, [MirrorNext]_mirrorVars
    PROVE  MirrorTypeOK'
<1> USE DEF MirrorTypeOK
<1>1. ASSUME NEW f \in Files, Change(f) PROVE MirrorTypeOK'
  <2>1. age' \in [Files -> Nat] /\ source' \in [Files -> Sizes \cup {None}]
    BY <1>1 DEF Change
  <2> QED
    BY <1>1, <2>1 DEF Change, BaseKnown
<1>2. CASE ChoosePreset
  BY <1>2 DEF ChoosePreset, BaseKnown
<1>3. CASE Walk
  <2>1. PICK seen \in SUBSET Visible :
          run' = [Idle EXCEPT !.step = "walked", !.new = [f \in seen |-> Metadata(f)]]
    BY <1>3 DEF Walk
  <2>2. \A f \in seen : f \in Files /\ Metadata(f) \in Seen
    BY DEF Visible, Existing, Metadata, Seen
  <2>3. /\ run'.step = "walked" /\ run'.new = [f \in seen |-> Metadata(f)]
        /\ run'.changed = {} /\ run'.full = FALSE /\ run'.waiting = {} /\ run'.active = {}
        /\ DOMAIN run' = DOMAIN Idle
    BY <2>1, IdleFields DEF Idle
  <2>4. FileMap(run'.new, Seen)
    BY <2>2, <2>3 DEF FileMap
  <2> QED
    BY <1>3, <2>3, <2>4 DEF Walk, BaseKnown
<1>4. CASE SaveSnapshot
  <2>1. /\ run'.step = "saved" /\ run'.new = run.new /\ run'.full = ~Usable
        /\ run'.changed \subseteq DOMAIN run.new
        /\ run'.waiting = run.waiting /\ run'.active = run.active
        /\ DOMAIN run' = DOMAIN Idle
    BY <1>4 DEF SaveSnapshot, Idle
  <2>2. base'.files = run.new
    BY <1>4 DEF SaveSnapshot, Snapshot
  <2>3. run'.full \in BOOLEAN
    BY <2>1 DEF Usable
  <2> QED
    BY <1>4, <2>1, <2>2, <2>3 DEF SaveSnapshot, FileMap
<1>5. CASE PlanCopy
  <2>1. /\ run'.step = "confirm" /\ run'.new = run.new /\ run'.full = run.full
        /\ run'.changed = run.changed /\ run'.waiting \subseteq run.changed
        /\ run'.active = run.active /\ DOMAIN run' = DOMAIN Idle
        /\ trust'.preset = trust.preset /\ DOMAIN trust' = DOMAIN trust
    BY <1>5 DEF PlanCopy, Idle
  <2> QED
    BY <1>5, <2>1 DEF PlanCopy, BaseKnown
<1>6. CASE Confirm \/ Decline
  <2>1. run' = Idle \/ run' = [run EXCEPT !.step = "copy"]
    BY <1>6 DEF Confirm, Decline
  <2>2. trust' = trust \/ \E complete \in BOOLEAN : trust' = Trusted(complete)
    BY <1>6 DEF Confirm, Decline
  <2>3. DOMAIN trust' = {"preset", "skipped"} /\ trust'.preset \in Presets \cup {None}
    BY <2>2, TrustTypes
  <2>4. UNCHANGED <<source, age, base, mirror, preset, loose>> /\ Started
    BY <1>6 DEF Confirm, Decline, Started
  <2>5. FileMap(base.files, Seen)
    BY <2>4 DEF Snapshot
  <2>6. /\ run'.step \in {"rest", "copy"} /\ FileMap(run'.new, Seen) /\ run'.changed \subseteq Files
        /\ run'.full \in BOOLEAN /\ run'.waiting \subseteq Files /\ run'.active \subseteq Files
        /\ DOMAIN run' = DOMAIN Idle
    BY <2>1, IdleFields DEF Idle
  <2> QED
    BY <2>3, <2>4, <2>5, <2>6
<1>7. ASSUME NEW f \in Files, StartCopy(f) PROVE MirrorTypeOK'
  <2>1. /\ run'.step = run.step /\ run'.new = run.new /\ run'.full = run.full
        /\ run'.changed = run.changed /\ run'.waiting = run.waiting \ {f}
        /\ run'.active = run.active \cup {f} /\ DOMAIN run' = DOMAIN Idle
    BY <1>7 DEF StartCopy, Idle
  <2> QED
    BY <1>7, <2>1 DEF StartCopy, BaseKnown
<1>8. CASE Interrupt \/ \E f \in Files : CopyEnds(f) \/ CopyFails(f)
  <2>1. run' = Idle \/ \E f \in Files : run' = [run EXCEPT !.active = @ \ {f}]
    BY <1>8 DEF CopyEnds, CopyFails, Interrupt
  <2>2. trust' = trust \/ \E complete \in BOOLEAN : trust' = Trusted(complete)
    BY <1>8 DEF CopyEnds, CopyFails, Interrupt
  <2>3. DOMAIN trust' = {"preset", "skipped"} /\ trust'.preset \in Presets \cup {None}
    BY <2>2, TrustTypes
  <2>4. UNCHANGED <<source, age, base, preset>>
    BY <1>8 DEF CopyEnds, CopyFails, Interrupt
  <2>5. BaseKnown' => FileMap(base.files, Seen)
    <3>1. CASE Started
      BY <3>1 DEF Snapshot
    <3>2. CASE ~ Started
      <4>1. trust' = trust
        BY <1>8, <3>2 DEF CopyEnds, CopyFails, Interrupt, Started
      <4> QED
        BY <2>4, <4>1 DEF BaseKnown
    <3> QED
      BY <3>1, <3>2
  <2>6. /\ run'.step \in {"rest", run.step} /\ FileMap(run'.new, Seen)
        /\ run'.changed \subseteq Files
        /\ run'.full \in BOOLEAN /\ run'.waiting \subseteq Files /\ run'.active \subseteq Files
        /\ DOMAIN run' = DOMAIN Idle
    BY <2>1, IdleFields DEF Idle
  <2>7. loose' \subseteq Targets \X Files
    BY <1>8, PresetTargets DEF CopyEnds, CopyFails, Interrupt
  <2>8. DOMAIN mirror' = Targets /\ \A T \in Targets : FileMap(mirror'[T], Sizes)
    <3>1. UNCHANGED mirror \/ \E f \in Files : Deliver(preset.target, f)
      BY <1>8 DEF CopyEnds, CopyFails, Interrupt
    <3> QED
      BY <3>1, PresetTargets, DeliverType
  <2> QED
    BY <2>3, <2>4, <2>5, <2>6, <2>7, <2>8
<1>9. ASSUME NEW T \in Targets, NEW f \in Files, LooseCopyEnds(T, f) PROVE MirrorTypeOK'
  <2>1. DOMAIN mirror' = Targets /\ \A U \in Targets : FileMap(mirror'[U], Sizes)
    BY <1>9, DeliverType DEF LooseCopyEnds
  <2> QED
    BY <1>9, <2>1 DEF LooseCopyEnds, BaseKnown
<1>10. CASE UNCHANGED mirrorVars
  BY <1>10 DEF mirrorVars, BaseKnown
<1> QED
  BY <1>1, <1>2, <1>3, <1>4, <1>5, <1>6, <1>7, <1>8, <1>9, <1>10 DEF MirrorNext

-----------------------------------------------------------------------------
(* The invariant *)

LEMMA MirrorInvInit == MirrorInit => MInv
<1> SUFFICES ASSUME MirrorInit PROVE MInv
  OBVIOUS
<1>1. /\ ~ BaseKnown /\ trust.preset = None
      /\ run.step = "rest" /\ run.active = {} /\ ~ Started
  BY IdleFields DEF MirrorInit, NoTrust, BaseKnown, Started
<1> QED
  BY <1>1, MirrorTypeInit DEF MInv, SnapshotOK, KeptUp, RunKeepsUp

(* Steps in which the source or a target may change and the run stays.      *)
LEMMA WorldKeeps ==
    ASSUME MInv, MirrorTypeOK', UNCHANGED <<base, preset, run, trust>>,
           \/ \E g \in Files : Change(g)
           \/ \E T \in Targets, g \in Files : LooseCopyEnds(T, g)
    PROVE  MInv'
<1>1. ASSUME NEW files, FileMap(files, Seen), TimesPast(files)
      PROVE  /\ TimesPast(files)'
             /\ \A p \in Presets : \A f \in DOMAIN files :
                    Good(files, p, f) => Good(files, p, f)'
  <2>1. ASSUME NEW g \in Files, Change(g)
        PROVE  /\ TimesPast(files)'
               /\ \A p \in Presets : \A f \in DOMAIN files :
                      Good(files, p, f) => Good(files, p, f)'
    BY <1>1, <2>1, ChangeKeeps DEF MInv
  <2>2. ASSUME NEW T \in Targets, NEW g \in Files, LooseCopyEnds(T, g)
        PROVE  /\ TimesPast(files)'
               /\ \A p \in Presets : \A f \in DOMAIN files :
                      Good(files, p, f) => Good(files, p, f)'
    <3>1. UNCHANGED <<source, age>> /\ (Deliver(T, g) \/ UNCHANGED mirror)
      BY <2>2 DEF LooseCopyEnds
    <3>2. TimesPast(files)'
      BY <1>1, <3>1 DEF TimesPast
    <3>3. CASE Deliver(T, g)
      BY <3>1, <3>2, <3>3, DeliverKeeps DEF MInv
    <3>4. CASE UNCHANGED mirror
      BY <3>1, <3>2, <3>4 DEF Good, Existing, Metadata
    <3> QED
      BY <3>1, <3>3, <3>4
  <2> QED
    BY <2>1, <2>2
<1>2. /\ FileMap(run.new, Seen) /\ preset \in Presets
      /\ trust.preset # None => trust.preset \in Presets
      /\ BaseKnown => FileMap(base.files, Seen) /\ TimesPast(base.files)
      /\ run.step # "rest" => TimesPast(run.new)
  BY DEF MInv, MirrorTypeOK, SnapshotOK
<1>3. SnapshotOK'
  <2>1. BaseKnown' = BaseKnown /\ Started' = Started /\ Snapshot' = Snapshot
    BY DEF BaseKnown, Started, Snapshot
  <2>2. BaseKnown => TimesPast(base.files)'
    BY <1>1, <1>2
  <2>3. run.step # "rest" => TimesPast(run.new)'
    BY <1>1, <1>2
  <2> QED
    BY <2>1, <2>2, <2>3 DEF MInv, SnapshotOK, TimesPast
<1>4. KeptUp'
  <2>1. SUFFICES ASSUME ~ Started, trust.preset # None
                 PROVE  GoodBut(base.files, trust.preset, trust.skipped)'
    BY DEF KeptUp, Started
  <2>2. GoodBut(base.files, trust.preset, trust.skipped)
    BY <2>1 DEF MInv, KeptUp
  <2>3. \A f \in DOMAIN base.files :
          Good(base.files, trust.preset, f) => Good(base.files, trust.preset, f)'
    BY <1>1, <1>2, <2>1 DEF BaseKnown, Good, Existing, Metadata
  <2> QED
    BY <2>2, <2>3 DEF GoodBut
<1>5. RunKeepsUp'
  <2>1. SUFFICES ASSUME Started, run.full \/ trust.preset = preset
                 PROVE  GoodBut(run.new, preset, trust.skipped \cup Open)'
    BY DEF RunKeepsUp, Started
  <2>2. GoodBut(run.new, preset, trust.skipped \cup Open)
    BY <2>1 DEF MInv, RunKeepsUp
  <2>3. \A f \in DOMAIN run.new : Good(run.new, preset, f) => Good(run.new, preset, f)'
    BY <1>1, <1>2, <2>1 DEF Started, Good, Existing, Metadata
  <2>4. Open' = Open
    BY DEF Open
  <2> QED
    BY <2>2, <2>3, <2>4 DEF GoodBut
<1> QED
  BY <1>3, <1>4, <1>5 DEF MInv

(* A run that ends: what it leaves is known only if all of it was copied.   *)
LEMMA RunEnds ==
    ASSUME MInv, UNCHANGED <<source, age, base, preset>>, run' = Idle,
           NEW complete \in BOOLEAN, Started, trust' = Trusted(complete),
           complete /\ (run.full \/ trust.preset = preset) =>
               GoodBut(base.files, preset, trust.skipped)'
    PROVE  SnapshotOK' /\ KeptUp' /\ RunKeepsUp'
<1>1. run'.step = "rest" /\ run'.active = {} /\ ~ Started'
  BY IdleFields DEF Started
<1>2. base.files = run.new /\ TimesPast(run.new)
  BY DEF MInv, SnapshotOK, Started, Snapshot
<1>3. SnapshotOK'
  BY <1>1, <1>2 DEF SnapshotOK, TimesPast
<1>4. KeptUp'
  <2>1. CASE complete /\ (run.full \/ trust.preset = preset)
    <3>1. trust'.preset = preset /\ trust'.skipped = trust.skipped
      BY <2>1, TrustTypes DEF MInv
    <3>2. GoodBut(base.files, preset, trust.skipped)'
      BY <2>1
    <3> QED
      BY <3>1, <3>2 DEF KeptUp, GoodBut, Good
  <2>2. CASE ~ (complete /\ (run.full \/ trust.preset = preset))
    BY <2>2, TrustTypes DEF MInv, KeptUp
  <2> QED
    BY <2>1, <2>2
<1> QED
  BY <1>1, <1>3, <1>4 DEF RunKeepsUp

(* The snapshot is replaced: what did not change is as good as before.      *)
LEMMA SaveKeeps ==
    ASSUME MInv, SaveSnapshot
    PROVE  SnapshotOK' /\ KeptUp' /\ RunKeepsUp'
<1>1. /\ run.step = "walked" /\ base' = [hidden |-> preset.hidden, files |-> run.new]
      /\ UNCHANGED <<source, age, mirror, preset, trust>>
  BY DEF SaveSnapshot, Snapshot
<1>2. /\ run'.step = "saved" /\ run'.new = run.new /\ run'.full = ~Usable
      /\ run'.changed = {f \in DOMAIN run.new : Usable => Differs(f)}
      /\ run'.active = run.active
  BY DEF SaveSnapshot, Idle, MInv, MirrorTypeOK
<1>3. Started' /\ ~ Started /\ Open' = run'.changed
  BY <1>1, <1>2 DEF Started, Open
<1>4. TimesPast(run.new) /\ run.active = {}
  BY <1>1 DEF MInv, SnapshotOK
<1>5. SnapshotOK'
  BY <1>1, <1>2, <1>3, <1>4 DEF SnapshotOK, TimesPast, Snapshot
<1>6. RunKeepsUp'
  <2>1. SUFFICES ASSUME run'.full \/ trust.preset = preset,
                        NEW f \in (DOMAIN run.new \cap preset.wanted) \ (trust.skipped \cup run'.changed)
                 PROVE  Good(run.new, preset, f)
    BY <1>1, <1>2, <1>3 DEF RunKeepsUp, GoodBut, Good, Existing, Metadata
  <2>2. Usable /\ ~ Differs(f)
    BY <1>2, <2>1
  <2>3. f \in DOMAIN base.files /\ base.files[f] = run.new[f]
    BY <2>2 DEF Differs
  <2>4. trust.preset = preset /\ preset # None
    BY <1>2, <2>1, <2>2, PresetTargets DEF MInv, MirrorTypeOK
  <2>5. Good(base.files, preset, f)
    BY <1>3, <2>1, <2>3, <2>4 DEF MInv, KeptUp, GoodBut
  <2> QED
    BY <2>3, <2>5 DEF Good
<1> QED
  BY <1>3, <1>5, <1>6 DEF KeptUp

(* What the filters leave out of the copy is there, unwanted or noted.      *)
LEMMA PlanKeeps ==
    ASSUME MInv, PlanCopy
    PROVE  SnapshotOK' /\ KeptUp' /\ RunKeepsUp'
<1>1. PICK long \in LongSequences :
        /\ run' = [run EXCEPT
                !.step = "confirm",
                !.waiting = {f \in run.changed \ long : Selected(f) /\ ~AtTarget(f)}]
        /\ trust' = [trust EXCEPT !.skipped = (@ \ run.changed) \cup long]
  BY DEF PlanCopy
<1>2. run.step = "saved" /\ UNCHANGED <<source, age, base, mirror, preset>>
  BY DEF PlanCopy
<1>3. /\ run'.step = "confirm" /\ run'.new = run.new /\ run'.full = run.full
      /\ run'.active = run.active
      /\ run'.waiting = {f \in run.changed \ long : Selected(f) /\ ~AtTarget(f)}
      /\ trust'.preset = trust.preset
      /\ trust'.skipped = (trust.skipped \ run.changed) \cup long
  BY <1>1 DEF Idle, MInv, MirrorTypeOK
<1>4. Started' /\ Started /\ Open = run.changed /\ Open' = run'.waiting \cup run'.active
  BY <1>2, <1>3 DEF Started, Open
<1>5. SnapshotOK'
  BY <1>2, <1>3, <1>4 DEF MInv, SnapshotOK, TimesPast, Snapshot, BaseKnown
<1>6. RunKeepsUp'
  <2>1. SUFFICES ASSUME run.full \/ trust.preset = preset,
                        NEW f \in (DOMAIN run.new \cap preset.wanted)
                                     \ (trust'.skipped \cup run'.waiting)
                 PROVE  Good(run.new, preset, f)
    BY <1>2, <1>3, <1>4 DEF RunKeepsUp, GoodBut, Good, Existing, Metadata
  <2>2. CASE f \in run.changed
    <3>1. ~ Selected(f) \/ AtTarget(f)
      BY <1>3, <2>1, <2>2
    <3>2. CASE ~ Selected(f)
      BY <2>1, <3>2 DEF Selected, Good
    <3>3. CASE AtTarget(f)
      BY <3>3 DEF AtTarget, Copied, Good
    <3> QED
      BY <3>1, <3>2, <3>3
  <2>3. CASE f \notin run.changed
    <3>1. f \notin trust.skipped
      BY <1>3, <2>1, <2>3
    <3>2. GoodBut(run.new, preset, trust.skipped \cup run.changed)
      BY <1>4, <2>1 DEF MInv, RunKeepsUp
    <3> QED
      BY <2>1, <2>3, <3>1, <3>2 DEF GoodBut
  <2> QED
    BY <2>2, <2>3
<1> QED
  BY <1>4, <1>5, <1>6 DEF KeptUp

(* The steps of the copy.                                                   *)
LEMMA CopyKeeps ==
    ASSUME MInv, NEW g \in Files, StartCopy(g) \/ CopyEnds(g)
    PROVE  SnapshotOK' /\ KeptUp' /\ RunKeepsUp'
<1>1. /\ run.step = "copy" /\ Started /\ Open = run.waiting \cup run.active
      /\ UNCHANGED <<source, age, base, preset>>
  BY DEF StartCopy, CopyEnds, Started, Open
<1>2. preset \in Presets /\ preset.target \in Targets
  BY PresetTargets DEF MInv, MirrorTypeOK
<1>3. /\ run.full \/ trust.preset = preset =>
             GoodBut(run.new, preset, trust.skipped \cup Open)
      /\ base.files = run.new
  BY <1>1 DEF MInv, RunKeepsUp, SnapshotOK, Snapshot
<1>4. CASE StartCopy(g)
  <2>1. /\ run'.step = "copy" /\ run'.new = run.new /\ run'.full = run.full
        /\ run'.waiting \cup run'.active = run.waiting \cup run.active
        /\ UNCHANGED <<mirror, trust>>
    BY <1>4 DEF StartCopy, Idle, MInv, MirrorTypeOK
  <2>2. Started' /\ Open' = Open
    BY <1>1, <2>1 DEF Started, Open
  <2>3. SnapshotOK'
    BY <1>1, <2>1, <2>2 DEF MInv, SnapshotOK, TimesPast, Snapshot, BaseKnown
  <2> QED
    BY <1>1, <1>3, <2>1, <2>2, <2>3
       DEF KeptUp, RunKeepsUp, GoodBut, Good, Existing, Metadata
<1>5. CASE CopyEnds(g)
  <2>1. g \in run.active /\ Deliver(preset.target, g)
    BY <1>5 DEF CopyEnds
  <2>2. ASSUME NEW f \in DOMAIN run.new, Good(run.new, preset, f) \/ f = g
        PROVE  f \in Existing /\ run.new[f] = Metadata(f) /\ run.new[f].size <= preset.limit
                   => f \in DOMAIN mirror'[preset.target]
                      /\ mirror'[preset.target][f] = run.new[f].size
    <3>1. ASSUME NEW files, NEW p \in Presets, p.target = preset.target,
                 Good(files, p, f) \/ f = g
          PROVE  f \in Existing /\ files[f] = Metadata(f) /\ files[f].size <= p.limit
                     => f \in DOMAIN mirror'[p.target] /\ mirror'[p.target][f] = files[f].size
      <4>1. Good(files, p, f)'
        BY <1>1, <1>2, <2>1, <3>1, DeliverKeeps DEF MInv
      <4> QED
        BY <1>1, <4>1 DEF Good, Existing, Metadata
    <3> QED
      BY <1>2, <2>2, <3>1
  <2>3. CASE run.waiting = {} /\ run.active = {g}
    <3>1. run' = Idle /\ trust' = Trusted(TRUE)
      BY <1>5, <2>3 DEF CopyEnds
    <3>2. run.full \/ trust.preset = preset => GoodBut(base.files, preset, trust.skipped)'
      <4>1. SUFFICES ASSUME run.full \/ trust.preset = preset,
                            NEW f \in (DOMAIN run.new \cap preset.wanted) \ trust.skipped
                     PROVE  Good(run.new, preset, f) \/ f = g
        <5>1. trust'.skipped = trust.skipped \/ ~ (run.full \/ trust.preset = preset)
          BY <3>1, TrustTypes DEF MInv
        <5> QED
          BY <1>1, <1>3, <2>2, <4>1, <5>1 DEF GoodBut, Good, Existing, Metadata
      <4> QED
        BY <1>1, <1>3, <2>3, <4>1 DEF GoodBut
    <3> QED
      BY <1>1, <3>1, <3>2, RunEnds
  <2>4. CASE ~ (run.waiting = {} /\ run.active = {g})
    <3>1. /\ run'.step = "copy" /\ run'.new = run.new /\ run'.full = run.full
          /\ run'.waiting = run.waiting /\ run'.active = run.active \ {g}
          /\ trust' = trust
      BY <1>5, <2>4 DEF CopyEnds, Idle, MInv, MirrorTypeOK
    <3>2. Started' /\ Open' = run.waiting \cup (run.active \ {g})
      BY <1>1, <3>1 DEF Started, Open
    <3>3. SnapshotOK'
      BY <1>1, <3>1, <3>2 DEF MInv, SnapshotOK, TimesPast, Snapshot, BaseKnown
    <3>4. RunKeepsUp'
      <4>1. SUFFICES ASSUME run.full \/ trust.preset = preset,
                            NEW f \in (DOMAIN run.new \cap preset.wanted)
                                         \ (trust.skipped \cup Open')
                     PROVE  Good(run.new, preset, f) \/ f = g
        BY <1>1, <2>2, <3>1, <4>1 DEF RunKeepsUp, GoodBut, Good, Existing, Metadata
      <4> QED
        BY <1>1, <1>3, <3>2, <4>1 DEF GoodBut
    <3> QED
      BY <3>2, <3>3, <3>4 DEF KeptUp
  <2> QED
    BY <2>3, <2>4
<1> QED
  BY <1>4, <1>5

(* The answer to the question.                                              *)
LEMMA AnswerKeeps ==
    ASSUME MInv, Confirm \/ Decline
    PROVE  SnapshotOK' /\ KeptUp' /\ RunKeepsUp'
<1>1. /\ run.step = "confirm" /\ Started /\ Open = run.waiting /\ run.active = {}
      /\ UNCHANGED <<source, age, base, preset, mirror>>
  BY DEF Confirm, Decline, Started, Open, MInv, SnapshotOK
<1>2. base.files = run.new
  BY <1>1 DEF MInv, SnapshotOK, Snapshot
<1>3. CASE Decline \/ (Confirm /\ run.waiting = {})
  <2>0. run' = Idle
    BY <1>3 DEF Confirm, Decline
  <2>1. PICK complete \in BOOLEAN :
          trust' = Trusted(complete) /\ (complete => run.waiting = {})
    <3>1. CASE Confirm /\ run.waiting = {}
      BY <3>1 DEF Confirm
    <3>2. CASE Decline
      BY <3>2 DEF Decline
    <3> QED
      BY <1>3, <3>1, <3>2
  <2>2. complete /\ (run.full \/ trust.preset = preset) =>
            GoodBut(base.files, preset, trust.skipped)'
    <3>1. SUFFICES ASSUME complete, run.full \/ trust.preset = preset
                   PROVE  GoodBut(base.files, preset, trust.skipped)'
      OBVIOUS
    <3>2. trust'.skipped = trust.skipped
      BY <2>1, <3>1, TrustTypes DEF MInv
    <3>3. GoodBut(run.new, preset, trust.skipped)
      BY <1>1, <2>1, <3>1 DEF MInv, RunKeepsUp
    <3> QED
      BY <1>1, <1>2, <3>2, <3>3 DEF GoodBut, Good, Existing, Metadata
  <2> QED
    BY <1>1, <2>0, <2>1, <2>2, RunEnds
<1>4. CASE Confirm /\ run.waiting # {}
  <2>1. /\ run'.step = "copy" /\ run'.new = run.new /\ run'.full = run.full
        /\ run'.waiting = run.waiting /\ run'.active = run.active /\ trust' = trust
    BY <1>4 DEF Confirm, Idle, MInv, MirrorTypeOK
  <2>2. Started' /\ Open' = Open
    BY <1>1, <2>1 DEF Started, Open
  <2>3. SnapshotOK'
    BY <1>1, <2>1, <2>2 DEF MInv, SnapshotOK, TimesPast, Snapshot, BaseKnown
  <2> QED
    BY <1>1, <2>1, <2>2, <2>3
       DEF MInv, KeptUp, RunKeepsUp, GoodBut, Good, Existing, Metadata
<1> QED
  BY <1>3, <1>4

LEMMA BreakKeeps ==
    ASSUME MInv, Interrupt \/ \E f \in Files : CopyFails(f)
    PROVE  SnapshotOK' /\ KeptUp' /\ RunKeepsUp'
<1>1. run' = Idle /\ run.step # "rest" /\ UNCHANGED <<source, age, base, preset, mirror>>
  BY DEF Interrupt, CopyFails
<1>2. CASE Started
  <2>1. trust' = Trusted(FALSE)
    BY <1>2 DEF Interrupt, CopyFails, Started
  <2> QED
    BY <1>1, <1>2, <2>1, RunEnds
<1>3. CASE ~ Started
  <2>1. run.step = "walked"
    BY <1>1, <1>3 DEF Started, MInv, MirrorTypeOK
  <2>2. trust' = trust
    BY <2>1 DEF Interrupt, CopyFails
  <2>3. run'.step = "rest" /\ run'.active = {} /\ ~ Started'
    BY <1>1, IdleFields DEF Started
  <2> QED
    BY <1>1, <1>3, <2>2, <2>3
       DEF MInv, SnapshotOK, KeptUp, RunKeepsUp, TimesPast, GoodBut, Good, Existing, Metadata,
           BaseKnown
<1> QED
  BY <1>2, <1>3

LEMMA WalkKeeps ==
    ASSUME MInv, Walk \/ ChoosePreset
    PROVE  SnapshotOK' /\ KeptUp' /\ RunKeepsUp'
<1>1. /\ run.step = "rest" /\ run.active = {} /\ ~ Started
      /\ UNCHANGED <<source, age, base, mirror, trust>>
  BY DEF Walk, ChoosePreset, Started, MInv, SnapshotOK
<1>2. run'.step \in {"rest", "walked"} /\ run'.active = {} /\ ~ Started'
      /\ (run'.step = "walked" => TimesPast(run.new)')
  <2>1. CASE Walk
    <3>1. PICK seen \in SUBSET Visible :
            run' = [Idle EXCEPT !.step = "walked", !.new = [f \in seen |-> Metadata(f)]]
      BY <2>1 DEF Walk
    <3>2. run'.step = "walked" /\ run'.new = [f \in seen |-> Metadata(f)] /\ run'.active = {}
      BY <3>1 DEF Idle
    <3>3. \A f \in seen : age[f] \in Nat
      BY DEF Visible, Existing, MInv, MirrorTypeOK
    <3> QED
      BY <1>1, <3>2, <3>3 DEF TimesPast, Metadata, Started
  <2>2. CASE ChoosePreset
    BY <1>1, <2>2 DEF ChoosePreset, Started
  <2> QED
    BY <2>1, <2>2
<1> QED
  BY <1>1, <1>2
     DEF MInv, SnapshotOK, KeptUp, RunKeepsUp, TimesPast, GoodBut, Good, Existing, Metadata,
         BaseKnown

LEMMA MirrorInvStep == MInv /\ [MirrorNext]_mirrorVars => MInv'
<1> SUFFICES ASSUME MInv, [MirrorNext]_mirrorVars PROVE MInv'
  OBVIOUS
<1>1. MirrorTypeOK'
  BY MirrorTypeStep DEF MInv, SnapshotOK
<1>2. CASE \/ \E g \in Files : Change(g)
           \/ \E T \in Targets, g \in Files : LooseCopyEnds(T, g)
  BY <1>1, <1>2, WorldKeeps DEF Change, LooseCopyEnds
<1>3. CASE \/ Walk \/ ChoosePreset \/ SaveSnapshot \/ PlanCopy \/ Confirm \/ Decline
           \/ Interrupt \/ \E g \in Files : StartCopy(g) \/ CopyEnds(g) \/ CopyFails(g)
  BY <1>1, <1>3, WalkKeeps, SaveKeeps, PlanKeeps, AnswerKeeps, CopyKeeps, BreakKeeps DEF MInv
<1>4. CASE UNCHANGED mirrorVars
  BY <1>1, <1>4
     DEF mirrorVars, MInv, SnapshotOK, KeptUp, RunKeepsUp, TimesPast, GoodBut, Good, Existing,
         Metadata, BaseKnown, Started, Open, Snapshot
<1> QED
  BY <1>2, <1>3, <1>4 DEF MirrorNext

(* Every reachable state of the mirror tool satisfies the invariant.        *)
THEOREM MirrorInductive == MirrorSpec => []MInv
BY MirrorInvInit, MirrorInvStep, PTL DEF MirrorSpec

(* Runs that were confirmed and went through, of one preset, since one that *)
(* had no snapshot to go by, leave every file that the preset lets through, *)
(* and that is as it was listed, at the target in its size.                 *)
THEOREM MirrorIsKeptUp == MirrorSpec => []MirrorKeepsUp
<1>1. MInv => MirrorKeepsUp
  BY DEF MInv, KeptUp, GoodBut, Good, Started, MirrorKeepsUp
<1> QED
  BY <1>1, MirrorInductive, PTL

=============================================================================
