-------------------------- MODULE MCReadAndMirror --------------------------
(* Instances of ReadSide and of MirrorCopy for TLC.  The requests that read *)
(* what scans wrote and the tool that brings the files share no state: a    *)
(* behaviour is one of the one or one of the other.                         *)
EXTENDS ReadSide, MirrorCopy, TLC

CONSTANTS f1, f2, t1

VARIABLE side

TwoFiles == {f1, f2}

Preset(hidden, wanted, limit, target) ==
    [hidden |-> hidden, wanted |-> wanted, limit |-> limit, target |-> target]

(* The second differs from the first in what it filters and in its limit,   *)
(* the third in what it walks; all copy to the same place.                  *)
ThreePresets ==
    {Preset({}, TwoFiles, 1, t1), Preset({}, {f2}, 0, t1), Preset({f1}, TwoFiles, 1, t1)}

(* Threads and paths are interchangeable. *)
ReadSymmetry == Permutations(Threads) \cup Permutations(Paths)

EitherInit ==
    /\ Init /\ MirrorInit
    /\ source = [f \in Files |-> 0]
    /\ \/ side = "read" /\ preset = Preset({}, TwoFiles, 1, t1)
       \/ side = "mirror" /\ kind = "thumb"

EitherNext ==
    \/ side = "read" /\ Next /\ UNCHANGED <<mirrorVars, side>>
    \/ side = "mirror" /\ MirrorNext /\ UNCHANGED <<vars, side>>

EitherSpec == EitherInit /\ [][EitherNext]_<<vars, mirrorVars, side>>

=============================================================================
