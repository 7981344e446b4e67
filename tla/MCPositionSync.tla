--------------------------- MODULE MCPositionSync ---------------------------
(* Small instances of PositionSync for TLC. *)
EXTENDS PositionSync

CONSTANTS f1, f2, home, away, t1, t2

MCEpisode == {1, 2}

\* A show's pack: each file names its own episode.
ShowFiles == [f \in File |-> IF f = f1 THEN 1 ELSE 2]

AllTrack == [s \in Server |-> TRUE]

\* The second server has its TrackTimecode off.
HomeTracks == [s \in Server |-> s = home]
=============================================================================
