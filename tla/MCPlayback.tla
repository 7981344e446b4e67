------------------------------ MODULE MCPlayback ------------------------------
(***************************************************************************)
(* The player screen (PlayerScreen) with the two things it has beside the  *)
(* playback: the skipping of segments (SkipSegments), over libmpv and over *)
(* the player of Android, and the wait for the server (PreloadWait).  A    *)
(* behaviour is about one of them and the others do not move.              *)
(***************************************************************************)
EXTENDS MCPlayerScreen

CONSTANTS Enabled, MaxSaves, Pieces, Needed, Ahead, Budget, Grace

VARIABLES
    part,      \* what the behaviour is about
    play, skip, table, saves, took, pressed,
    wait, server

segments == <<play, skip, table, saves, took, pressed>>
preload == <<wait, server>>

Episodes == 1..2
EpisodeLength == [f \in Episodes |-> 6]

Mark(start, title) == [start |-> start, title |-> title]

(* No marks; two marks of a kind in a row, one of a title in two languages, *)
(* and credits to the end; half the file, and chapters out of order.        *)
Marked ==
    {<<>>,
     <<Mark(0, <<"intro">>), Mark(1, <<"scene", "intro">>), Mark(2, <<"scene">>), Mark(5, <<"credits">>)>>,
     <<Mark(1, <<"intro">>), Mark(5, <<"scene">>), Mark(5, <<"intro">>)>>}

Timed(from, to) == [start |-> from, end |-> to]

Marks == INSTANCE ChapterMarks

(* Times of this cut, up to the end, and of another cut. *)
Answered ==
    {[found |-> TRUE, cut |-> 6, ranges |->
        [Marks!Nowhere EXCEPT !["intro"] = <<Timed(1, 3)>>, !["credits"] = <<Timed(4, Marks!ToTheEnd)>>]],
     [found |-> TRUE, cut |-> 9, ranges |-> [Marks!Nowhere EXCEPT !["intro"] = <<Timed(2, 4)>>]]}

OnMpv == INSTANCE SkipSegments WITH
    Episode <- Episodes, Length <- EpisodeLength, MarkLists <- Marked, Late <- FALSE,
    Answers <- Answered, asked <- pressed

OnAndroid == INSTANCE SkipSegments WITH
    Episode <- Episodes, Length <- EpisodeLength, MarkLists <- {<<>>}, Late <- TRUE,
    Answers <- Answered, asked <- pressed

Wait == INSTANCE PreloadWait WITH MayShare <- TRUE

ASSUME WaitAssumed == Wait!WaitAssumption

PlaybackInit ==
    /\ part \in {"screen", "mpv", "android", "wait"}
    /\ Init
    /\ part # "screen" => timecode = [f \in File |-> 0]
    /\ OnMpv!SkipInit
    /\ Wait!WaitInit

PlaybackNext ==
    \/ part = "screen" /\ Next /\ UNCHANGED <<part, segments, preload>>
    \/ part = "mpv" /\ OnMpv!SkipNext /\ UNCHANGED <<part, vars, preload>>
    \/ part = "android" /\ OnAndroid!SkipNext /\ UNCHANGED <<part, vars, preload>>
    \/ part = "wait" /\ Wait!WaitNext /\ UNCHANGED <<part, vars, segments>>

PlaybackSpec == PlaybackInit /\ [][PlaybackNext]_<<part, vars, segments, preload>>

(* Late choices, marks and answers, a playhead behind: what is skipped. *)
SkipSafe == OnMpv!SkipSafe

(* Polls, failures and aborts, with other readers: what a wait comes to. *)
WaitSafe == Wait!WaitSafe
=============================================================================
