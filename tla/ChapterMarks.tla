----------------------------- MODULE ChapterMarks -----------------------------
(***************************************************************************)
(* Skip segments (cinebox-skip): the ranges of a file that are an intro, a *)
(* recap, credits or a preview, read off the chapter marks of the file and *)
(* filled in from an online provider.  Times are in coarse steps; the      *)
(* wording of a title is kept as what each of its sides names.             *)
(***************************************************************************)
EXTENDS Naturals, Sequences, SequencesExt

SegmentTypes == <<"intro", "recap", "credits", "preview">>
Ty == ToSet(SegmentTypes)

(* A range without an end runs to the end of the file; no file is as long. *)
ToTheEnd == 1000

EndOrDuration(r, duration) == IF r.end = ToTheEnd THEN duration ELSE r.end

Covers(r, at, duration) == r.start <= at /\ at < EndOrDuration(r, duration)

Nowhere == [ty \in Ty |-> <<>>]

FillMissing(own, fallback) ==
    [ty \in Ty |-> IF own[ty] = <<>> THEN fallback[ty] ELSE own[ty]]

-----------------------------------------------------------------------------
(* A title names a segment when one of its sides does; "scene" names none. *)
Classify(title) ==
    LET named == SelectSeq(title, LAMBDA side : side \in Ty)
    IN  IF named = <<>> THEN "scene" ELSE Head(named)

(* The range of the i-th chapter. *)
RangeOf(marks, i) ==
    [start |-> marks[i].start,
     end   |-> IF i < Len(marks) THEN marks[i + 1].start ELSE ToTheEnd]

(* A segment over half the file is a mislabeled chapter. *)
IsPlausible(r, duration) ==
    LET end == EndOrDuration(r, duration)
    IN  duration = 0 \/ (end > r.start /\ end - r.start <= duration \div 2)

(* Consecutive chapters of one kind are one skip. *)
PushMerged(ranges, r) ==
    IF ranges # <<>> /\ Last(ranges).end = r.start
    THEN [ranges EXCEPT ![Len(ranges)].end = r.end]
    ELSE Append(ranges, r)

SegmentsFromChapters(marks, duration) ==
    LET Push(found, i) ==
            LET ty == Classify(marks[i].title)
                r  == RangeOf(marks, i)
            IN  IF ty \in Ty /\ IsPlausible(r, duration)
                THEN [found EXCEPT ![ty] = PushMerged(@, r)]
                ELSE found
    IN  FoldLeft(Push, Nowhere, [i \in DOMAIN marks |-> i])

Holds(ranges, at, duration) == \E i \in DOMAIN ranges : Covers(ranges[i], at, duration)

-----------------------------------------------------------------------------
(* The provider (TheIntroDB).  `cut` is the length of the version its      *)
(* times were taken from, or 0 when it is not known.                       *)
MaxDrift == 1

IsSameCut(cut, duration) ==
    \/ cut = 0
    \/ (IF cut > duration THEN cut - duration ELSE duration - cut) <= MaxDrift

(* An episode is only asked for with both of its numbers. *)
MayAsk(query) == query.kind = "tv" => query.numbered

(* What a query comes to, given what the site would answer. *)
Fetched(query, answer) ==
    IF MayAsk(query) /\ answer.found /\ IsSameCut(answer.cut, query.duration)
    THEN answer.ranges
    ELSE Nowhere

-----------------------------------------------------------------------------
(* The chapters read mark exactly the times of the plausible chapters of   *)
(* each kind, and no two ranges of a kind that touch are apart             *)
(* (segments_from_chapters).                                               *)
MarksAreRead(marks, duration) ==
    LET found == SegmentsFromChapters(marks, duration)
        Plain(ty, at) == \E i \in DOMAIN marks :
            /\ Classify(marks[i].title) = ty
            /\ IsPlausible(RangeOf(marks, i), duration)
            /\ Covers(RangeOf(marks, i), at, duration)
    IN  duration > 0 => \A ty \in Ty :
            /\ \A at \in 0..duration : Holds(found[ty], at, duration) <=> Plain(ty, at)
            /\ \A i \in 1..(Len(found[ty]) - 1) : found[ty][i].end # found[ty][i + 1].start
=============================================================================
