------------------------ MODULE ResearchMemoryProofs ------------------------
(***************************************************************************)
(* The research memory's records are final and what is read of them stays  *)
(* true, for any number of analyses, reviewers and instruments.  A save    *)
(* merges into what is there and only adds to it; all else rests on that   *)
(* and on the lock of the batch, under which only its holder may complete  *)
(* a record.                                                               *)
(***************************************************************************)
EXTENDS ResearchMemory, TLAPS

LEMMA Constants ==
    /\ Runs \subseteq Nat /\ 0 \notin Runs
    /\ \A r \in Runs : Subject[r] \in Subjects /\ Dates[r] \subseteq Int
    /\ Nobody \notin Reviewers
    /\ MaxTime \in Nat /\ MaxFaults \in Nat /\ Horizon \in Nat
BY MemoryAssumption DEF MemoryAssumption

LEMMA NoneAreTyped ==
    /\ 0 \in Time /\ Time \subseteq Nat
    /\ NoOutcome \in Outcomes /\ NoReflection \in Reflections /\ NoImage \in Images
    /\ NoReview \in Reviews /\ NewRun \in Analyses
    /\ \A time \in Time : NewImage(time) \in Images
<1>1. 0 \in Time /\ Time \subseteq Nat
  BY Constants DEF Time
<1>2. NoOutcome \in Outcomes /\ NoReflection \in Reflections
  BY <1>1 DEF NoOutcome, Outcomes, NoReflection, Reflections
<1>3. NoImage \in Images
  BY <1>1, <1>2 DEF NoImage, Images
<1>4. \A time \in Time : NewImage(time) \in Images
  BY <1>3 DEF NewImage, Images
<1>5. NoReview \in Reviews
  BY <1>2, <1>3 DEF NoReview, Reviews, ReviewPhases
<1>6. NewRun \in Analyses
  BY <1>1 DEF NewRun, NoContext, Analyses, Contexts, RunPhases
<1>7. QED
  BY <1>1, <1>2, <1>3, <1>4, <1>5, <1>6

-----------------------------------------------------------------------------
(* Images and their merging.                                               *)

LEMMA ExtendsItself == \A image : Extends(image, image)
BY DEF Extends

LEMMA ExtendsOn ==
    ASSUME NEW a \in Images, NEW b \in Images, NEW c \in Images,
           Extends(c, b), Extends(b, a)
    PROVE  Extends(c, a)
BY DEF Extends, Images, Outcomes

(* A record that is complete cannot grow.                                  *)
LEMMA CompleteStays ==
    ASSUME NEW old \in Images, NEW new \in Images, Extends(new, old),
           old.saved, old.outcome.status # "none", old.reflection.made
    PROVE  new = old
BY DEF Extends, Images

(* A save that is not refused adds to what was saved, keeps it valid, and  *)
(* leaves the components it brought.                                       *)
LEMMA MergeAdds ==
    ASSUME NEW old \in Images, NEW candidate \in Images, Mergeable(old, candidate)
    PROVE  LET new == Merge(old, candidate)
           IN /\ new \in Images /\ Valid(new) /\ Extends(new, old)
              /\ new.recorded = candidate.recorded
              /\ candidate.outcome.status # "none" => new.outcome = candidate.outcome
              /\ new.reflection.made => (old.saved /\ old.reflection.made) \/ candidate.reflection.made
<1>1. CASE old.saved
  <2>1. /\ Agree(old, candidate) /\ Valid(Union(old, candidate))
        /\ Merge(old, candidate) = Union(old, candidate)
    BY <1>1 DEF Mergeable, Merge
  <2>2. Union(old, candidate) \in Images
    BY DEF Union, Images
  <2>3. /\ Union(old, candidate).saved = old.saved
        /\ Union(old, candidate).recorded = old.recorded
        /\ Union(old, candidate).outcome =
             IF old.outcome.status # "none" THEN old.outcome ELSE candidate.outcome
        /\ Union(old, candidate).reflection =
             IF old.reflection.made THEN old.reflection ELSE candidate.reflection
    BY DEF Union, Images
  <2>4. QED
    BY <1>1, <2>1, <2>2, <2>3 DEF Agree, Extends
<1>2. CASE ~old.saved
  BY <1>2 DEF Mergeable, Merge, Extends
<1>3. QED
  BY <1>1, <1>2 DEF Images

(* The first recording is accepted, and so is its repetition, which then   *)
(* changes nothing.                                                        *)
LEMMA RecordingIsAccepted ==
    ASSUME NEW old \in Images, NEW time \in Time,
           old.saved => Valid(old) /\ time = old.recorded
    PROVE  /\ Mergeable(old, NewImage(time))
           /\ old.saved => Merge(old, NewImage(time)) = old
<1> DEFINE candidate == NewImage(time)
<1>1. /\ candidate.saved /\ candidate.recorded = time
      /\ candidate.outcome = NoOutcome /\ candidate.reflection = NoReflection
  BY DEF NewImage, NoImage
<1>2. NoOutcome.status = "none" /\ ~NoReflection.made
  BY DEF NoOutcome, NoReflection
<1>3. Valid(candidate)
  BY <1>1, <1>2 DEF Valid
<1>4. ASSUME old.saved PROVE Agree(old, candidate) /\ Union(old, candidate) = old
  <2>1. Agree(old, candidate)
    BY <1>1, <1>2, <1>4 DEF Agree
  <2>2. old.outcome.status = "none" => old.outcome = candidate.outcome
    BY <1>1, <1>4 DEF Valid
  <2>3. ~old.reflection.made => old.reflection = candidate.reflection
    BY <1>1, <1>4 DEF Valid
  <2>4. Union(old, candidate) = [old EXCEPT !.outcome = old.outcome, !.reflection = old.reflection]
    BY <2>2, <2>3 DEF Union
  <2>5. QED
    BY <2>1, <2>4 DEF Images
<1>5. QED
  BY <1>3, <1>4 DEF Mergeable, Merge

(* Closing a record that has no outcome is accepted.                       *)
LEMMA ClosingIsAccepted ==
    ASSUME NEW old \in Images, NEW time \in Time, old.saved, Valid(old),
           old.recorded <= time, old.outcome.status = "none"
    PROVE  Mergeable(old, WithOutcome(old, [status |-> "not_evaluable", at |-> time]))
<1> DEFINE closed == [status |-> "not_evaluable", at |-> time]
           candidate == WithOutcome(old, closed)
<1>1. /\ candidate.saved = old.saved /\ candidate.recorded = old.recorded
      /\ candidate.outcome = closed /\ candidate.reflection = old.reflection
  BY DEF WithOutcome, Images
<1>2. ~old.reflection.made /\ old.reflection = NoReflection
  BY DEF Valid
<1>3. Valid(candidate)
  <2>1. closed.status = "not_evaluable" /\ closed.at = time
    OBVIOUS
  <2>2. /\ candidate.saved /\ candidate.recorded <= candidate.outcome.at
        /\ candidate.outcome.status = "not_evaluable"
        /\ ~candidate.reflection.made /\ candidate.reflection = NoReflection
    BY <1>1, <1>2, <2>1
  <2> HIDE DEF candidate
  <2>3. QED
    BY <2>2 DEF Valid
<1>4. Agree(old, candidate)
  BY <1>1 DEF Agree
<1>5. Union(old, candidate) = candidate
  BY <1>1, <1>2 DEF Union, WithOutcome, Images
<1>6. QED
  BY <1>3, <1>4, <1>5 DEF Mergeable
-----------------------------------------------------------------------------
(* What keeps the parts of the invariant.                                  *)

LEMMA Typed ==
    ASSUME TypeOK
    PROVE  /\ now \in Nat
           /\ \A r \in Runs : /\ decision[r] \in Images /\ completion[r] \in Images
                              /\ run[r] \in Analyses
                              /\ \A item \in run[r].context.items :
                                   item.run \in Runs /\ item.image \in Images
           /\ \A p \in Reviewers : review[p] \in Reviews
<1>1. \A r \in Runs : run[r].context \in Contexts
  BY DEF TypeOK, Analyses
<1>2. \A r \in Runs : \A item \in run[r].context.items : item.run \in Runs /\ item.image \in Images
  BY <1>1 DEF Contexts
<1>3. QED
  BY <1>2, NoneAreTyped DEF TypeOK

(* What was frozen stays true while records only grow.                     *)
LEMMA FrozenKept ==
    ASSUME IInv, TypeOK', \A r \in Runs : Extends(decision'[r], decision[r]),
           completion' = completion, \A r \in Runs : run'[r].context = run[r].context
    PROVE  FrozenIsPast' /\ LessonsAreComplete'
<1>1. CompletionIsPast'
  <2> SUFFICES ASSUME NEW r \in Runs, completion[r].saved
               PROVE  Extends(decision'[r], completion[r])
    BY DEF CompletionIsPast
  <2>1. Extends(decision[r], completion[r])
    BY DEF IInv, FrozenIsPast, CompletionIsPast
  <2>2. decision[r] \in Images /\ decision'[r] \in Images /\ completion[r] \in Images
    BY DEF IInv, TypeOK
  <2>3. QED
    BY <2>1, <2>2, ExtendsOn
<1>2. ContextIsPast' /\ LessonsAreComplete'
  <2> SUFFICES ASSUME NEW r \in Runs, NEW item \in run[r].context.items
               PROVE  decision'[item.run] = decision[item.run]
    BY DEF IInv, FrozenIsPast, ContextIsPast, LessonsAreComplete
  <2>1. item.run \in Runs
    BY Typed DEF IInv
  <2>2. decision[item.run] \in Images /\ decision'[item.run] \in Images
    BY <2>1 DEF IInv, TypeOK
  <2>3. /\ decision[item.run].saved /\ decision[item.run].reflection.made
        /\ decision[item.run].outcome.status # "none"
    BY DEF IInv, FrozenIsPast, ContextIsPast, LessonsAreComplete
  <2>4. QED
    BY <2>1, <2>2, <2>3, CompleteStays
<1>3. QED
  BY <1>1, <1>2 DEF FrozenIsPast

(* A review rests on what only grows, unless its run is completed.         *)
LEMMA CurrentKept ==
    ASSUME IInv, TypeOK', \A r \in Runs : Extends(decision'[r], decision[r]),
           NEW p \in Reviewers, review'[p] = review[p],
           review[p].phase \in Reviewed => ~decision'[review[p].target].reflection.made
    PROVE  IsCurrent(review[p])'
<1> DEFINE t == review[p]
<1>1. IsCurrent(t)
  BY DEF IInv, ReviewersAreCurrent
<1>2. CASE t.phase \in Reviewed
  <2>1. t.target \in Runs
    BY <1>1, <1>2 DEF IsCurrent
  <2>2. /\ decision[t.target] \in Images /\ decision'[t.target] \in Images /\ t.image \in Images
        /\ Extends(decision'[t.target], decision[t.target])
    BY <2>1 DEF IInv, TypeOK, Reviews
  <2>3. decision'[t.target].saved
    BY <1>1, <1>2, <2>2 DEF IsCurrent, Extends
  <2>4. t.phase \in {"loaded", "saved"} => Extends(decision'[t.target], t.image)
    BY <1>1, <2>2, ExtendsOn DEF IsCurrent
  <2>5. t.phase \in {"reflected", "rereading"} =>
          decision'[t.target].outcome = decision[t.target].outcome
    BY <1>1, <1>2, <2>2 DEF IsCurrent, Extends
  <2>6. QED
    BY <1>1, <1>2, <2>1, <2>3, <2>4, <2>5 DEF IsCurrent
<1>3. CASE t.phase \notin Reviewed
  BY <1>3 DEF IsCurrent, Reviewed
<1>4. QED
  BY <1>2, <1>3

LEMMA Unsaved ==
    ASSUME IInv, UNCHANGED <<now, decision>>
    PROVE  /\ DecisionsAreValid'
           /\ \A r \in Runs : Extends(decision'[r], decision[r])
           /\ \A p \in Reviewers : review[p].phase \in Reviewed =>
                ~decision'[review[p].target].reflection.made
BY ExtendsItself DEF IInv, DecisionsAreValid, ReviewersAreCurrent, IsCurrent, Valid

(* Locks that others hold are left alone.                                  *)
LEMMA LocksKept ==
    ASSUME IInv, NEW p \in Reviewers, NEW q \in Reviewers, p # q, review'[q] = review[q],
           \A s \in Subjects : batchLock'[s] = batchLock[s] \/ batchLock[s] \in {Nobody, p}
    PROVE  HoldsLock(q, review[q])'
BY Constants DEF IInv, ReviewersAreCurrent, HoldsLock

(* A step of one reviewer that saves nothing.                              *)
LEMMA ReviewMoves ==
    ASSUME IInv, NEW p \in Reviewers, NEW t \in Reviews, review' = [review EXCEPT ![p] = t],
           UNCHANGED <<now, decision, completion, run>>,
           faults' \in Nat, cursor' \in [Subjects -> Nat],
           batchLock' \in [Subjects -> Reviewers \union {Nobody}],
           \A s \in Subjects : batchLock'[s] = batchLock[s] \/ batchLock[s] \in {Nobody, p},
           t.phase # "idle" => t.subject \in Subjects,
           \A r \in t.todo : Subject[r] = t.subject,
           t.phase \notin {"idle", "listed"} => batchLock'[t.subject] = p,
           IsCurrent(t)
    PROVE  IInv'
<1>1. TypeOK'
  BY DEF IInv, TypeOK
<1>2. review'[p] = t /\ \A q \in Reviewers : q # p => review'[q] = review[q]
  BY DEF IInv, TypeOK
<1>3. DecisionsAreValid'
  BY Unsaved
<1>4. ASSUME NEW q \in Reviewers PROVE HoldsLock(q, review[q])' /\ IsCurrent(review[q])'
  <2>1. CASE q = p
    <3>1. HoldsLock(q, review[q])'
      BY <1>2, <2>1 DEF HoldsLock
    <3>2. IsCurrent(review[q])'
      BY <1>2, <2>1 DEF IsCurrent
    <3>3. QED
      BY <3>1, <3>2
  <2>2. CASE q # p
    <3>1. HoldsLock(q, review[q])'
      BY <1>2, <2>2, LocksKept
    <3>2. IsCurrent(review[q])'
      BY <1>1, <1>2, <2>2, Unsaved, CurrentKept
    <3>3. QED
      BY <3>1, <3>2
  <2>3. QED
    BY <2>1, <2>2
<1>5. RunsAreSaved'
  BY DEF IInv, RunsAreSaved
<1>6. FrozenIsPast' /\ LessonsAreComplete'
  BY <1>1, Unsaved, FrozenKept
<1>7. QED
  BY <1>1, <1>3, <1>4, <1>5, <1>6 DEF IInv, ReviewersAreCurrent

(* A step of one analysis that saves nothing.                              *)
LEMMA ReviewsKept ==
    ASSUME IInv, TypeOK', UNCHANGED <<now, decision, batchLock, review>>
    PROVE  DecisionsAreValid' /\ ReviewersAreCurrent'
<1>1. ASSUME NEW p \in Reviewers PROVE HoldsLock(p, review[p])' /\ IsCurrent(review[p])'
  BY DEF IInv, ReviewersAreCurrent, HoldsLock, IsCurrent
<1>2. QED
  BY <1>1, Unsaved DEF ReviewersAreCurrent

-----------------------------------------------------------------------------
(* Saves.                                                                  *)

LEMMA SaveAdds ==
    ASSUME IInv, NEW r \in Runs, NEW candidate \in Images, Mergeable(decision[r], candidate),
           decision' = [decision EXCEPT ![r] = Merge(decision[r], candidate)],
           candidate.recorded <= now, now' = now
    PROVE  /\ decision' \in [Runs -> Images] /\ DecisionsAreValid'
           /\ \A q \in Runs : Extends(decision'[q], decision[q])
           /\ \A q \in Runs : q # r => decision'[q] = decision[q]
           /\ decision'[r] = Merge(decision[r], candidate) /\ decision'[r].saved
           /\ decision'[r].reflection.made =>
                (decision[r].saved /\ decision[r].reflection.made) \/ candidate.reflection.made
           /\ candidate.outcome.status # "none" => decision'[r].outcome = candidate.outcome
<1> DEFINE new == Merge(decision[r], candidate)
<1>1. decision[r] \in Images
  BY DEF IInv, TypeOK
<1>2. /\ new \in Images /\ Valid(new) /\ Extends(new, decision[r])
      /\ new.recorded = candidate.recorded
      /\ candidate.outcome.status # "none" => new.outcome = candidate.outcome
      /\ new.reflection.made =>
           (decision[r].saved /\ decision[r].reflection.made) \/ candidate.reflection.made
  BY <1>1, MergeAdds
<1>3. new.saved
  BY <1>2 DEF Valid
<1> HIDE DEF new
<1>4. decision'[r] = new /\ \A q \in Runs : q # r => decision'[q] = decision[q]
  BY DEF IInv, TypeOK, new
<1>5. decision' \in [Runs -> Images]
  BY <1>2 DEF IInv, TypeOK, new
<1>6. DecisionsAreValid'
  BY <1>2, <1>3, <1>4 DEF IInv, DecisionsAreValid, Valid
<1>7. \A q \in Runs : Extends(decision'[q], decision[q])
  BY <1>2, <1>4, ExtendsItself
<1>8. QED
  BY <1>2, <1>3, <1>4, <1>5, <1>6, <1>7 DEF new

LEMMA RunsKept ==
    ASSUME IInv, TypeOK', \A r \in Runs : Extends(decision'[r], decision[r]), run' = run
    PROVE  RunsAreSaved'
BY Typed DEF IInv, RunsAreSaved, Extends

(* The holder of the lock saves; nobody else reviews that run.             *)
LEMMA ReviewSaves ==
    ASSUME IInv, NEW p \in Reviewers, NEW t \in Reviews, NEW candidate \in Images,
           review[p].phase \in Reviewed,
           Mergeable(decision[review[p].target], candidate),
           decision' = [decision EXCEPT ![review[p].target] =
                          Merge(decision[review[p].target], candidate)],
           review' = [review EXCEPT ![p] = t],
           UNCHANGED <<now, completion, cursor, batchLock, run>>, faults' \in Nat,
           t.phase \in {"batch", "saved"}, t.subject = review[p].subject,
           t.todo \subseteq review[p].todo,
           t.phase = "saved" => /\ t.target = review[p].target /\ ~candidate.reflection.made
                                /\ t.image = decision'[t.target]
    PROVE  IInv'
<1> DEFINE r == review[p].target
<1>1. /\ r \in Runs /\ Subject[r] = review[p].subject /\ decision[r].saved
      /\ ~decision[r].reflection.made
      /\ HoldsLock(p, review[p])
  BY DEF IInv, ReviewersAreCurrent, IsCurrent
<1>2. candidate.recorded <= now
  BY <1>1 DEF IInv, DecisionsAreValid, Mergeable, Agree
<1>3. /\ decision' \in [Runs -> Images] /\ DecisionsAreValid'
      /\ \A q \in Runs : Extends(decision'[q], decision[q])
      /\ \A q \in Runs : q # r => decision'[q] = decision[q]
      /\ decision'[r] = Merge(decision[r], candidate) /\ decision'[r].saved
      /\ decision'[r].reflection.made =>
           (decision[r].saved /\ decision[r].reflection.made) \/ candidate.reflection.made
  <2>1. now' = now
    OBVIOUS
  <2>2. QED
    BY <1>1, <1>2, <2>1, SaveAdds
<1>4. TypeOK'
  BY <1>3 DEF IInv, TypeOK
<1>5. review'[p] = t /\ \A q \in Reviewers : q # p => review'[q] = review[q]
  BY DEF IInv, TypeOK
<1>6. ASSUME NEW q \in Reviewers PROVE HoldsLock(q, review[q])' /\ IsCurrent(review[q])'
  <2>1. CASE q = p
    <3>1. HoldsLock(q, review[q])'
      BY <1>1, <1>5, <2>1 DEF HoldsLock, Reviewed
    <3>2. t.phase = "saved" => ~decision'[t.target].reflection.made
      BY <1>1, <1>3
    <3>3. IsCurrent(review[q])'
      BY <1>1, <1>3, <1>5, <2>1, <3>2, ExtendsItself DEF IsCurrent, Reviewed
    <3>4. QED
      BY <3>1, <3>3
  <2>2. CASE q # p
    <3>1. HoldsLock(q, review[q])'
      BY <1>5, <2>2, LocksKept
    <3>2. ASSUME review[q].phase \in Reviewed
          PROVE  ~decision'[review[q].target].reflection.made
      <4>1. /\ review[q].target \in Runs /\ Subject[review[q].target] = review[q].subject
            /\ ~decision[review[q].target].reflection.made
            /\ batchLock[review[q].subject] = q
        BY <3>2 DEF IInv, ReviewersAreCurrent, IsCurrent, HoldsLock, Reviewed
      <4>2. batchLock[review[p].subject] = p
        BY <1>1 DEF HoldsLock, Reviewed
      <4>3. review[q].target # r
        BY <1>1, <2>2, <4>1, <4>2
      <4>4. QED
        BY <1>3, <4>1, <4>3
    <3>3. IsCurrent(review[q])'
      BY <1>3, <1>4, <1>5, <2>2, <3>2, CurrentKept
    <3>4. QED
      BY <3>1, <3>3
  <2>3. QED
    BY <2>1, <2>2
<1>7. RunsAreSaved'
  BY <1>3, <1>4, RunsKept
<1>8. FrozenIsPast' /\ LessonsAreComplete'
  BY <1>3, <1>4, FrozenKept
<1>9. QED
  BY <1>3, <1>4, <1>6, <1>7, <1>8 DEF IInv, ReviewersAreCurrent

(* An analysis saves what does not complete its record.                    *)
LEMMA RunSaves ==
    ASSUME IInv, NEW r \in Runs, NEW candidate \in Images, NEW phase \in {"closing", "bundling"},
           Mergeable(decision[r], candidate),
           decision' = [decision EXCEPT ![r] = Merge(decision[r], candidate)],
           run' = [run EXCEPT ![r].phase = phase],
           UNCHANGED <<now, completion, cursor, batchLock, review, faults>>,
           candidate.recorded <= now,
           candidate.reflection.made => decision[r].reflection.made
    PROVE  IInv'
<1>1. /\ decision' \in [Runs -> Images] /\ DecisionsAreValid'
      /\ \A q \in Runs : Extends(decision'[q], decision[q])
      /\ \A q \in Runs : q # r => decision'[q] = decision[q]
      /\ decision'[r] = Merge(decision[r], candidate) /\ decision'[r].saved
      /\ decision'[r].reflection.made =>
           (decision[r].saved /\ decision[r].reflection.made) \/ candidate.reflection.made
  <2>1. now' = now
    OBVIOUS
  <2>2. QED
    BY <2>1, SaveAdds
<1>2. /\ run'[r].phase = phase /\ run'[r].context = run[r].context
      /\ \A q \in Runs : q # r => run'[q] = run[q]
      /\ run' \in [Runs -> Analyses]
  BY DEF IInv, TypeOK, Analyses, RunPhases
<1>3. TypeOK'
  BY <1>1, <1>2 DEF IInv, TypeOK
<1>4. ASSUME NEW p \in Reviewers PROVE HoldsLock(p, review[p])' /\ IsCurrent(review[p])'
  <2>1. HoldsLock(p, review[p])'
    BY DEF IInv, ReviewersAreCurrent, HoldsLock
  <2>2. review[p].phase \in Reviewed => ~decision'[review[p].target].reflection.made
    BY <1>1 DEF IInv, ReviewersAreCurrent, IsCurrent
  <2>3. IsCurrent(review[p])'
    BY <1>1, <1>3, <2>2, CurrentKept
  <2>4. QED
    BY <2>1, <2>3
<1>5. RunsAreSaved'
  <2>1. \A q \in Runs : decision[q].saved => decision'[q].saved
    BY <1>1 DEF Extends
  <2>2. \A q \in Runs : decision[q].saved /\ decision[q].outcome.status # "none"
          => decision'[q].outcome = decision[q].outcome
    BY <1>1 DEF Extends
  <2>3. QED
    BY <1>1, <1>2, <2>1, <2>2 DEF IInv, RunsAreSaved
<1>6. FrozenIsPast' /\ LessonsAreComplete'
  BY <1>1, <1>2, <1>3, FrozenKept
<1>7. QED
  BY <1>1, <1>3, <1>4, <1>5, <1>6 DEF IInv, ReviewersAreCurrent
-----------------------------------------------------------------------------
(* Each action keeps the invariant.                                        *)

LEMMA InitHolds == ASSUME Init PROVE IInv
<1>1. TypeOK
  BY NoneAreTyped DEF Init, TypeOK
<1>2. DecisionsAreValid /\ RunsAreSaved /\ LessonsAreComplete /\ FrozenIsPast
  BY DEF Init, DecisionsAreValid, RunsAreSaved, LessonsAreComplete, FrozenIsPast,
         CompletionIsPast, ContextIsPast, NoImage, NewRun, NoContext
<1>3. ReviewersAreCurrent
  BY DEF Init, ReviewersAreCurrent, HoldsLock, IsCurrent, Reviewed, NoReview
<1>4. QED
  BY <1>1, <1>2, <1>3 DEF IInv

LEMMA TickKeeps == ASSUME IInv, Tick PROVE IInv'
<1>1. now' = now + 1 /\ now \in Nat /\ now' \in Time
  BY Constants DEF IInv, TypeOK, Tick, Time
<1>2. TypeOK'
  BY <1>1 DEF IInv, TypeOK, Tick
<1>3. DecisionsAreValid'
  <2>1. \A r \in Runs : decision[r].recorded \in Nat
    BY NoneAreTyped DEF IInv, TypeOK, Images
  <2>2. \A r \in Runs : Valid(decision[r])' <=> Valid(decision[r])
    BY DEF Tick, Valid
  <2>3. QED
    BY <1>1, <2>1, <2>2 DEF IInv, DecisionsAreValid, Tick
<1>4. ReviewersAreCurrent'
  BY DEF IInv, ReviewersAreCurrent, HoldsLock, IsCurrent, Tick
<1>5. RunsAreSaved' /\ LessonsAreComplete' /\ FrozenIsPast'
  BY DEF IInv, RunsAreSaved, LessonsAreComplete, FrozenIsPast, CompletionIsPast, ContextIsPast, Tick
<1>6. QED
  BY <1>2, <1>3, <1>4, <1>5 DEF IInv

LEMMA ListPendingKeeps ==
    ASSUME IInv, NEW p \in Reviewers, NEW s \in Subjects, ListPending(p, s) PROVE IInv'
<1> DEFINE pending == {r \in Runs : Subject[r] = s /\ Pending(decision[r])}
           t == [NoReview EXCEPT !.phase = "listed", !.subject = s, !.todo = pending]
<1>a. pending \subseteq Runs /\ \A r \in pending : Subject[r] = s
  OBVIOUS
<1> HIDE DEF pending
<1>1. /\ t \in Reviews /\ t.phase = "listed" /\ t.subject = s
      /\ \A r \in t.todo : Subject[r] = s
  BY <1>a, NoneAreTyped DEF Reviews, ReviewPhases
<1>2. IsCurrent(t)
  BY <1>1 DEF IsCurrent, Reviewed
<1>3. /\ review' = [review EXCEPT ![p] = t]
      /\ UNCHANGED <<now, decision, completion, cursor, batchLock, run, faults>>
  BY DEF ListPending, pending
<1> HIDE DEF t
<1>4. QED
  BY <1>1, <1>2, <1>3, ReviewMoves DEF IInv, TypeOK

(* Whoever is done with its batch, or gives up, holds nothing.             *)
LEMMA IdleIsCurrent ==
    /\ NoReview \in Reviews /\ NoReview.phase = "idle" /\ NoReview.todo = {}
    /\ IsCurrent(NoReview)
BY NoneAreTyped DEF NoReview, IsCurrent, Reviewed

LEMMA TakeBatchKeeps == ASSUME IInv, NEW p \in Reviewers, TakeBatch(p) PROVE IInv'
<1> DEFINE s == review[p].subject
           batch == Batch(review[p].todo, cursor[s])
           t == [review[p] EXCEPT !.phase = "batch", !.todo = batch, !.from = cursor[s]]
<1>1. /\ review[p] \in Reviews /\ review[p].phase = "listed" /\ s \in Subjects
      /\ \A r \in review[p].todo : Subject[r] = s
      /\ batchLock[s] = Nobody /\ cursor[s] \in Nat
  BY Typed DEF TakeBatch, GroupIsFree, IInv, TypeOK, ReviewersAreCurrent, HoldsLock
<1>2. batch \subseteq review[p].todo
  BY DEF Batch
<1>3. /\ t \in Reviews /\ t.phase = "batch" /\ t.subject = s /\ t.todo = batch
  BY <1>1, <1>2 DEF Reviews, ReviewPhases
<1>4. IsCurrent(t)
  BY <1>3 DEF IsCurrent, Reviewed
<1>5. /\ batchLock' = [batchLock EXCEPT ![s] = p]
      /\ UNCHANGED <<now, decision, completion, run, faults>>
      /\ review' = [review EXCEPT ![p].phase = "batch", ![p].todo = batch, ![p].from = cursor[s]]
  BY DEF TakeBatch
<1>6. review' = [review EXCEPT ![p] = t]
  BY <1>1, <1>5 DEF IInv, TypeOK, Reviews
<1>7. cursor' \in [Subjects -> Nat]
  <2>1. PICK c \in batch : cursor' = [cursor EXCEPT ![s] = c]
    BY DEF TakeBatch
  <2>2. c \in Nat
    BY <1>1, <1>2, Constants DEF Reviews
  <2>3. QED
    BY <2>1, <2>2 DEF IInv, TypeOK
<1>8. /\ batchLock' \in [Subjects -> Reviewers \union {Nobody}] /\ batchLock'[s] = p
      /\ \A q \in Subjects : batchLock'[q] = batchLock[q] \/ batchLock[q] \in {Nobody, p}
      /\ faults' \in Nat
  BY <1>1, <1>5 DEF IInv, TypeOK
<1>9. /\ t.phase # "idle" => t.subject \in Subjects
      /\ \A r \in t.todo : Subject[r] = t.subject
      /\ t.phase \notin {"idle", "listed"} => batchLock'[t.subject] = p
  BY <1>1, <1>2, <1>3, <1>8
<1> HIDE DEF t
<1>10. QED
  BY <1>3, <1>4, <1>5, <1>6, <1>7, <1>8, <1>9, ReviewMoves

LEMMA SkipBatchKeeps == ASSUME IInv, NEW p \in Reviewers, SkipBatch(p) PROVE IInv'
BY IdleIsCurrent, ReviewMoves DEF SkipBatch, IInv, TypeOK

LEMMA EndBatchKeeps == ASSUME IInv, NEW p \in Reviewers, EndBatch(p) PROVE IInv'
<1> DEFINE s == review[p].subject
<1>1. s \in Subjects /\ batchLock[s] = p
  BY DEF EndBatch, IInv, ReviewersAreCurrent, HoldsLock
<1>2. /\ batchLock' = [batchLock EXCEPT ![s] = Nobody]
      /\ review' = [review EXCEPT ![p] = NoReview]
      /\ UNCHANGED <<now, decision, completion, cursor, run, faults>>
  BY DEF EndBatch
<1>3. /\ batchLock' \in [Subjects -> Reviewers \union {Nobody}]
      /\ \A q \in Subjects : batchLock'[q] = batchLock[q] \/ batchLock[q] \in {Nobody, p}
      /\ faults' \in Nat /\ cursor' \in [Subjects -> Nat]
  BY <1>1, <1>2 DEF IInv, TypeOK
<1>4. QED
  BY <1>2, <1>3, IdleIsCurrent, ReviewMoves

LEMMA ReviewerDiesKeeps == ASSUME IInv, NEW p \in Reviewers, ReviewerDies(p) PROVE IInv'
<1>1. /\ batchLock' = [s \in Subjects |-> IF batchLock[s] = p THEN Nobody ELSE batchLock[s]]
      /\ review' = [review EXCEPT ![p] = NoReview]
      /\ UNCHANGED <<now, decision, completion, cursor, run>>
      /\ faults' = faults + 1
  BY DEF ReviewerDies
<1>2. /\ batchLock' \in [Subjects -> Reviewers \union {Nobody}]
      /\ \A q \in Subjects : batchLock'[q] = batchLock[q] \/ batchLock[q] \in {Nobody, p}
      /\ faults' \in Nat /\ cursor' \in [Subjects -> Nat]
  BY <1>1 DEF IInv, TypeOK
<1>3. QED
  BY <1>1, <1>2, IdleIsCurrent, ReviewMoves

(* The reviewer goes on in its batch with `t'.                             *)
LEMMA BatchGoesOn ==
    ASSUME IInv, NEW p \in Reviewers, NEW t \in Reviews, review' = [review EXCEPT ![p] = t],
           UNCHANGED <<now, decision, completion, cursor, batchLock, run>>, faults' \in Nat,
           review[p].phase \notin {"idle", "listed"}, t.phase # "idle",
           t.subject = review[p].subject, t.todo \subseteq review[p].todo, IsCurrent(t)
    PROVE  IInv'
<1>1. /\ HoldsLock(p, review[p])
      /\ cursor' \in [Subjects -> Nat] /\ batchLock' \in [Subjects -> Reviewers \union {Nobody}]
  BY DEF IInv, ReviewersAreCurrent, TypeOK
<1>2. /\ t.subject \in Subjects
      /\ \A r \in t.todo : Subject[r] = t.subject
      /\ batchLock'[t.subject] = p
  BY <1>1 DEF HoldsLock
<1>3. QED
  BY <1>1, <1>2, ReviewMoves

(* ... with the next run.                                                  *)
NextReview(p) ==
    [NoReview EXCEPT !.phase = "batch", !.subject = review[p].subject,
                     !.todo = review[p].todo \ {review[p].target}, !.from = review[p].from]

LEMMA NextReviewIsCurrent ==
    ASSUME IInv, NEW p \in Reviewers
    PROVE  LET t == NextReview(p) IN
           /\ NextOfBatch(p) <=> review' = [review EXCEPT ![p] = t]
           /\ t \in Reviews /\ t.phase = "batch" /\ t.subject = review[p].subject
           /\ t.todo \subseteq review[p].todo /\ IsCurrent(t)
<1> DEFINE t == NextReview(p)
<1>1. /\ review[p] \in Reviews /\ NoReview \in Reviews
  BY Typed, NoneAreTyped DEF IInv
<1>2. /\ t \in Reviews /\ t.phase = "batch" /\ t.subject = review[p].subject
      /\ t.todo \subseteq review[p].todo
  BY <1>1 DEF Reviews, ReviewPhases, NextReview
<1>3. NextOfBatch(p) <=> review' = [review EXCEPT ![p] = t]
  BY DEF NextOfBatch, NextReview
<1> HIDE DEF t
<1>4. IsCurrent(t)
  BY <1>2 DEF IsCurrent, Reviewed
<1>5. QED
  BY <1>2, <1>3, <1>4 DEF t

LEMMA NextOfBatchKeeps ==
    ASSUME IInv, NEW p \in Reviewers, NextOfBatch(p),
           UNCHANGED <<now, decision, completion, cursor, batchLock, run>>, faults' \in Nat,
           review[p].phase \notin {"idle", "listed"}
    PROVE  IInv'
<1>1. NextReview(p) \in Reviews /\ review' = [review EXCEPT ![p] = NextReview(p)]
  BY NextReviewIsCurrent
<1>2. /\ NextReview(p).phase = "batch" /\ NextReview(p).subject = review[p].subject
      /\ NextReview(p).todo \subseteq review[p].todo /\ IsCurrent(NextReview(p))
  BY NextReviewIsCurrent
<1>3. QED
  BY <1>1, <1>2, BatchGoesOn

LEMMA LoadForReviewKeeps ==
    ASSUME IInv, NEW p \in Reviewers, NEW r \in Runs, LoadForReview(p, r) PROVE IInv'
<1>1. /\ review[p] \in Reviews /\ review[p].phase = "batch" /\ r \in review[p].todo
      /\ decision[r] \in Images /\ Subject[r] = review[p].subject
      /\ UNCHANGED <<now, decision, completion, cursor, batchLock, run>> /\ faults' \in Nat
  BY Typed DEF LoadForReview, IInv, ReviewersAreCurrent, HoldsLock, TypeOK
<1>2. CASE StillPending(decision[r])
  <2> DEFINE t == [review[p] EXCEPT !.phase = "loaded", !.target = r, !.image = decision[r]]
  <2>1. review' = [review EXCEPT ![p] = t]
    BY <1>1, <1>2 DEF LoadForReview, IInv, TypeOK, Reviews
  <2>2. /\ t \in Reviews /\ t.phase = "loaded" /\ t.target = r /\ t.image = decision[r]
        /\ t.subject = review[p].subject /\ t.todo = review[p].todo
    BY <1>1 DEF Reviews, ReviewPhases
  <2> HIDE DEF t
  <2>3. IsCurrent(t)
    BY <1>1, <1>2, <2>2, ExtendsItself DEF IsCurrent, Reviewed, StillPending, Pending
  <2>4. QED
    BY <1>1, <2>1, <2>2, <2>3, BatchGoesOn
<1>3. CASE ~StillPending(decision[r])
  <2> DEFINE t == [review[p] EXCEPT !.todo = @ \ {r}]
  <2>1. review' = [review EXCEPT ![p] = t]
    BY <1>1, <1>3 DEF LoadForReview, IInv, TypeOK, Reviews
  <2>2. /\ t \in Reviews /\ t.phase = "batch"
        /\ t.subject = review[p].subject /\ t.todo \subseteq review[p].todo
    BY <1>1 DEF Reviews
  <2> HIDE DEF t
  <2>3. IsCurrent(t)
    BY <2>2 DEF IsCurrent, Reviewed
  <2>4. QED
    BY <1>1, <2>1, <2>2, <2>3, BatchGoesOn
<1>4. QED
  BY <1>2, <1>3

(* What is known of a run under review.                                    *)
LEMMA UnderReview ==
    ASSUME IInv, NEW p \in Reviewers, review[p].phase \in Reviewed
    PROVE  /\ review[p] \in Reviews /\ review[p].target \in Runs
           /\ Subject[review[p].target] = review[p].subject
           /\ decision[review[p].target] \in Images /\ decision[review[p].target].saved
           /\ ~decision[review[p].target].reflection.made
BY Typed DEF IInv, ReviewersAreCurrent, IsCurrent, TypeOK

LEMMA EvaluateKeeps == ASSUME IInv, NEW p \in Reviewers, Evaluate(p) PROVE IInv'
<1>1. /\ review[p].phase = "loaded"
      /\ UNCHANGED <<now, decision, completion, cursor, batchLock, run>> /\ faults' \in Nat
  BY DEF Evaluate, IInv, TypeOK
<1>2. PICK status \in Verdicts(review[p].target, review[p].image, now) :
        IF status = "none" THEN NextOfBatch(p)
        ELSE review' = [review EXCEPT ![p].phase = "observed",
                          ![p].outcome = [status |-> status, at |-> now]]
  BY DEF Evaluate
<1>3. CASE status = "none"
  BY <1>1, <1>2, <1>3, NextOfBatchKeeps
<1>4. CASE status # "none"
  <2> DEFINE t == [review[p] EXCEPT !.phase = "observed", !.outcome = [status |-> status, at |-> now]]
  <2>1. [status |-> status, at |-> now] \in Outcomes
    BY <1>2 DEF Verdicts, Outcomes, IInv, TypeOK
  <2>2. /\ review' = [review EXCEPT ![p] = t] /\ t \in Reviews /\ t.phase = "observed"
        /\ t.target = review[p].target
        /\ t.subject = review[p].subject /\ t.todo = review[p].todo
    BY <1>1, <1>2, <1>4, <2>1, Typed DEF IInv, TypeOK, Reviews, ReviewPhases
  <2> HIDE DEF t
  <2>3. IsCurrent(t)
    BY <1>1, <2>2, UnderReview DEF IsCurrent, Reviewed
  <2>4. QED
    BY <1>1, <2>2, <2>3, BatchGoesOn
<1>5. QED
  BY <1>3, <1>4

LEMMA ReadForOutcomeKeeps == ASSUME IInv, NEW p \in Reviewers, ReadForOutcome(p) PROVE IInv'
<1> DEFINE image == WithOutcome(decision[review[p].target], review[p].outcome)
           t == [review[p] EXCEPT !.phase = "reading", !.image = image]
<1>1. /\ review[p].phase = "observed" /\ review[p].phase \in Reviewed
      /\ UNCHANGED <<now, decision, completion, cursor, batchLock, run>> /\ faults' \in Nat
      /\ review' = [review EXCEPT ![p].phase = "reading", ![p].image = image]
  BY DEF ReadForOutcome, IInv, TypeOK, Reviewed
<1>2. image \in Images /\ ~image.reflection.made
  BY <1>1, UnderReview DEF WithOutcome, Images, Reviews
<1> HIDE DEF image
<1>3. /\ review' = [review EXCEPT ![p] = t] /\ t \in Reviews /\ t.phase = "reading"
      /\ t.target = review[p].target /\ t.image = image
      /\ t.subject = review[p].subject /\ t.todo = review[p].todo
  BY <1>1, <1>2, UnderReview DEF IInv, TypeOK, Reviews, ReviewPhases
<1> HIDE DEF t
<1>4. IsCurrent(t)
  BY <1>1, <1>2, <1>3, UnderReview DEF IsCurrent
<1>5. QED
  BY <1>1, <1>3, <1>4, BatchGoesOn DEF Reviewed

LEMMA SaveOutcomeKeeps == ASSUME IInv, NEW p \in Reviewers, SaveOutcome(p) PROVE IInv'
<1> DEFINE r == review[p].target
           candidate == review[p].image
           new == Merge(decision[r], candidate)
           t == [review[p] EXCEPT !.phase = "saved", !.image = new]
<1>1. /\ review[p].phase = "reading" /\ review[p].phase \in Reviewed
      /\ UNCHANGED <<now, completion, cursor, batchLock, run>> /\ faults' \in Nat
  BY DEF SaveOutcome, IInv, TypeOK, Reviewed
<1>2. candidate \in Images /\ ~candidate.reflection.made
  BY <1>1, UnderReview DEF IInv, ReviewersAreCurrent, IsCurrent, Reviews
<1>3. CASE Mergeable(decision[r], candidate)
  <2>1. /\ decision' = [decision EXCEPT ![r] = new]
        /\ review' = [review EXCEPT ![p].phase = "saved", ![p].image = new]
    BY <1>3 DEF SaveOutcome
  <2>2. new \in Images
    BY <1>1, <1>2, <1>3, UnderReview, MergeAdds
  <2>3. decision'[r] = new
    BY <1>1, <2>1, UnderReview DEF IInv, TypeOK
  <2> HIDE DEF new
  <2>4. /\ review' = [review EXCEPT ![p] = t] /\ t \in Reviews /\ t.phase = "saved"
        /\ t.target = r /\ t.image = new
        /\ t.subject = review[p].subject /\ t.todo = review[p].todo
    BY <1>1, <2>1, <2>2, UnderReview DEF IInv, TypeOK, Reviews, ReviewPhases
  <2> HIDE DEF t
  <2>5. /\ t.phase \in {"batch", "saved"} /\ t.todo \subseteq review[p].todo
        /\ t.target = review[p].target /\ ~candidate.reflection.made
        /\ t.image = decision'[t.target]
    BY <1>2, <2>3, <2>4
  <2>6. decision' = [decision EXCEPT ![r] = Merge(decision[r], candidate)]
    BY <2>1 DEF new
  <2>7. QED
    BY <1>1, <1>2, <1>3, <2>4, <2>5, <2>6, ReviewSaves
<1>4. CASE ~Mergeable(decision[r], candidate)
  BY <1>1, <1>4, NextOfBatchKeeps DEF SaveOutcome
<1>5. QED
  BY <1>3, <1>4

LEMMA ReflectKeeps == ASSUME IInv, NEW p \in Reviewers, Reflect(p) PROVE IInv'
<1> DEFINE image == review[p].image
           reflection == [made |-> TRUE, of |-> image.outcome.at, at |-> now]
           t == [review[p] EXCEPT !.phase = "reflected", !.reflection = reflection]
<1>1. /\ review[p].phase \in {"loaded", "saved"} /\ review[p].phase \in Reviewed
      /\ UNCHANGED <<now, decision, completion, cursor, batchLock, run>> /\ faults' \in Nat
  BY DEF Reflect, ReadyToReflect, IInv, TypeOK, Reviewed
<1>2. CASE image.outcome.status = "available" /\ ~image.reflection.made
  <2>1. review' = [review EXCEPT ![p].phase = "reflected", ![p].reflection = reflection]
    BY <1>2 DEF Reflect
  <2>2. image \in Images /\ now \in Time
    BY <1>1, UnderReview DEF Reviews, IInv, TypeOK
  <2>3. image.outcome \in Outcomes /\ reflection \in Reflections
    BY <2>2 DEF Images, Outcomes, Reflections
  <2>4. /\ review' = [review EXCEPT ![p] = t] /\ t \in Reviews /\ t.phase = "reflected"
        /\ t.target = review[p].target /\ t.reflection.of = image.outcome.at
        /\ t.subject = review[p].subject /\ t.todo = review[p].todo
    BY <1>1, <2>1, <2>3, UnderReview DEF IInv, TypeOK, Reviews, ReviewPhases
  <2>5. decision[review[p].target].outcome = image.outcome
    BY <1>1, <1>2 DEF IInv, ReviewersAreCurrent, IsCurrent, Extends
  <2>6. image.outcome = [status |-> "available", at |-> image.outcome.at]
    BY <1>2, <2>3 DEF Outcomes
  <2> HIDE DEF t
  <2>7. IsCurrent(t)
    BY <1>1, <2>4, <2>5, <2>6, UnderReview DEF IsCurrent
  <2>8. QED
    BY <1>1, <2>4, <2>7, BatchGoesOn DEF Reviewed
<1>3. CASE ~(image.outcome.status = "available" /\ ~image.reflection.made)
  BY <1>1, <1>3, NextOfBatchKeeps DEF Reflect
<1>4. QED
  BY <1>2, <1>3

LEMMA ReflectionFailsKeeps == ASSUME IInv, NEW p \in Reviewers, ReflectionFails(p) PROVE IInv'
BY NextOfBatchKeeps DEF ReflectionFails, ReadyToReflect, IInv, TypeOK

LEMMA ReadForReflectionKeeps ==
    ASSUME IInv, NEW p \in Reviewers, ReadForReflection(p) PROVE IInv'
<1> DEFINE image == WithReflection(decision[review[p].target], review[p].reflection)
           t == [review[p] EXCEPT !.phase = "rereading", !.image = image]
<1>1. /\ review[p].phase = "reflected" /\ review[p].phase \in Reviewed
      /\ UNCHANGED <<now, decision, completion, cursor, batchLock, run>> /\ faults' \in Nat
      /\ review' = [review EXCEPT ![p].phase = "rereading", ![p].image = image]
  BY DEF ReadForReflection, IInv, TypeOK, Reviewed
<1>2. image \in Images
  BY <1>1, UnderReview DEF WithReflection, Images, Reviews
<1> HIDE DEF image
<1>3. /\ review' = [review EXCEPT ![p] = t] /\ t \in Reviews /\ t.phase = "rereading"
      /\ t.target = review[p].target /\ t.reflection = review[p].reflection
      /\ t.subject = review[p].subject /\ t.todo = review[p].todo
  BY <1>1, <1>2, UnderReview DEF IInv, TypeOK, Reviews, ReviewPhases
<1>4. decision[review[p].target].outcome =
        [status |-> "available", at |-> review[p].reflection.of]
  BY <1>1 DEF IInv, ReviewersAreCurrent, IsCurrent
<1> HIDE DEF t
<1>5. IsCurrent(t)
  BY <1>1, <1>3, <1>4, UnderReview DEF IsCurrent
<1>6. QED
  BY <1>1, <1>3, <1>5, BatchGoesOn DEF Reviewed

(* A save that ends the review of its run.                                 *)
LEMMA LastSaveKeeps ==
    ASSUME IInv, NEW p \in Reviewers, review[p].phase \in Reviewed,
           Mergeable(decision[review[p].target], review[p].image),
           decision' = [decision EXCEPT ![review[p].target] =
                          Merge(decision[review[p].target], review[p].image)],
           NextOfBatch(p),
           UNCHANGED <<now, completion, cursor, batchLock, run>>, faults' \in Nat
    PROVE  IInv'
<1>1. /\ NextReview(p) \in Reviews /\ review' = [review EXCEPT ![p] = NextReview(p)]
      /\ NextReview(p).phase = "batch" /\ NextReview(p).subject = review[p].subject
      /\ NextReview(p).todo \subseteq review[p].todo
  BY NextReviewIsCurrent
<1>2. review[p].image \in Images
  BY UnderReview DEF Reviews
<1>3. QED
  BY <1>1, <1>2, ReviewSaves

LEMMA SaveReflectionKeeps == ASSUME IInv, NEW p \in Reviewers, SaveReflection(p) PROVE IInv'
<1>1. /\ review[p].phase = "rereading" /\ review[p].phase \in Reviewed /\ NextOfBatch(p)
      /\ UNCHANGED <<now, completion, cursor, batchLock, run>> /\ faults' \in Nat
  BY DEF SaveReflection, IInv, TypeOK, Reviewed
<1>2. CASE Mergeable(decision[review[p].target], review[p].image)
  BY <1>1, <1>2, LastSaveKeeps DEF SaveReflection
<1>3. CASE ~Mergeable(decision[review[p].target], review[p].image)
  BY <1>1, <1>3, NextOfBatchKeeps DEF SaveReflection
<1>4. QED
  BY <1>2, <1>3

LEMMA SaveFailsLateKeeps == ASSUME IInv, NEW p \in Reviewers, SaveFailsLate(p) PROVE IInv'
<1>1. /\ review[p].phase \in Reviewed /\ NextOfBatch(p)
      /\ UNCHANGED <<now, completion, cursor, batchLock, run>> /\ faults' \in Nat
  BY DEF SaveFailsLate, IInv, TypeOK, Reviewed
<1>2. QED
  BY <1>1, LastSaveKeeps DEF SaveFailsLate
-----------------------------------------------------------------------------
(* Analyses.                                                               *)

(* A step of an analysis that saves nothing and keeps its context, or that *)
(* makes it new.                                                           *)
LEMMA RunMoves ==
    ASSUME IInv, NEW r \in Runs, NEW a \in Analyses, run' = [run EXCEPT ![r] = a],
           UNCHANGED <<now, decision, cursor, batchLock, review>>, faults' \in Nat,
           completion' \in [Runs -> Images],
           \A q \in Runs : completion'[q] = completion[q] \/ completion'[q] = decision[q],
           a.context = run[r].context \/ a.context.items = {},
           a.phase \in {"closing", "bundling", "done", "refused"} => decision[r].saved,
           a.phase = "refused" => decision[r].outcome.status # "none"
    PROVE  IInv'
<1>1. TypeOK'
  BY DEF IInv, TypeOK
<1>2. run'[r] = a /\ \A q \in Runs : q # r => run'[q] = run[q]
  BY DEF IInv, TypeOK
<1>3. DecisionsAreValid' /\ ReviewersAreCurrent'
  BY <1>1, ReviewsKept
<1>4. RunsAreSaved'
  BY <1>2 DEF IInv, RunsAreSaved
<1>5. LessonsAreComplete' /\ ContextIsPast'
  BY <1>2 DEF IInv, LessonsAreComplete, FrozenIsPast, ContextIsPast
<1>6. CompletionIsPast'
  BY ExtendsItself DEF IInv, FrozenIsPast, CompletionIsPast
<1>7. QED
  BY <1>1, <1>3, <1>4, <1>5, <1>6 DEF IInv, FrozenIsPast

(* ... to another phase only.                                              *)
LEMMA RunGoesOn ==
    ASSUME IInv, NEW r \in Runs, NEW phase \in RunPhases,
           run' = [run EXCEPT ![r].phase = phase],
           UNCHANGED <<now, decision, cursor, batchLock, review>>, faults' \in Nat,
           completion' \in [Runs -> Images],
           \A q \in Runs : completion'[q] = completion[q] \/ completion'[q] = decision[q],
           phase \in {"closing", "bundling", "done", "refused"} => decision[r].saved,
           phase = "refused" => decision[r].outcome.status # "none"
    PROVE  IInv'
<1> DEFINE a == [run[r] EXCEPT !.phase = phase]
<1>1. run[r] \in Analyses
  BY Typed DEF IInv
<1>2. a \in Analyses /\ a.phase = phase /\ a.context = run[r].context
  BY <1>1 DEF Analyses
<1>3. run' = [run EXCEPT ![r] = a]
  OBVIOUS
<1> HIDE DEF a
<1>4. QED
  BY <1>2, <1>3, RunMoves

LEMMA StartKeeps == ASSUME IInv, NEW r \in Runs, Start(r) PROVE IInv'
<1>1. PICK day \in Dates[r] :
        run' = [run EXCEPT ![r] =
           [phase |-> "selecting", started |-> now, asOf |-> day,
            context |-> [NoContext EXCEPT !.cutoff = IF now <= day THEN now ELSE day]]]
  BY DEF Start
<1> DEFINE cutoff == IF now <= day THEN now ELSE day
           context == [NoContext EXCEPT !.cutoff = cutoff]
           a == [phase |-> "selecting", started |-> now, asOf |-> day, context |-> context]
<1>2. /\ day \in Int /\ cutoff \in Int /\ now \in Time
      /\ UNCHANGED <<now, decision, completion, cursor, batchLock, review>>
      /\ faults' \in Nat /\ completion' \in [Runs -> Images]
  BY Typed, Constants DEF Start, IInv, TypeOK
<1>3. run' = [run EXCEPT ![r] = a]
  BY <1>1
<1> HIDE DEF cutoff
<1>4. context \in Contexts /\ context.items = {}
  BY <1>2 DEF Contexts, NoContext
<1> HIDE DEF context
<1>5. a \in Analyses /\ a.phase = "selecting" /\ a.context = context
  BY <1>2, <1>4 DEF Analyses, RunPhases
<1> HIDE DEF a
<1>6. QED
  BY <1>2, <1>3, <1>4, <1>5, RunMoves

LEMMA SelectContextKeeps == ASSUME IInv, NEW r \in Runs, SelectContext(r) PROVE IInv'
<1> DEFINE cutoff == run[r].context.cutoff
           items == {[run |-> a, image |-> decision[a]] : a \in Selected(r, cutoff)}
           context == [taken |-> TRUE, cutoff |-> cutoff, items |-> items]
           a == [run[r] EXCEPT !.phase = "researching", !.context = context]
<1>1. /\ run[r] \in Analyses /\ cutoff \in Int
      /\ UNCHANGED <<now, decision, completion, cursor, batchLock, review, faults>>
      /\ run' = [run EXCEPT ![r].phase = "researching", ![r].context = context]
  BY Typed DEF SelectContext, IInv, Analyses, Contexts
<1>2. /\ Selected(r, cutoff) \subseteq Runs
      /\ \A q \in Selected(r, cutoff) :
           /\ decision[q].saved /\ decision[q].reflection.made
           /\ decision[q].outcome.status = "available"
           /\ decision[q].recorded <= cutoff /\ decision[q].outcome.at <= cutoff
           /\ decision[q].reflection.at <= cutoff
  BY DEF Selected, Newest, Eligible
<1>3. \A item \in items :
        /\ item \in [run : Runs, image : Images] /\ item.image = decision[item.run]
        /\ item.image.saved /\ item.image.reflection.made
        /\ item.image.outcome.status # "none"
        /\ item.image.recorded <= cutoff /\ item.image.outcome.at <= cutoff
        /\ item.image.reflection.at <= cutoff
  BY <1>2 DEF IInv, TypeOK
<1> HIDE DEF items
<1>4. /\ run' = [run EXCEPT ![r] = a] /\ a \in Analyses
      /\ a.phase = "researching" /\ a.context.cutoff = cutoff /\ a.context.items = items
  BY <1>1, <1>3 DEF IInv, TypeOK, Analyses, Contexts, RunPhases
<1> HIDE DEF a
<1>5. TypeOK'
  BY <1>1, <1>4 DEF IInv, TypeOK
<1>6. run'[r] = a /\ \A q \in Runs : q # r => run'[q] = run[q]
  BY <1>4 DEF IInv, TypeOK
<1>7. DecisionsAreValid' /\ ReviewersAreCurrent'
  BY <1>1, <1>5, ReviewsKept
<1>8. RunsAreSaved'
  BY <1>1, <1>4, <1>6 DEF IInv, RunsAreSaved
<1>9. LessonsAreComplete' /\ FrozenIsPast'
  <2>1. CompletionIsPast'
    BY <1>1 DEF IInv, FrozenIsPast, CompletionIsPast
  <2>2. ASSUME NEW q \in Runs, NEW item \in run'[q].context.items
        PROVE  /\ item.image.saved /\ item.image.outcome.status # "none"
               /\ item.image.reflection.made
               /\ item.image.recorded <= run'[q].context.cutoff
               /\ item.image.outcome.at <= run'[q].context.cutoff
               /\ item.image.reflection.at <= run'[q].context.cutoff
               /\ decision[item.run] = item.image
    <3>1. CASE q = r
      BY <1>3, <1>4, <1>6, <2>2, <3>1
    <3>2. CASE q # r
      BY <1>6, <2>2, <3>2 DEF IInv, LessonsAreComplete, FrozenIsPast, ContextIsPast
    <3>3. QED
      BY <3>1, <3>2
  <2>3. LessonsAreComplete'
    BY <2>2 DEF LessonsAreComplete
  <2>4. ContextIsPast'
    BY <1>1, <2>2 DEF ContextIsPast
  <2>5. QED
    BY <2>1, <2>3, <2>4 DEF FrozenIsPast
<1>10. QED
  BY <1>5, <1>7, <1>8, <1>9 DEF IInv

(* What a saved record says of itself.                                     *)
LEMMA SavedIsValid ==
    ASSUME IInv, NEW r \in Runs
    PROVE  /\ decision[r] \in Images
           /\ decision[r].saved => Valid(decision[r]) /\ decision[r].recorded <= now
           /\ RecordingTime(r) \in Time /\ RecordingTime(r) <= now
           /\ Mergeable(decision[r], NewImage(RecordingTime(r)))
<1>1. /\ decision[r] \in Images /\ now \in Time
      /\ decision[r].saved => Valid(decision[r]) /\ decision[r].recorded <= now
  BY DEF IInv, TypeOK, DecisionsAreValid
<1>2. RecordingTime(r) \in Time /\ RecordingTime(r) <= now
  BY <1>1, NoneAreTyped DEF RecordingTime, Images
<1>3. Mergeable(decision[r], NewImage(RecordingTime(r)))
  BY <1>1, <1>2, RecordingIsAccepted DEF RecordingTime
<1>4. QED
  BY <1>1, <1>2, <1>3

LEMMA RecordingIsIncomplete ==
    \A time : NewImage(time).recorded = time /\ ~NewImage(time).reflection.made
BY DEF NewImage, NoImage, NoReflection

LEMMA RecordDecisionKeeps == ASSUME IInv, NEW r \in Runs, RecordDecision(r) PROVE IInv'
<1> DEFINE candidate == NewImage(RecordingTime(r))
<1>1. /\ candidate \in Images /\ candidate.recorded = RecordingTime(r)
      /\ ~candidate.reflection.made
  BY SavedIsValid, NoneAreTyped, RecordingIsIncomplete
<1>2. PICK phase \in {"closing", "bundling"} : run' = [run EXCEPT ![r].phase = phase]
  BY SavedIsValid DEF RecordDecision
<1>3. /\ decision' = [decision EXCEPT ![r] = Merge(decision[r], candidate)]
      /\ UNCHANGED <<now, completion, cursor, batchLock, review, faults>>
  BY SavedIsValid DEF RecordDecision
<1>4. Mergeable(decision[r], candidate) /\ candidate.recorded <= now
  BY <1>1, SavedIsValid
<1> HIDE DEF candidate
<1>5. QED
  BY <1>1, <1>2, <1>3, <1>4, RunSaves

LEMMA CloseOwnKeeps == ASSUME IInv, NEW r \in Runs, CloseOwn(r) PROVE IInv'
<1> DEFINE closed == [status |-> "not_evaluable", at |-> now]
           candidate == WithOutcome(decision[r], closed)
<1>1. /\ run[r].phase = "closing"
      /\ UNCHANGED <<now, completion, cursor, batchLock, review, faults>>
      /\ decision[r].saved /\ decision[r] \in Images /\ now \in Time
      /\ faults' \in Nat /\ completion' \in [Runs -> Images]
  BY DEF CloseOwn, IInv, RunsAreSaved, TypeOK
<1>2. CASE Mergeable(decision[r], candidate)
  <2>1. closed \in Outcomes
    BY <1>1 DEF Outcomes
  <2>2. /\ candidate \in Images /\ candidate.recorded = decision[r].recorded
        /\ candidate.reflection = decision[r].reflection
    BY <1>1, <2>1 DEF WithOutcome, Images
  <2>3. /\ decision' = [decision EXCEPT ![r] = Merge(decision[r], candidate)]
        /\ run' = [run EXCEPT ![r].phase = "bundling"]
    BY <1>2 DEF CloseOwn
  <2>4. candidate.recorded <= now
    BY <1>1, <2>2, SavedIsValid
  <2> HIDE DEF candidate
  <2>5. QED
    BY <1>1, <1>2, <2>2, <2>3, <2>4, RunSaves
<1>3. CASE ~Mergeable(decision[r], candidate)
  <2>1. run' = [run EXCEPT ![r].phase = "refused"] /\ UNCHANGED decision
    BY <1>3 DEF CloseOwn
  <2>2. decision[r].outcome.status # "none"
    BY <1>1, <1>3, SavedIsValid, ClosingIsAccepted
  <2>3. QED
    BY <1>1, <2>1, <2>2, RunGoesOn DEF RunPhases
<1>4. QED
  BY <1>2, <1>3

LEMMA FreezeCompletionKeeps == ASSUME IInv, NEW r \in Runs, FreezeCompletion(r) PROVE IInv'
<1>1. /\ run' = [run EXCEPT ![r].phase = "done"]
      /\ UNCHANGED <<now, decision, cursor, batchLock, review>> /\ faults' \in Nat
      /\ decision[r].saved
  BY DEF FreezeCompletion, IInv, TypeOK, RunsAreSaved
<1>2. completion' = completion \/ completion' = [completion EXCEPT ![r] = decision[r]]
  BY DEF FreezeCompletion
<1>3. /\ completion' \in [Runs -> Images]
      /\ \A q \in Runs : completion'[q] = completion[q] \/ completion'[q] = decision[q]
  BY <1>2 DEF IInv, TypeOK
<1>4. QED
  BY <1>1, <1>3, RunGoesOn DEF RunPhases

LEMMA RetryKeeps == ASSUME IInv, NEW r \in Runs, Retry(r) PROVE IInv'
BY RunGoesOn DEF Retry, RunPhases, IInv, TypeOK

LEMMA RunDiesKeeps == ASSUME IInv, NEW r \in Runs, RunDies(r) PROVE IInv'
<1> DEFINE a == IF run[r].context.taken THEN [run[r] EXCEPT !.phase = "researching"] ELSE NewRun
<1>1. /\ run' = [run EXCEPT ![r] = a]
      /\ UNCHANGED <<now, decision, completion, cursor, batchLock, review>> /\ faults' \in Nat
      /\ completion' \in [Runs -> Images]
  BY DEF RunDies, IInv, TypeOK
<1>2. run[r] \in Analyses
  BY Typed DEF IInv
<1>3. /\ a \in Analyses
      /\ \/ a.phase = "researching" /\ a.context = run[r].context
         \/ a.phase = "new" /\ a.context.items = {}
  BY <1>2, NoneAreTyped DEF Analyses, RunPhases, NewRun, NoContext
<1> HIDE DEF a
<1>4. QED
  BY <1>1, <1>3, RunMoves

-----------------------------------------------------------------------------
(* Theorems.                                                               *)

LEMMA NextKeeps == ASSUME IInv, [Next]_vars PROVE IInv'
<1>1. CASE Next
  <2>1. ASSUME NEW p \in Reviewers, ReviewStep(p) PROVE IInv'
    BY <2>1, ListPendingKeeps, TakeBatchKeeps, SkipBatchKeeps, EndBatchKeeps, LoadForReviewKeeps,
       EvaluateKeeps, ReadForOutcomeKeeps, SaveOutcomeKeeps, ReflectKeeps, ReadForReflectionKeeps,
       SaveReflectionKeeps DEF ReviewStep
  <2>2. ASSUME NEW r \in Runs, RunStep(r) PROVE IInv'
    BY <2>2, StartKeeps, SelectContextKeeps, RecordDecisionKeeps, CloseOwnKeeps,
       FreezeCompletionKeeps, RetryKeeps DEF RunStep
  <2>3. CASE Fault
    BY <2>3, ReflectionFailsKeeps, SaveFailsLateKeeps, ReviewerDiesKeeps, RunDiesKeeps DEF Fault
  <2>4. QED
    BY <1>1, <2>1, <2>2, <2>3, TickKeeps DEF Next
<1>2. CASE UNCHANGED vars
  <2>1. TypeOK'
    BY <1>2 DEF vars, IInv, TypeOK
  <2>2. DecisionsAreValid' /\ ReviewersAreCurrent'
    BY <1>2, <2>1, ReviewsKept DEF vars
  <2>3. RunsAreSaved' /\ LessonsAreComplete' /\ FrozenIsPast'
    BY <1>2 DEF vars, IInv, RunsAreSaved, LessonsAreComplete, FrozenIsPast, CompletionIsPast,
                ContextIsPast
  <2>4. QED
    BY <2>1, <2>2, <2>3 DEF IInv
<1>3. QED
  BY <1>1, <1>2

(* The invariant relates the records, the locks, what each reviewer holds  *)
(* and what each analysis was given, in every reachable state.             *)
THEOREM Invariance == Spec => []IInv
<1>1. Init => IInv
  BY InitHolds
<1>2. IInv /\ [Next]_vars => IInv'
  BY NextKeeps
<1>3. QED
  BY <1>1, <1>2, PTL DEF Spec

(* Images, reviews and analyses have their types: a merge never makes what *)
(* could not be saved (merge_decision, review_batch, create_run_state).    *)
THEOREM TypeCorrect == Spec => []TypeOK
<1>1. IInv => TypeOK
  BY DEF IInv
<1>2. QED
  BY <1>1, Invariance, PTL

(* A completion, once frozen, and the lessons an analysis was given are    *)
(* never contradicted by what is saved later (bundle, context_snapshot).   *)
THEOREM FrozenStaysTrue == Spec => []FrozenIsPast
<1>1. IInv => FrozenIsPast
  BY DEF IInv
<1>2. QED
  BY <1>1, Invariance, PTL

(* A model reflects only on the outcome that is saved, and nothing that is *)
(* complete is reviewed, although reviewers read before they lock (_settle, *)
(* settle_pending).                                                        *)
THEOREM ReviewsRestOnSaved == Spec => []ReviewsAreCurrent
<1>1. IInv => ReviewsAreCurrent
  BY DEF IInv, ReviewersAreCurrent, IsCurrent, Reviewed, ReviewsAreCurrent, FactsComeFirst,
         NothingReviewedTwice
<1>2. QED
  BY <1>1, Invariance, PTL

(* An analysis that was refused because a reviewer closed its record first *)
(* is accepted when it is started again (record_final, merge_decision).    *)
THEOREM RefusedMayReturn == Spec => []RefusalsPass
<1>1. IInv => RefusalsPass
  BY SavedIsValid DEF IInv, RunsAreSaved, RefusalsPass
<1>2. QED
  BY <1>1, Invariance, PTL
(* Every step leaves the records alone or merges into one of them.         *)
LEMMA StepsMerge ==
    ASSUME IInv, [Next]_vars
    PROVE  \/ UNCHANGED decision
           \/ \E r \in Runs, candidate \in Images :
                /\ Mergeable(decision[r], candidate)
                /\ decision' = [decision EXCEPT ![r] = Merge(decision[r], candidate)]
<1> DEFINE Merges == \E r \in Runs, candidate \in Images :
                       /\ Mergeable(decision[r], candidate)
                       /\ decision' = [decision EXCEPT ![r] = Merge(decision[r], candidate)]
<1>1. ASSUME NEW p \in Reviewers, review[p].phase \in {"reading", "rereading"},
             Mergeable(decision[review[p].target], review[p].image),
             decision' = [decision EXCEPT ![review[p].target] =
                            Merge(decision[review[p].target], review[p].image)]
      PROVE  Merges
  <2>1. review[p].target \in Runs /\ review[p].image \in Images
    BY <1>1, UnderReview DEF Reviewed, Reviews
  <2>2. QED
    BY <1>1, <2>1
<1>2. ASSUME NEW r \in Runs, RecordDecision(r) PROVE Merges
  <2>1. NewImage(RecordingTime(r)) \in Images
    BY SavedIsValid, NoneAreTyped
  <2>2. QED
    BY <1>2, <2>1, SavedIsValid DEF RecordDecision
<1>3. ASSUME NEW r \in Runs, CloseOwn(r) PROVE Merges \/ UNCHANGED decision
  <2>1. decision[r] \in Images /\ [status |-> "not_evaluable", at |-> now] \in Outcomes
    BY DEF IInv, TypeOK, Outcomes
  <2>2. WithOutcome(decision[r], [status |-> "not_evaluable", at |-> now]) \in Images
    BY <2>1 DEF WithOutcome, Images
  <2>3. QED
    BY <1>3, <2>2 DEF CloseOwn
<1> HIDE DEF Merges
<1>4. ASSUME NEW p \in Reviewers, ReviewStep(p) PROVE Merges \/ UNCHANGED decision
  <2>1. CASE SaveOutcome(p)
    BY <1>1, <2>1 DEF SaveOutcome
  <2>2. CASE SaveReflection(p)
    BY <1>1, <2>2 DEF SaveReflection
  <2>3. ASSUME NEW s \in Subjects, ListPending(p, s) PROVE UNCHANGED decision
    BY <2>3 DEF ListPending
  <2>4. ASSUME NEW r \in Runs, LoadForReview(p, r) PROVE UNCHANGED decision
    BY <2>4 DEF LoadForReview
  <2>5. CASE TakeBatch(p) \/ SkipBatch(p) \/ EndBatch(p)
    BY <2>5 DEF TakeBatch, SkipBatch, EndBatch
  <2>6. CASE Evaluate(p) \/ Reflect(p)
    BY <2>6 DEF Evaluate, Reflect
  <2>7. CASE ReadForOutcome(p) \/ ReadForReflection(p)
    BY <2>7 DEF ReadForOutcome, ReadForReflection
  <2>8. QED
    BY <1>4, <2>1, <2>2, <2>3, <2>4, <2>5, <2>6, <2>7 DEF ReviewStep
<1>5. ASSUME NEW r \in Runs, RunStep(r) PROVE Merges \/ UNCHANGED decision
  BY <1>2, <1>3, <1>5 DEF RunStep, Start, SelectContext, FreezeCompletion, Retry
<1>6. CASE Fault
  <2>1. ASSUME NEW p \in Reviewers, SaveFailsLate(p) PROVE Merges
    BY <1>1, <2>1 DEF SaveFailsLate
  <2>2. ASSUME NEW p \in Reviewers, ReflectionFails(p) \/ ReviewerDies(p) PROVE UNCHANGED decision
    BY <2>2 DEF ReflectionFails, ReviewerDies
  <2>3. ASSUME NEW r \in Runs, RunDies(r) PROVE UNCHANGED decision
    BY <2>3 DEF RunDies
  <2>4. QED
    BY <1>6, <2>1, <2>2, <2>3 DEF Fault, Merges
<1>7. QED
  BY <1>4, <1>5, <1>6 DEF Next, Tick, vars, Merges

LEMMA StepsExtend ==
    ASSUME IInv, [Next]_vars
    PROVE  \A r \in Runs : Extends(decision[r]', decision[r])
<1>1. CASE UNCHANGED decision
  BY <1>1, ExtendsItself
<1>2. ASSUME NEW r \in Runs, NEW candidate \in Images, Mergeable(decision[r], candidate),
             decision' = [decision EXCEPT ![r] = Merge(decision[r], candidate)],
             NEW q \in Runs
      PROVE  Extends(decision[q]', decision[q])
  <2>1. decision[r] \in Images
    BY DEF IInv, TypeOK
  <2>2. Extends(Merge(decision[r], candidate), decision[r])
    BY <1>2, <2>1, MergeAdds
  <2>3. decision'[q] = IF q = r THEN Merge(decision[r], candidate) ELSE decision[q]
    BY <1>2 DEF IInv, TypeOK
  <2>4. QED
    BY <2>2, <2>3, ExtendsItself
<1>3. QED
  BY <1>1, <1>2, StepsMerge

(* No step replaces or removes a saved decision, outcome or reflection,    *)
(* whatever processes, retries and crashes do (merge_decision, _attach).   *)
THEOREM NothingSavedIsLost == Spec => ComponentsAreFinal
<1>1. IInv /\ [Next]_vars => [\A r \in Runs : Extends(decision[r]', decision[r])]_vars
  BY StepsExtend
<1>2. QED
  BY <1>1, Invariance, PTL DEF Spec, ComponentsAreFinal
=============================================================================
