--------------------------- MODULE ResearchMemory ---------------------------
(***************************************************************************)
(* The research memory of the analysis program (tradingagents/memory and   *)
(* graph/research_memory.py).  Each completed analysis leaves a decision   *)
(* in a directory of its own.  Later analyses of the same instrument       *)
(* review it: they observe an outcome, save it, ask a model to reflect on  *)
(* what was saved, and save the reflection.  Decisions that carry both are *)
(* the context of new analyses.                                            *)
(*                                                                         *)
(* Every analysis is a process of its own and all of them share one        *)
(* directory.  A file is replaced atomically, so a reader needs no lock;   *)
(* a writer holds the lock of the run's directory while it reads, merges   *)
(* and replaces, which is one step here.  What a process does before it    *)
(* takes that lock rests on an older image.                                *)
(*                                                                         *)
(* Reviewers are the analyses that review (settle_pending); Runs are the   *)
(* analyses that complete.  A process that does both is one of each.       *)
(***************************************************************************)
EXTENDS Integers, FiniteSets

CONSTANTS
    Runs,         \* identities of analyses, numbers because identities are ordered
    Reviewers,    \* analyses that review earlier ones
    Subjects,     \* instruments
    Subject,      \* Subject[r]: the instrument of run r
    Dates,        \* Dates[r]: the ends of the days that run r may be about
    Nobody,       \* holds a lock that is free
    BatchLimit,   \* runs per review batch
    ContextLimit, \* decisions of each kind that a context may hold
    Horizon,      \* time from a decision to the end of its holding period
    MaxTime,      \* bound on the clock
    MaxFaults     \* bound on crashes and failing calls

ASSUME MemoryAssumption ==
    /\ Runs \subseteq Nat \ {0} /\ IsFiniteSet(Runs)
    /\ Subject \in [Runs -> Subjects]
    /\ Dates \in [Runs -> SUBSET Int]
    /\ Nobody \notin Reviewers
    /\ BatchLimit \in Nat \ {0} /\ ContextLimit \in Nat
    /\ Horizon \in Nat /\ MaxTime \in Nat /\ MaxFaults \in Nat

VARIABLES
    now,        \* the clock
    decision,   \* decision[r]: the image of decision.json of run r
    completion, \* completion[r]: the image of completion.json of run r
    cursor,     \* cursor[s]: last_run_id of the scheduler of instrument s, 0 if none
    batchLock,  \* batchLock[s]: the reviewer that holds the scheduler's lock
    review,     \* review[p]: what reviewer p is doing
    run,        \* run[r]: what the analysis r is doing
    faults      \* crashes and failures so far

vars == <<now, decision, completion, cursor, batchLock, review, run, faults>>

Time == 0 .. MaxTime

-----------------------------------------------------------------------------
(* The images that are saved.                                              *)

Outcomes == [status : {"none", "available", "not_evaluable"}, at : Time]
NoOutcome == [status |-> "none", at |-> 0]

Reflections == [made : BOOLEAN, of : Time, at : Time]
NoReflection == [made |-> FALSE, of |-> 0, at |-> 0]

Images == [saved : BOOLEAN, recorded : Time, outcome : Outcomes, reflection : Reflections]
NoImage == [saved |-> FALSE, recorded |-> 0, outcome |-> NoOutcome, reflection |-> NoReflection]

NewImage(time) == [NoImage EXCEPT !.saved = TRUE, !.recorded = time]

(* A decision can be evaluated if it was made on the day it is about:      *)
(* nobody knows what was available on an earlier day.                      *)
Evaluable(r) == run[r].asOf >= run[r].started

(* What validate_decision demands of the parts of an image.                *)
Valid(image) ==
    /\ image.saved
    /\ image.outcome.status # "none" => image.outcome.at >= image.recorded
    /\ image.outcome.status = "none" => image.outcome = NoOutcome
    /\ image.reflection.made =>
         /\ image.outcome.status = "available"
         /\ image.reflection.of = image.outcome.at
         /\ image.reflection.at >= image.outcome.at
    /\ ~image.reflection.made => image.reflection = NoReflection

(* Two images of a run agree if no component both of them have differs.    *)
Agree(first, second) ==
    /\ first.recorded = second.recorded
    /\ \/ first.outcome = second.outcome
       \/ first.outcome.status = "none" \/ second.outcome.status = "none"
    /\ \/ first.reflection = second.reflection
       \/ ~first.reflection.made \/ ~second.reflection.made

(* Fault: what was saved before is replaced by what is saved now. *)
UnionNewest(first, second) == second

Union(first, second) ==
    [first EXCEPT
       !.outcome = IF first.outcome.status # "none" THEN first.outcome ELSE second.outcome,
       !.reflection = IF first.reflection.made THEN first.reflection ELSE second.reflection]

(* A save is refused if it contradicts what is saved.                      *)
Mergeable(saved, candidate) ==
    /\ Valid(candidate)
    /\ saved.saved => Agree(saved, candidate) /\ Valid(Union(saved, candidate))

Merge(saved, candidate) == IF saved.saved THEN Union(saved, candidate) ELSE candidate

WithOutcome(image, outcome) == [image EXCEPT !.outcome = outcome]
WithReflection(image, reflection) == [image EXCEPT !.reflection = reflection]

(* Pending: reviewed by settle_pending if its instrument is analysed again. *)
Pending(image) ==
    /\ image.saved
    /\ ~image.reflection.made
    /\ image.outcome.status \in {"none", "available"}

-----------------------------------------------------------------------------
(* Reviewers.                                                              *)

NoReview == [phase |-> "idle", subject |-> CHOOSE s \in Subjects : TRUE, todo |-> {},
             from |-> 0, target |-> 0, image |-> NoImage, outcome |-> NoOutcome,
             reflection |-> NoReflection]

(* In the circular order that starts after `last', a comes before b.       *)
Before(last, a, b) ==
    \/ a > last /\ b <= last
    \/ (a > last <=> b > last) /\ a < b

(* Fault: every batch starts at the smallest identity. *)
BatchFromStart(ids, last) ==
    {a \in ids : Cardinality({b \in ids : b < a}) < BatchLimit}

(* The next runs to review: at most BatchLimit, in circular order.         *)
Batch(ids, last) ==
    {a \in ids : Cardinality({b \in ids : Before(last, b, a)}) < BatchLimit}

IsLast(batch, last, c) == c \in batch /\ \A b \in batch : b = c \/ Before(last, b, c)

(* settle_pending lists the decisions it may review, and is done if there  *)
(* are none.  What it lists is old by the time it holds the lock.          *)
ListPending(p, s) ==
    LET pending == {r \in Runs : Subject[r] = s /\ Pending(decision[r])}
    IN /\ review[p].phase = "idle"
       /\ pending # {}
       /\ review' = [review EXCEPT ![p] =
            [NoReview EXCEPT !.phase = "listed", !.subject = s, !.todo = pending]]
       /\ UNCHANGED <<now, decision, completion, cursor, batchLock, run, faults>>

GroupIsFree(s) == batchLock[s] = Nobody

(* The lock of the group is tried once.  Its holder moves the cursor past  *)
(* the batch before it reviews anything.                                   *)
TakeBatch(p) ==
    LET s == review[p].subject
        batch == Batch(review[p].todo, cursor[s])
    IN /\ review[p].phase = "listed"
       /\ GroupIsFree(s)
       /\ \E c \in batch :
            /\ IsLast(batch, cursor[s], c)
            /\ cursor' = [cursor EXCEPT ![s] = c]
       /\ batchLock' = [batchLock EXCEPT ![s] = p]
       /\ review' = [review EXCEPT ![p].phase = "batch", ![p].todo = batch, ![p].from = cursor[s]]
       /\ UNCHANGED <<now, decision, completion, run, faults>>

SkipBatch(p) ==
    /\ review[p].phase = "listed"
    /\ ~GroupIsFree(review[p].subject)
    /\ review' = [review EXCEPT ![p] = NoReview]
    /\ UNCHANGED <<now, decision, completion, cursor, batchLock, run, faults>>

(* What follows a run of the batch, whether its review succeeded or not.   *)
NextOfBatch(p) ==
    review' = [review EXCEPT ![p] = [NoReview EXCEPT
                 !.phase = "batch", !.subject = review[p].subject,
                 !.todo = review[p].todo \ {review[p].target}, !.from = review[p].from]]

(* Fault: the record is not checked again under the lock. *)
StillPendingUnchecked(image) == image.saved

StillPending(image) == Pending(image)

(* Each record is loaded again under the lock and reviewed if it is still  *)
(* pending.                                                                *)
LoadForReview(p, r) ==
    /\ review[p].phase = "batch"
    /\ r \in review[p].todo
    /\ \A q \in review[p].todo : q = r \/ Before(review[p].from, r, q)
    /\ IF StillPending(decision[r])
       THEN review' = [review EXCEPT ![p].phase = "loaded", ![p].target = r,
                                     ![p].image = decision[r]]
       ELSE review' = [review EXCEPT ![p].todo = @ \ {r}]
    /\ UNCHANGED <<now, decision, completion, cursor, batchLock, run, faults>>

EndBatch(p) ==
    /\ review[p].phase = "batch"
    /\ review[p].todo = {}
    /\ batchLock' = [batchLock EXCEPT ![review[p].subject] = Nobody]
    /\ review' = [review EXCEPT ![p] = NoReview]
    /\ UNCHANGED <<now, decision, completion, cursor, run, faults>>

(* What evaluate_decision may answer at `time'.  "none" is pending: the    *)
(* window is not complete, or the provider has no answer.                  *)
Verdicts(r, image, time) ==
    IF ~Evaluable(r) THEN {"not_evaluable"}
    ELSE IF time < image.recorded + Horizon THEN {"none"}
    ELSE {"none", "available", "not_evaluable"}

Evaluate(p) ==
    LET t == review[p]
    IN /\ t.phase = "loaded"
       /\ t.image.outcome.status = "none"
       /\ \E status \in Verdicts(t.target, t.image, now) :
            IF status = "none" THEN NextOfBatch(p)
            ELSE review' = [review EXCEPT ![p].phase = "observed",
                              ![p].outcome = [status |-> status, at |-> now]]
       /\ UNCHANGED <<now, decision, completion, cursor, batchLock, run, faults>>

(* _attach loads the current image without the lock ...                    *)
ReadForOutcome(p) ==
    /\ review[p].phase = "observed"
    /\ review' = [review EXCEPT ![p].phase = "reading",
                    ![p].image = WithOutcome(decision[review[p].target], review[p].outcome)]
    /\ UNCHANGED <<now, decision, completion, cursor, batchLock, run, faults>>

(* ... and record_decision merges the candidate under the lock, or refuses *)
(* it, which defers the review of this run.                                *)
SaveOutcome(p) ==
    LET r == review[p].target
        candidate == review[p].image
    IN /\ review[p].phase = "reading"
       /\ IF Mergeable(decision[r], candidate)
          THEN /\ decision' = [decision EXCEPT ![r] = Merge(decision[r], candidate)]
               /\ review' = [review EXCEPT ![p].phase = "saved",
                                           ![p].image = Merge(decision[r], candidate)]
          ELSE NextOfBatch(p) /\ UNCHANGED decision
       /\ UNCHANGED <<now, completion, cursor, batchLock, run, faults>>

(* The image on which the model reflects: what the save returned, or what  *)
(* was loaded if an outcome was saved before.                              *)
ReadyToReflect(p) ==
    \/ review[p].phase = "saved"
    \/ review[p].phase = "loaded" /\ review[p].image.outcome.status # "none"

Reflect(p) ==
    LET image == review[p].image
    IN /\ ReadyToReflect(p)
       /\ IF image.outcome.status = "available" /\ ~image.reflection.made
          THEN review' = [review EXCEPT ![p].phase = "reflected",
                 ![p].reflection = [made |-> TRUE, of |-> image.outcome.at, at |-> now]]
          ELSE NextOfBatch(p)
       /\ UNCHANGED <<now, decision, completion, cursor, batchLock, run, faults>>

(* The model does not answer, or answers nothing that can be used.         *)
ReflectionFails(p) ==
    /\ ReadyToReflect(p)
    /\ faults < MaxFaults
    /\ faults' = faults + 1
    /\ NextOfBatch(p)
    /\ UNCHANGED <<now, decision, completion, cursor, batchLock, run>>

ReadForReflection(p) ==
    /\ review[p].phase = "reflected"
    /\ review' = [review EXCEPT ![p].phase = "rereading",
                    ![p].image = WithReflection(decision[review[p].target], review[p].reflection)]
    /\ UNCHANGED <<now, decision, completion, cursor, batchLock, run, faults>>

SaveReflection(p) ==
    LET r == review[p].target
        candidate == review[p].image
    IN /\ review[p].phase = "rereading"
       /\ decision' = IF Mergeable(decision[r], candidate)
                      THEN [decision EXCEPT ![r] = Merge(decision[r], candidate)]
                      ELSE decision
       /\ NextOfBatch(p)
       /\ UNCHANGED <<now, completion, cursor, batchLock, run, faults>>

(* The save replaced the file and then failed: the review of this run is   *)
(* deferred although the component is durable.                             *)
SaveFailsLate(p) ==
    LET r == review[p].target
        candidate == review[p].image
    IN /\ review[p].phase \in {"reading", "rereading"}
       /\ faults < MaxFaults
       /\ faults' = faults + 1
       /\ Mergeable(decision[r], candidate)
       /\ decision' = [decision EXCEPT ![r] = Merge(decision[r], candidate)]
       /\ NextOfBatch(p)
       /\ UNCHANGED <<now, completion, cursor, batchLock, run>>

(* The process dies.  The operating system gives its locks back; what was  *)
(* saved stays, the cursor included.                                       *)
ReviewerDies(p) ==
    /\ review[p].phase # "idle"
    /\ faults < MaxFaults
    /\ faults' = faults + 1
    /\ batchLock' = [s \in Subjects |-> IF batchLock[s] = p THEN Nobody ELSE batchLock[s]]
    /\ review' = [review EXCEPT ![p] = NoReview]
    /\ UNCHANGED <<now, decision, completion, cursor, run>>

-----------------------------------------------------------------------------
(* Analyses.                                                               *)

NoContext == [taken |-> FALSE, cutoff |-> 0, items |-> {}]

NewRun == [phase |-> "new", started |-> 0, asOf |-> 0, context |-> NoContext]

(* Newest first: by reflection, then by recording, then by identity.       *)
Newer(a, b) ==
    LET x == decision[a] y == decision[b]
    IN \/ x.reflection.at > y.reflection.at
       \/ /\ x.reflection.at = y.reflection.at
          /\ \/ x.recorded > y.recorded
             \/ x.recorded = y.recorded /\ a > b

(* Fault: the cutoff is compared with the recording only. *)
EligibleByRecording(cutoff) ==
    {r \in Runs : /\ decision[r].saved /\ decision[r].reflection.made
                  /\ decision[r].outcome.status = "available"
                  /\ decision[r].recorded <= cutoff}

(* Complete decisions all parts of which were there at the cutoff.         *)
Eligible(cutoff) ==
    {r \in Runs : /\ decision[r].saved
                  /\ decision[r].reflection.made
                  /\ decision[r].outcome.status = "available"
                  /\ decision[r].recorded <= cutoff
                  /\ decision[r].outcome.at <= cutoff
                  /\ decision[r].reflection.at <= cutoff}

Newest(candidates) ==
    {a \in candidates : Cardinality({b \in candidates : Newer(b, a)}) < ContextLimit}

Selected(r, cutoff) ==
    LET eligible == Eligible(cutoff)
        same == {a \in eligible : Subject[a] = Subject[r]}
    IN Newest(same) \union Newest(eligible \ same)

Start(r) ==
    /\ run[r].phase = "new"
    /\ \E day \in Dates[r] :
         run' = [run EXCEPT ![r] =
           [phase |-> "selecting", started |-> now, asOf |-> day,
            context |-> [NoContext EXCEPT !.cutoff = IF now <= day THEN now ELSE day]]]
    /\ UNCHANGED <<now, decision, completion, cursor, batchLock, review, faults>>

(* The cutoff is read first and the decisions after it.  The context is    *)
(* frozen into the state that checkpoints keep.                            *)
SelectContext(r) ==
    LET cutoff == run[r].context.cutoff
    IN /\ run[r].phase = "selecting"
       /\ run' = [run EXCEPT ![r].phase = "researching",
                    ![r].context = [taken |-> TRUE, cutoff |-> cutoff,
                       items |-> {[run |-> a, image |-> decision[a]] : a \in Selected(r, cutoff)}]]
       /\ UNCHANGED <<now, decision, completion, cursor, batchLock, review, faults>>

(* Fault: a retry records its own time. *)
RecordingTimeNow(r) == now

(* A retry keeps the time of the first recording.                          *)
RecordingTime(r) == IF decision[r].saved THEN decision[r].recorded ELSE now

(* record_final: the decision is saved, and at once its outcome too if it  *)
(* can never be evaluated; then the completion is frozen.                  *)
RecordDecision(r) ==
    LET candidate == NewImage(RecordingTime(r))
    IN /\ run[r].phase = "researching"
       /\ IF Mergeable(decision[r], candidate)
          THEN /\ decision' = [decision EXCEPT ![r] = Merge(decision[r], candidate)]
               /\ run' = [run EXCEPT ![r].phase =
                    IF decision[r].outcome.status = "none" /\ ~Evaluable(r)
                    THEN "closing" ELSE "bundling"]
          ELSE run' = [run EXCEPT ![r].phase = "refused"] /\ UNCHANGED decision
       /\ UNCHANGED <<now, completion, cursor, batchLock, review, faults>>

CloseOwn(r) ==
    LET candidate == WithOutcome(decision[r], [status |-> "not_evaluable", at |-> now])
    IN /\ run[r].phase = "closing"
       /\ IF Mergeable(decision[r], candidate)
          THEN /\ decision' = [decision EXCEPT ![r] = Merge(decision[r], candidate)]
               /\ run' = [run EXCEPT ![r].phase = "bundling"]
          ELSE run' = [run EXCEPT ![r].phase = "refused"] /\ UNCHANGED decision
       /\ UNCHANGED <<now, completion, cursor, batchLock, review, faults>>

(* The completion is written once: a retry gets the first one back.        *)
KeepsCompletion(r) == completion[r].saved

FreezeCompletion(r) ==
    /\ run[r].phase = "bundling"
    /\ completion' = IF KeepsCompletion(r) THEN completion
                     ELSE [completion EXCEPT ![r] = decision[r]]
    /\ run' = [run EXCEPT ![r].phase = "done"]
    /\ UNCHANGED <<now, decision, cursor, batchLock, review, faults>>

(* The process dies, or a call of the file system fails, also after the    *)
(* completion was written and before the checkpoint is cleared.  Before    *)
(* the context was frozen nothing of the run exists; after it the analysis *)
(* is resumed from its checkpoint.                                         *)
RunDies(r) ==
    /\ run[r].phase \in {"selecting", "researching", "closing", "bundling", "done"}
    /\ faults < MaxFaults
    /\ faults' = faults + 1
    /\ run' = [run EXCEPT ![r] =
         IF run[r].context.taken THEN [run[r] EXCEPT !.phase = "researching"]
         ELSE NewRun]
    /\ UNCHANGED <<now, decision, completion, cursor, batchLock, review>>

(* A refused analysis is started again by its user and resumes.            *)
Retry(r) ==
    /\ run[r].phase = "refused"
    /\ run' = [run EXCEPT ![r].phase = "researching"]
    /\ UNCHANGED <<now, decision, completion, cursor, batchLock, review, faults>>

-----------------------------------------------------------------------------
Tick ==
    /\ now < MaxTime
    /\ now' = now + 1
    /\ UNCHANGED <<decision, completion, cursor, batchLock, review, run, faults>>

Init ==
    /\ now = 0
    /\ decision = [r \in Runs |-> NoImage]
    /\ completion = [r \in Runs |-> NoImage]
    /\ cursor = [s \in Subjects |-> 0]
    /\ batchLock = [s \in Subjects |-> Nobody]
    /\ review = [p \in Reviewers |-> NoReview]
    /\ run = [r \in Runs |-> NewRun]
    /\ faults = 0

ReviewStep(p) ==
    \/ \E s \in Subjects : ListPending(p, s)
    \/ TakeBatch(p) \/ SkipBatch(p) \/ EndBatch(p)
    \/ \E r \in Runs : LoadForReview(p, r)
    \/ Evaluate(p) \/ ReadForOutcome(p) \/ SaveOutcome(p)
    \/ Reflect(p) \/ ReadForReflection(p) \/ SaveReflection(p)

RunStep(r) ==
    \/ Start(r) \/ SelectContext(r) \/ RecordDecision(r)
    \/ CloseOwn(r) \/ FreezeCompletion(r) \/ Retry(r)

Fault ==
    \/ \E p \in Reviewers : ReflectionFails(p) \/ SaveFailsLate(p) \/ ReviewerDies(p)
    \/ \E r \in Runs : RunDies(r)

Next ==
    \/ Tick
    \/ \E p \in Reviewers : ReviewStep(p)
    \/ \E r \in Runs : RunStep(r)
    \/ Fault

Spec == Init /\ [][Next]_vars

(* Analyses of an instrument keep coming and each of them runs on; time    *)
(* passes.                                                                 *)
FairSpec ==
    /\ Spec
    /\ WF_vars(Tick)
    /\ \A r \in Runs : WF_vars(RunStep(r))
    /\ \A p \in Reviewers :
         /\ \A s \in Subjects : SF_vars(ListPending(p, s))
         /\ WF_vars(TakeBatch(p)) /\ WF_vars(SkipBatch(p)) /\ WF_vars(EndBatch(p))
         /\ WF_vars(\E r \in Runs : LoadForReview(p, r))
         /\ WF_vars(Evaluate(p)) /\ WF_vars(ReadForOutcome(p)) /\ WF_vars(SaveOutcome(p))
         /\ WF_vars(Reflect(p)) /\ WF_vars(ReadForReflection(p)) /\ WF_vars(SaveReflection(p))

-----------------------------------------------------------------------------
(* Properties.                                                             *)

Extends(new, old) ==
    old.saved => /\ new.saved /\ new.recorded = old.recorded
                 /\ old.outcome.status # "none" => new.outcome = old.outcome
                 /\ old.reflection.made => new.reflection = old.reflection

(* "No completed component can be replaced or removed" (merge_decision):   *)
(* whatever processes, retries and crashes do, a saved decision, outcome   *)
(* or reflection stays.                                                    *)
ComponentsAreFinal == [][\A r \in Runs : Extends(decision[r]', decision[r])]_vars

(* The frozen completion of a run, made once, is a past state of the run's *)
(* record: whatever retries and reviewers do later only adds to what it    *)
(* froze (bundle, _check_completion_retry).                                *)
CompletionIsPast ==
    \A r \in Runs : completion[r].saved => Extends(decision[r], completion[r])

(* No analysis is given a lesson from after its cutoff, and every lesson   *)
(* it was given is still what the memory says (context_snapshot).          *)
ContextIsPast ==
    \A r \in Runs : \A item \in run[r].context.items :
        /\ item.image.recorded <= run[r].context.cutoff
        /\ item.image.outcome.at <= run[r].context.cutoff
        /\ item.image.reflection.at <= run[r].context.cutoff
        /\ decision[item.run] = item.image

(* What was frozen of the memory, in a completion or in a context, is past *)
(* and stays true: nothing that is done later contradicts it (bundle,      *)
(* context_snapshot).                                                      *)
FrozenIsPast == CompletionIsPast /\ ContextIsPast

(* "Facts are durable before the model sees them" (_settle): a model is    *)
(* asked about an outcome, and a reflection saved, only if exactly that    *)
(* outcome is the saved one.                                               *)
FactsComeFirst ==
    \A p \in Reviewers : review[p].phase \in {"reflected", "rereading"} =>
        decision[review[p].target].outcome =
            [status |-> "available", at |-> review[p].reflection.of]

(* Under the lock nothing is reviewed that is already complete: the second *)
(* look finds what another batch did since the list was made.              *)
NothingReviewedTwice ==
    \A p \in Reviewers : review[p].phase \in {"loaded", "saved", "reflected"} =>
        ~decision[review[p].target].reflection.made

(* What a reviewer does under the lock of its batch rests on what is saved *)
(* at that moment and not on an older image (_settle, settle_pending).     *)
ReviewsAreCurrent == FactsComeFirst /\ NothingReviewedTwice

(* Fairness of the cursor: a run that stays pending gets its turn, however *)
(* many others stay pending too and although processes die in the middle   *)
(* of a batch (review_batch).                                              *)
Busy(p) == review[p].phase \notin {"idle", "listed"}
InReview(r) == \E p \in Reviewers : Busy(p) /\ review[p].target = r
EveryRunHasItsTurn == \A r \in Runs :
    []<>(InReview(r) \/ ~Pending(decision[r]))

(* The save of an analysis's own outcome is refused if a reviewer saved    *)
(* one of another time first.  That ends this attempt and not the          *)
(* analysis: when it is started again its decision is accepted, and no     *)
(* outcome of its own is left to save (record_final, merge_decision).      *)
RefusalsPass ==
    \A r \in Runs : run[r].phase = "refused" =>
        /\ Mergeable(decision[r], NewImage(RecordingTime(r)))
        /\ decision[r].outcome.status # "none"

-----------------------------------------------------------------------------
(* The inductive invariant.                                                *)

ReviewPhases ==
    {"idle", "listed", "batch", "loaded", "observed", "reading", "saved", "reflected", "rereading"}
RunPhases ==
    {"new", "selecting", "researching", "closing", "bundling", "done", "refused"}

Reviews ==
    [phase : ReviewPhases, subject : Subjects \union {NoReview.subject}, todo : SUBSET Runs,
     from : Nat, target : Runs \union {0}, image : Images, outcome : Outcomes,
     reflection : Reflections]

Contexts == [taken : BOOLEAN, cutoff : Int, items : SUBSET [run : Runs, image : Images]]
Analyses == [phase : RunPhases, started : Time, asOf : Int, context : Contexts]

(* Every variable has its type: images of decisions, times of the clock,   *)
(* runs and phases that exist.                                             *)
TypeOK ==
    /\ now \in Time /\ faults \in Nat
    /\ decision \in [Runs -> Images] /\ completion \in [Runs -> Images]
    /\ cursor \in [Subjects -> Nat]
    /\ batchLock \in [Subjects -> Reviewers \union {Nobody}]
    /\ review \in [Reviewers -> Reviews]
    /\ run \in [Runs -> Analyses]

(* What is saved is valid and was recorded in the past; what is not saved  *)
(* is not there at all.                                                    *)
DecisionsAreValid ==
    \A r \in Runs :
        IF decision[r].saved THEN Valid(decision[r]) /\ decision[r].recorded <= now
        ELSE decision[r] = NoImage

(* Runs of a list are of its instrument, and whoever is past the list      *)
(* holds the lock of the instrument.                                       *)
HoldsLock(p, t) ==
    /\ t.phase # "idle" => t.subject \in Subjects
    /\ \A r \in t.todo : Subject[r] = t.subject
    /\ t.phase \notin {"idle", "listed"} => batchLock[t.subject] = p

(* The run under review is of the batch's instrument and not yet complete; *)
(* what its reviewer loaded or saved of it is a past state of its record,  *)
(* and what the model reflects on, or reflected on, is saved.              *)
Reviewed == {"loaded", "observed", "reading", "saved", "reflected", "rereading"}

IsCurrent(t) ==
    /\ t.phase \in Reviewed =>
         /\ t.target \in Runs /\ Subject[t.target] = t.subject
         /\ decision[t.target].saved /\ ~decision[t.target].reflection.made
    /\ t.phase \in {"loaded", "saved"} =>
         t.image.saved /\ Extends(decision[t.target], t.image)
    /\ t.phase = "reading" => ~t.image.reflection.made
    /\ t.phase \in {"reflected", "rereading"} =>
         decision[t.target].outcome = [status |-> "available", at |-> t.reflection.of]

ReviewersAreCurrent ==
    \A p \in Reviewers : HoldsLock(p, review[p]) /\ IsCurrent(review[p])

(* A run that freezes its completion, or was refused, has saved its        *)
(* decision; and it was refused only because a reviewer was faster.        *)
RunsAreSaved ==
    \A r \in Runs :
        /\ run[r].phase \in {"closing", "bundling", "done", "refused"} => decision[r].saved
        /\ run[r].phase = "refused" => decision[r].outcome.status # "none"

(* The lessons of a context are complete.                                  *)
LessonsAreComplete ==
    \A r \in Runs : \A item \in run[r].context.items :
        item.image.saved /\ item.image.outcome.status # "none" /\ item.image.reflection.made

IInv ==
    /\ TypeOK /\ DecisionsAreValid /\ ReviewersAreCurrent
    /\ RunsAreSaved /\ LessonsAreComplete /\ FrozenIsPast
=============================================================================
