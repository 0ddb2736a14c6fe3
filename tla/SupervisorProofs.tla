--------------------------- MODULE SupervisorProofs ---------------------------
(***************************************************************************)
(* Proofs about Supervisor, for any number of calls, any capacity of the   *)
(* pool and any last identity.  The invariant says who looks after each    *)
(* owner in the pool; that no process escapes the pool, and that the pool  *)
(* bounds the processes, follow from it.                                   *)
(***************************************************************************)
EXTENDS Supervisor, FiniteSetTheorems, TLAPS

Call == [step : CallSteps, todo : SUBSET OwnerIds, owner : OwnerIds \cup {None}, late : BOOLEAN]

\* The pool is finite: it is a set of identities.
LEMMA PoolIsFinite ==
    ASSUME TypeOK
    PROVE  IsFiniteSet(owners)
<1>1. IsFiniteSet(OwnerIds) BY SupervisorAssumption, FS_Interval DEF OwnerIds
<1> QED BY <1>1, FS_Subset DEF TypeOK

\* The initial states satisfy the invariant.
LEMMA InitEstablishes == Init => IInv
<1> SUFFICES ASSUME Init PROVE IInv OBVIOUS
<1>1. TypeOK BY SupervisorAssumption DEF Init, TypeOK, NoCall, CallSteps
<1>2. NothingEscapes BY DEF Init, NothingEscapes
<1>3. OwnersAreServedOnce BY DEF Init, OwnersAreServedOnce
<1>4. CallsMatch BY DEF Init, CallsMatch, NoCall
<1>5. PoolMatches BY SupervisorAssumption, FS_EmptySet DEF Init, PoolMatches
<1> QED BY <1>1, <1>2, <1>3, <1>4, <1>5 DEF IInv

\* A new call takes a snapshot and looks after no owner.
LEMMA EnterKeeps == ASSUME IInv, NEW c \in Calls, Enter(c) PROVE IInv'
<1>1. TypeOK' BY DEF IInv, TypeOK, Enter, NoCall, CallSteps
<1>2. NothingEscapes' BY DEF IInv, NothingEscapes, Enter
<1>3. OwnersAreServedOnce'
      BY DEF IInv, OwnersAreServedOnce, Serves, Enter, NoCall, TypeOK
<1>4. CallsMatch' BY DEF IInv, CallsMatch, PoolMatches, Enter, NoCall, TypeOK
<1>5. PoolMatches' BY DEF IInv, PoolMatches, Enter
<1> QED BY <1>1, <1>2, <1>3, <1>4, <1>5 DEF IInv

\* An owner that is passed over stays as it is.
LEMMA SkipKeeps == ASSUME IInv, NEW c \in Calls, NEW o \in OwnerIds, Skip(c, o) PROVE IInv'
<1>1. TypeOK' BY DEF IInv, TypeOK, Skip
<1>2. NothingEscapes' BY DEF IInv, NothingEscapes, Skip
<1>3. OwnersAreServedOnce' BY DEF IInv, OwnersAreServedOnce, Serves, Skip, TypeOK
<1>4. CallsMatch' BY DEF IInv, CallsMatch, Skip, TypeOK
<1>5. PoolMatches' BY DEF IInv, PoolMatches, Skip
<1> QED BY <1>1, <1>2, <1>3, <1>4, <1>5 DEF IInv

\* A retried owner was pending, so that nobody else looks after it.
LEMMA RetryKeeps == ASSUME IInv, NEW c \in Calls, NEW o \in OwnerIds, Retry(c, o) PROVE IInv'
<1>1. TypeOK'
  <2>1. call' \in [Calls -> Call]
    <3>1. call[c].todo \ {o} \in SUBSET OwnerIds BY DEF IInv, TypeOK
    <3>2. call' = [call EXCEPT ![c].step = "retrying", ![c].todo = call[c].todo \ {o}, ![c].owner = o]
          BY DEF Retry
    <3>3. call \in [Calls -> Call] BY DEF IInv, TypeOK, Call
    <3>4. "retrying" \in CallSteps BY DEF CallSteps
    <3> QED BY <3>1, <3>2, <3>3, <3>4 DEF Call
  <2> QED BY <2>1 DEF IInv, TypeOK, Retry, Call
<1>2. NothingEscapes' BY DEF IInv, NothingEscapes, Retry
<1>3. o \in owners /\ phase[o] = "pending"
      BY DEF IInv, PoolMatches, Retry, Retryable
<1>4. \A d \in Calls : ~Serves(d, o) BY <1>3 DEF IInv, OwnersAreServedOnce
<1>5. \A d \in Calls, p \in owners : Serves(d, p)' <=> (d = c /\ p = o) \/ (d # c /\ Serves(d, p))
      BY <1>3 DEF IInv, TypeOK, Serves, Retry
<1>6. ~\E p \in owners : Serves(c, p) BY DEF Retry, Serves
<1>7. OwnersAreServedOnce'
      BY <1>3, <1>4, <1>5, <1>6 DEF IInv, OwnersAreServedOnce, Retry, TypeOK
<1>8. CallsMatch' BY <1>3, <1>4 DEF IInv, CallsMatch, Serves, Retry, TypeOK
<1>9. PoolMatches' BY DEF IInv, PoolMatches, Retry, TypeOK
<1> QED BY <1>1, <1>2, <1>7, <1>8, <1>9 DEF IInv

\* A cleanup changes what is retained, never who looks after whom.
LEMMA CleanUpKeeps ==
    ASSUME IInv, NEW c \in Calls,
           \/ RetryCleanUp(c)
           \/ Finish(c)
    PROVE  IInv'
<1>1. call[c].owner \in owners /\ call[c].owner \in OwnerIds
      BY DEF IInv, CallsMatch, TypeOK, RetryCleanUp, Finish
<1>2. TypeOK' BY <1>1 DEF IInv, TypeOK, RetryCleanUp, Finish, CleanUp, CallSteps
<1>3. NothingEscapes' BY <1>1 DEF IInv, NothingEscapes, RetryCleanUp, Finish, CleanUp, TypeOK
<1>4. OwnersAreServedOnce'
  <2>1. \A d \in Calls : \A o : Serves(d, o)' <=> Serves(d, o)
        BY DEF IInv, TypeOK, Serves, RetryCleanUp, Finish, CleanUp
  <2>2. UNCHANGED <<owners, phase>> BY DEF RetryCleanUp, Finish, CleanUp
  <2> QED BY <2>1, <2>2 DEF IInv, OwnersAreServedOnce
<1>5. CallsMatch' BY DEF IInv, CallsMatch, RetryCleanUp, Finish, CleanUp, TypeOK
<1>6. PoolMatches' BY DEF IInv, PoolMatches, RetryCleanUp, Finish, CleanUp
<1> QED BY <1>2, <1>3, <1>4, <1>5, <1>6 DEF IInv

\* After its cleanup an owner waits for a retry, or leaves with nothing held;
\* its call was the only one that looked after it.
LEMMA SettleKeeps ==
    ASSUME IInv, NEW c \in Calls,
           \/ RetrySettle(c)
           \/ Return(c)
    PROVE  IInv'
<1> DEFINE o == call[c].owner
<1>1. o \in owners /\ o \in OwnerIds /\ Serves(c, o)
      BY DEF IInv, CallsMatch, TypeOK, Serves, RetrySettle, Return
<1>2. \A d \in Calls : Serves(d, o) => d = c BY <1>1 DEF IInv, OwnersAreServedOnce
<1>3. TypeOK'
      BY <1>1 DEF IInv, TypeOK, RetrySettle, Return, Settle, PutBack, CallSteps
<1>4. CASE StillHeld(o)
  <2>1. phase' = [phase EXCEPT ![o] = "pending"] /\ UNCHANGED <<owners, retained, nextId>>
        BY <1>4 DEF RetrySettle, Return, Settle, PutBack
  <2>2. NothingEscapes' BY <2>1 DEF IInv, NothingEscapes
  <2>3. OwnersAreServedOnce'
    <3>1. \A d \in Calls, p \in owners : Serves(d, p)' => d # c /\ Serves(d, p)
          BY DEF IInv, TypeOK, Serves, RetrySettle, Return, Settle
    <3>2. \A d \in Calls, p \in owners : d # c /\ Serves(d, p) => Serves(d, p)'
          BY DEF IInv, TypeOK, Serves, RetrySettle, Return, Settle
    <3>3. \A p \in owners : Serves(c, p) => p = o
          BY DEF Serves
    <3>4. \A p \in owners : phase'[p] = IF p = o THEN "pending" ELSE phase[p]
          BY <1>1, <2>1 DEF IInv, TypeOK
    <3> HIDE DEF o
    <3> QED BY <1>1, <1>2, <2>1, <3>1, <3>2, <3>3, <3>4 DEF IInv, OwnersAreServedOnce
  <2>4. CallsMatch'
        BY <1>1, <1>2, <2>1 DEF IInv, CallsMatch, Serves, RetrySettle, Return, Settle, TypeOK
  <2>5. PoolMatches' BY <1>1, <2>1 DEF IInv, PoolMatches, TypeOK
  <2> QED BY <1>3, <2>2, <2>3, <2>4, <2>5 DEF IInv
<1>5. CASE ~StillHeld(o)
  <2>1. owners' = owners \ {o} /\ UNCHANGED <<phase, retained, nextId>>
        BY <1>5 DEF RetrySettle, Return, Settle
  <2>2. NothingEscapes' BY <1>5, <2>1 DEF IInv, NothingEscapes, StillHeld
  <2>3. \A d \in Calls, p \in owners' : Serves(d, p)' => Serves(d, p)
        BY DEF IInv, TypeOK, Serves, RetrySettle, Return, Settle
  <2>4. \A d \in Calls, p \in owners' : Serves(d, p) => Serves(d, p)'
        BY <1>1, <2>1 DEF IInv, TypeOK, Serves, RetrySettle, Return, Settle
  <2>5. OwnersAreServedOnce'
        BY <2>1, <2>3, <2>4 DEF IInv, OwnersAreServedOnce
  <2>6. CallsMatch'
        BY <1>1, <1>2, <2>1 DEF IInv, CallsMatch, Serves, RetrySettle, Return, Settle, TypeOK
  <2>7. Cardinality(owners') <= MaxOwners
    <3>1. IsFiniteSet(owners) BY PoolIsFinite DEF IInv
    <3>2. Cardinality(owners) \in Nat BY <3>1, FS_CardinalityType
    <3>3. Cardinality(owners \ {o}) = Cardinality(owners) - 1 BY <1>1, <3>1, FS_RemoveElement
    <3> QED BY <2>1, <3>2, <3>3, SupervisorAssumption DEF IInv, PoolMatches
  <2>8. phase[o] # "pending" BY <1>1 DEF IInv, OwnersAreServedOnce
  <2>9. PoolMatches' BY <2>1, <2>7, <2>8 DEF IInv, PoolMatches
  <2> QED BY <1>3, <2>2, <2>5, <2>6, <2>9 DEF IInv
<1> QED BY <1>4, <1>5

\* A call that is done with the retries looks after no owner.
LEMMA EndRetriesKeeps == ASSUME IInv, NEW c \in Calls, EndRetries(c) PROVE IInv'
<1>1. TypeOK'
  <2>1. call \in [Calls -> Call] BY DEF IInv, TypeOK, Call
  <2>2. "admitting" \in CallSteps BY DEF CallSteps
  <2>3. call' \in [Calls -> Call] BY <2>1, <2>2 DEF EndRetries, Call
  <2> QED BY <2>3 DEF IInv, TypeOK, EndRetries, Call
<1>2. NothingEscapes' BY DEF IInv, NothingEscapes, EndRetries
<1>3. OwnersAreServedOnce' BY DEF IInv, OwnersAreServedOnce, Serves, EndRetries, TypeOK
<1>4. CallsMatch' BY DEF IInv, CallsMatch, EndRetries, TypeOK
<1>5. PoolMatches' BY DEF IInv, PoolMatches, EndRetries
<1> QED BY <1>1, <1>2, <1>3, <1>4, <1>5 DEF IInv

\* A new owner has an identity that no owner had, and room in the pool.
LEMMA AdmitKeeps == ASSUME IInv, NEW c \in Calls, Admit(c) PROVE IInv'
<1>1. nextId \in OwnerIds /\ nextId \in Nat
      BY SupervisorAssumption DEF IInv, TypeOK, Admit, OwnerIds
<1>2. nextId \notin owners /\ \A o \in OwnerIds : o < nextId => o < nextId + 1
      BY <1>1 DEF IInv, PoolMatches, OwnerIds
<1>3. \A d \in Calls : ~Serves(d, nextId) BY <1>2 DEF IInv, CallsMatch, Serves
<1>4. TypeOK'
  <2>1. call \in [Calls -> Call] BY DEF IInv, TypeOK, Call
  <2>2. "working" \in CallSteps BY DEF CallSteps
  <2>3. call' \in [Calls -> Call] BY <1>1, <2>1, <2>2 DEF Admit, Call
  <2>4. nextId' \in 1..(MaxIds + 1)
        BY <1>1, SupervisorAssumption DEF Admit, OwnerIds
  <2> QED BY <1>1, <2>3, <2>4 DEF IInv, TypeOK, Admit, Call
<1>5. NothingEscapes' BY <1>1 DEF IInv, NothingEscapes, Admit, TypeOK
<1>6. OwnersAreServedOnce'
      BY <1>1, <1>2, <1>3 DEF IInv, OwnersAreServedOnce, Serves, Admit, TypeOK
<1>7. CallsMatch'
      BY <1>1, <1>2, <1>3 DEF IInv, CallsMatch, Serves, Admit, TypeOK
<1>8. Cardinality(owners') <= MaxOwners
  <2>1. IsFiniteSet(owners) BY PoolIsFinite DEF IInv
  <2>2. Cardinality(owners) \in Nat BY <2>1, FS_CardinalityType
  <2>3. Cardinality(owners \cup {nextId}) = Cardinality(owners) + 1
        BY <1>2, <2>1, FS_AddElement
  <2> QED BY <2>2, <2>3, SupervisorAssumption DEF Admit, Room
<1>9. PoolMatches' BY <1>1, <1>2, <1>8 DEF IInv, PoolMatches, Admit, TypeOK
<1> QED BY <1>4, <1>5, <1>6, <1>7, <1>9 DEF IInv

\* A refused call changes nothing but itself.
LEMMA RefuseKeeps == ASSUME IInv, NEW c \in Calls, Refuse(c) PROVE IInv'
<1>1. TypeOK' BY DEF IInv, TypeOK, Refuse, NoCall, CallSteps
<1>2. NothingEscapes' BY DEF IInv, NothingEscapes, Refuse
<1>3. OwnersAreServedOnce' BY DEF IInv, OwnersAreServedOnce, Serves, Refuse, NoCall, TypeOK
<1>4. CallsMatch' BY DEF IInv, CallsMatch, Refuse, NoCall, TypeOK
<1>5. PoolMatches' BY DEF IInv, PoolMatches, Refuse
<1> QED BY <1>1, <1>2, <1>3, <1>4, <1>5 DEF IInv

\* Nothing in the pool depends on what still resists.
LEMMA YieldKeeps == ASSUME IInv, NEW o \in OwnerIds, Yield(o) PROVE IInv'
<1>1. TypeOK' BY DEF IInv, TypeOK, Yield
<1>2. NothingEscapes' /\ OwnersAreServedOnce' /\ CallsMatch' /\ PoolMatches'
      BY DEF IInv, NothingEscapes, OwnersAreServedOnce, Serves, CallsMatch, PoolMatches, Yield
<1> QED BY <1>1, <1>2 DEF IInv

\* Every step keeps the invariant.
LEMMA NextKeeps == ASSUME IInv, [Next]_vars PROVE IInv'
<1>1. CASE UNCHANGED vars
      BY <1>1 DEF IInv, TypeOK, NothingEscapes, OwnersAreServedOnce, Serves, CallsMatch, PoolMatches, vars
<1>2. CASE \E c \in Calls : Enter(c) BY <1>2, EnterKeeps
<1>3. CASE \E c \in Calls : Proceed(c)
      BY <1>3, SkipKeeps, RetryKeeps, CleanUpKeeps, SettleKeeps, EndRetriesKeeps,
         AdmitKeeps, RefuseKeeps DEF Proceed
<1>4. CASE \E o \in OwnerIds : Yield(o) BY <1>4, YieldKeeps
<1> QED BY <1>1, <1>2, <1>3, <1>4 DEF Next

\* The invariant holds for any calls, capacity and last identity.
THEOREM Invariance == Spec => []IInv
BY InitEstablishes, NextKeeps, PTL DEF Spec

\* No process that may still exist is out of the pool's reach: no finish, retry
\* or stale snapshot drops an owner whose registry retains its run.
THEOREM NothingIsForgotten == Spec => []NothingEscapes
<1>1. IInv => NothingEscapes BY DEF IInv
<1> QED BY <1>1, Invariance, PTL

\* Each owner has exactly one call that looks after it, or waits to be retried.
THEOREM EachOwnerIsServed == Spec => []OwnersAreServedOnce
<1>1. IInv => OwnersAreServedOnce BY DEF IInv
<1> QED BY <1>1, Invariance, PTL

\* The limit on owners is a limit on processes.
THEOREM LimitHolds == Spec => []ProcessesAreBounded
<1>1. IInv => ProcessesAreBounded
  <2> SUFFICES ASSUME IInv PROVE ProcessesAreBounded OBVIOUS
  <2>1. IsFiniteSet(owners) BY PoolIsFinite DEF IInv
  <2>2. {o \in OwnerIds : retained[o]} \subseteq owners BY DEF IInv, NothingEscapes
  <2>3. Cardinality({o \in OwnerIds : retained[o]}) <= Cardinality(owners)
        BY <2>1, <2>2, FS_Subset
  <2>4. /\ Cardinality(owners) \in Nat
        /\ Cardinality({o \in OwnerIds : retained[o]}) \in Nat
        BY <2>1, <2>2, FS_Subset, FS_CardinalityType
  <2> QED BY <2>3, <2>4, SupervisorAssumption DEF IInv, PoolMatches, ProcessesAreBounded
<1> QED BY <1>1, Invariance, PTL

=============================================================================
