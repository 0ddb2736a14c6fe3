-------------------------- MODULE AnalysisRunProofs --------------------------
(***************************************************************************)
(* What a model was shown can be cited and is shown once, and nothing is   *)
(* frozen but one warranted decision, for any analysts, tools and bounds,  *)
(* wherever a run is interrupted.  The invariant relates memory, ledger    *)
(* and checkpoint: what is on disk is checkpointed, or was handed on, or   *)
(* will be replayed; and once something is frozen the run never leaves its *)
(* last state.                                                             *)
(***************************************************************************)
EXTENDS AnalysisRun, FiniteSetTheorems, FunctionTheorems, WellFoundedInduction, TLAPS

-----------------------------------------------------------------------------
(* Numbers in their order.                                                 *)

(* Induction over numbers is by a least counterexample.                    *)
LEMMA LeastNatural ==
    ASSUME NEW T, T \subseteq Nat, T # {}
    PROVE  \E n \in T : \A m \in T : n <= m
<1> DEFINE R == OpToRel(<, Nat)
<1>1. IsWellFoundedOn(R, Nat)
  BY NatLessThanWellFounded DEF OpToRel
<1>2. \A x, y \in Nat : x < y => <<x, y>> \in R
  BY DEF OpToRel
<1> HIDE DEF R
<1>3. PICK n \in T : \A m \in T : ~(<<m, n>> \in R)
  BY <1>1, WFMin
<1>4. ASSUME NEW m \in T PROVE n <= m
  <2>1. m \in Nat /\ n \in Nat /\ ~(m < n)
    BY <1>2, <1>3
  <2>2. QED
    BY <2>1
<1>5. QED
  BY <1>4

Increasing(n, S) == {s \in [1 .. n -> S] : \A i, j \in 1 .. n : i < j => s[i] < s[j]}

(* A new smallest number goes before the others.                           *)
LEMMA SmallerFirst ==
    ASSUME NEW S, S \subseteq Nat, NEW x \in S, \A y \in S : x <= y,
           NEW n \in Nat, NEW t \in Increasing(n, S \ {x})
    PROVE  Increasing(n + 1, S) # {}
<1> DEFINE s == [i \in 1 .. n + 1 |-> IF i = 1 THEN x ELSE t[i - 1]]
<1>1. ASSUME NEW i \in 1 .. n PROVE t[i] \in S /\ x < t[i]
  <2>1. t[i] \in S \ {x}
    BY DEF Increasing
  <2>2. x \in Nat /\ t[i] \in Nat /\ x <= t[i] /\ t[i] # x
    BY <2>1
  <2>3. QED
    BY <2>1, <2>2
<1>2. s \in [1 .. n + 1 -> S]
  BY <1>1
<1>3. ASSUME NEW i \in 1 .. n + 1, NEW j \in 1 .. n + 1, i < j PROVE s[i] < s[j]
  <2>1. j - 1 \in 1 .. n /\ s[j] = t[j - 1]
    BY <1>3
  <2>2. CASE i = 1
    BY <1>1, <2>1, <2>2
  <2>3. CASE i # 1
    <3>1. i - 1 \in 1 .. n /\ s[i] = t[i - 1] /\ i - 1 < j - 1
      BY <1>3, <2>3
    <3>2. QED
      BY <2>1, <3>1 DEF Increasing
  <2>4. QED
    BY <2>2, <2>3
<1>4. s \in Increasing(n + 1, S)
  BY <1>2, <1>3 DEF Increasing
<1>5. QED
  BY <1>4

(* A finite set of numbers can be put in order.                            *)
LEMMA CanBeSorted ==
    ASSUME NEW S, S \subseteq Nat, IsFiniteSet(S)
    PROVE  Increasing(Cardinality(S), S) # {}
<1> DEFINE Unsorted == {n \in Nat : \E X \in SUBSET Nat :
                          IsFiniteSet(X) /\ Cardinality(X) = n /\ Increasing(n, X) = {}}
<1>1. SUFFICES ASSUME Unsorted # {} PROVE FALSE
  BY FS_CardinalityType
<1>2. PICK n \in Unsorted : \A m \in Unsorted : n <= m
  BY <1>1, LeastNatural
<1>3. PICK X \in SUBSET Nat : IsFiniteSet(X) /\ Cardinality(X) = n /\ Increasing(n, X) = {}
  BY <1>2
<1>4. CASE X = {}
  <2>1. n = 0
    BY <1>3, <1>4, FS_EmptySet
  <2>2. <<>> \in Increasing(0, X)
    BY DEF Increasing
  <2>3. QED
    BY <1>3, <2>1, <2>2
<1>5. CASE X # {}
  <2>1. PICK x \in X : \A y \in X : x <= y
    BY <1>5, LeastNatural
  <2>2. /\ IsFiniteSet(X \ {x}) /\ Cardinality(X \ {x}) = n - 1 /\ n \in Nat
    BY <1>2, <1>3, <2>1, FS_RemoveElement
  <2>3. n - 1 \in Nat
    BY <2>2, FS_CardinalityType
  <2>4. n - 1 \notin Unsorted
    BY <1>2, <2>3
  <2>5. Increasing(n - 1, X \ {x}) # {}
    BY <2>2, <2>3, <2>4
  <2>6. Increasing(n - 1 + 1, X) # {}
    BY <2>1, <2>3, <2>5, SmallerFirst
  <2>7. QED
    BY <1>3, <2>2, <2>6
<1>6. QED
  BY <1>4, <1>5

(* In order, each number of the set occurs once.                           *)
LEMMA SortedIsComplete ==
    ASSUME NEW S, S \subseteq Nat, IsFiniteSet(S), NEW s \in Increasing(Cardinality(S), S)
    PROVE  /\ s \in Seq(Nat) /\ DOMAIN s = 1 .. Len(s)
           /\ \A i \in DOMAIN s : s[i] \in S
           /\ \A i, j \in DOMAIN s : s[i] = s[j] => i = j
           /\ \A x \in S : \E i \in DOMAIN s : s[i] = x
<1> DEFINE n == Cardinality(S)
<1>1. n \in Nat
  BY FS_CardinalityType
<1>2. s \in [1 .. n -> S] /\ \A i, j \in 1 .. n : i < j => s[i] < s[j]
  BY DEF Increasing
<1> HIDE DEF n
<1>3. s \in Seq(Nat) /\ Len(s) = n /\ DOMAIN s = 1 .. n
  <2>1. s \in [1 .. n -> Nat]
    BY <1>2
  <2>2. QED
    BY <1>1, <2>1
<1>4. ASSUME NEW i \in 1 .. n, NEW j \in 1 .. n, s[i] = s[j] PROVE i = j
  <2>1. s[i] \in Nat /\ s[j] \in Nat
    BY <1>2
  <2>2. ~(i < j) /\ ~(j < i)
    BY <1>2, <1>4, <2>1
  <2>3. QED
    BY <1>1, <2>2
<1>5. s \in Injection(1 .. n, S)
  BY <1>2, <1>4 DEF Injection, IsInjective
<1>6. IsFiniteSet(1 .. n) /\ Cardinality(1 .. n) = n
  BY <1>1, FS_Interval
<1>7. s \in Surjection(1 .. n, S)
  BY <1>5, <1>6, FS_Injection DEF n
<1>8. \A x \in S : \E i \in 1 .. n : s[i] = x
  BY <1>7 DEF Surjection
<1>9. QED
  BY <1>2, <1>3, <1>4, <1>8

-----------------------------------------------------------------------------
(* Basic facts.                                                            *)

LEMMA Constants ==
    /\ Prefetching \subseteq Analysts
    /\ \A a \in Analysts : Requests[a] \subseteq Calls
    /\ MaxToolRounds \in Nat /\ DebateRounds \in Nat /\ RiskRounds \in Nat
    /\ MaxFaults \in Nat
BY ConstantsAreRight DEF ConstantsAreRight

LEMMA PartNames == {Parts[i] : i \in DOMAIN Parts} = {"decision", "completion", "snapshot", "identity"}
BY DEF Parts

LEMMA NewStateTyped ==
    /\ NewState \in States /\ NewChild \in Children
    /\ \A a \in Analysts : NewState.child[a] = NewChild
    /\ NewState.stage = "analysts" /\ NewState.filed = {} /\ NewState.final = None
    /\ NewChild.heard = <<>> /\ NewChild.known = 0
<1>1. NewChild \in Children /\ NewChild.heard = <<>> /\ NewChild.known = 0
  BY DEF NewChild, Children
<1>2. [a \in Analysts |-> NewChild] \in [Analysts -> Children]
  BY <1>1
<1>3. QED
  BY <1>1, <1>2 DEF NewState, States, Stages

LEMMA Typed ==
    ASSUME TypeOK, NEW a \in Analysts
    PROVE  /\ ledger[a] \in Seq(Records) /\ Len(ledger[a]) \in Nat
           /\ live \in States /\ saved.state \in States
           /\ live.child[a] \in Children /\ saved.state.child[a] \in Children
           /\ live.child[a].heard \in Seq(Nat) /\ live.child[a].known \in Nat
           /\ saved.state.child[a].heard \in Seq(Nat) /\ saved.state.child[a].known \in Nat
           /\ results[a] \subseteq Nat /\ replay[a] \subseteq Nat
BY DEF TypeOK, States, Children

LEMMA NewChildIsGood == ASSUME TypeOK, NEW a \in Analysts PROVE GoodChild(a, NewChild)
BY NewStateTyped, Typed DEF GoodChild

(* While an analyst works nothing is frozen.                               *)
LEMMA WorkIsEarly ==
    ASSUME IInv, NEW a \in slots
    PROVE  /\ a \in Analysts /\ process = "running" /\ live.stage = "analysts"
           /\ a \notin live.filed /\ Shown = {}
<1>1. a \in Analysts /\ process = "running" /\ live.stage = "analysts" /\ a \notin live.filed
  BY DEF IInv, TypeOK, SlotsMatch
<1>2. Shown = {}
  BY <1>1 DEF IInv, FrozenMatches
<1>3. QED
  BY <1>1, <1>2

(* The messages of a step.                                                 *)
LEMMA HeardAll ==
    ASSUME IInv, NEW a \in Analysts
    PROVE  /\ Heard(a) \in Seq(Nat)
           /\ \A i \in DOMAIN Heard(a) : Heard(a)[i] \in 1 .. Len(ledger[a])
           /\ \A i, j \in DOMAIN Heard(a) : Heard(a)[i] = Heard(a)[j] => i = j
           /\ \A x : x \in results[a] \/ HasHeard(a, x) =>
                \E i \in DOMAIN Heard(a) : Heard(a)[i] = x
           /\ \A i \in DOMAIN Heard(a) : Heard(a)[i] \in results[a] \/ HasHeard(a, Heard(a)[i])
<1> DEFINE h == live.child[a].heard
           S == results[a]
           n == Cardinality(S)
           s == CHOOSE s \in [1 .. n -> S] : \A i, j \in DOMAIN s : i < j => s[i] < s[j]
<1>1. /\ h \in Seq(Nat) /\ S \subseteq Nat /\ Len(ledger[a]) \in Nat
      /\ live.child[a].known \in Nat
  BY Typed DEF IInv
<1>2. /\ \A i \in DOMAIN h : h[i] \in 1 .. Len(ledger[a])
      /\ \A i, j \in DOMAIN h : h[i] = h[j] => i = j
  BY <1>1 DEF IInv, ChildrenAreGood, GoodChild
<1>3. S \subseteq 1 .. Len(ledger[a]) /\ \A i \in S : ~HasHeard(a, i)
  BY DEF IInv, ResultsAreNew
<1>4. IsFiniteSet(S)
  <2>0. \A m \in Nat : IsFiniteSet(1 .. m)
    BY FS_Interval
  <2>1. IsFiniteSet(1 .. Len(ledger[a]))
    BY <1>1, <2>0
  <2>2. QED
    BY <1>3, <2>1, FS_Subset
<1>5. s \in Increasing(n, S)
  <2>1. \E t : t \in Increasing(n, S)
    BY <1>1, <1>4, CanBeSorted
  <2>2. \E t \in [1 .. n -> S] : \A i, j \in DOMAIN t : i < j => t[i] < t[j]
    BY <2>1 DEF Increasing
  <2>3. s \in [1 .. n -> S] /\ \A i, j \in DOMAIN s : i < j => s[i] < s[j]
    BY <2>2
  <2> HIDE DEF s
  <2>4. QED
    BY <2>3 DEF Increasing
<1>6. Heard(a) = h \o s
  BY DEF Heard
<1> HIDE DEF s
<1>7. /\ s \in Seq(Nat) /\ DOMAIN s = 1 .. Len(s)
      /\ \A i \in DOMAIN s : s[i] \in S
      /\ \A i, j \in DOMAIN s : s[i] = s[j] => i = j
      /\ \A x \in S : \E i \in DOMAIN s : s[i] = x
  BY <1>1, <1>4, <1>5, SortedIsComplete
<1> HIDE DEF S, h
<1>8. /\ h \o s \in Seq(Nat) /\ DOMAIN (h \o s) = 1 .. Len(h) + Len(s)
      /\ DOMAIN h = 1 .. Len(h) /\ Len(h) \in Nat /\ Len(s) \in Nat
      /\ \A i \in 1 .. Len(h) : (h \o s)[i] = h[i]
      /\ \A i \in 1 .. Len(s) : (h \o s)[Len(h) + i] = s[i]
  BY <1>1, <1>7
<1>9. \A i \in DOMAIN (h \o s) :
        \/ i \in DOMAIN h /\ (h \o s)[i] = h[i]
        \/ i - Len(h) \in DOMAIN s /\ (h \o s)[i] = s[i - Len(h)]
  BY <1>7, <1>8
<1>10. \A i \in DOMAIN h, j \in DOMAIN s : h[i] # s[j]
  BY <1>3, <1>7 DEF HasHeard, h
<1> DEFINE t == h \o s
<1>11. \A i \in DOMAIN t : t[i] \in 1 .. Len(ledger[a])
  BY <1>2, <1>3, <1>7, <1>9
<1>12. ASSUME NEW i \in DOMAIN t, NEW j \in DOMAIN t, t[i] = t[j] PROVE i = j
  <2>1. i \in Nat /\ j \in Nat
    BY <1>8
  <2>2. CASE i \in DOMAIN h /\ t[i] = h[i]
    BY <1>2, <1>9, <1>10, <1>12, <2>2
  <2>3. CASE i - Len(h) \in DOMAIN s /\ t[i] = s[i - Len(h)]
    <3>1. j - Len(h) \in DOMAIN s /\ t[j] = s[j - Len(h)]
      BY <1>9, <1>10, <1>12, <2>3
    <3>2. i - Len(h) = j - Len(h)
      BY <1>7, <1>12, <2>3, <3>1
    <3>3. QED
      BY <1>8, <2>1, <3>2
  <2>4. QED
    BY <1>9, <2>2, <2>3
<1>13. ASSUME NEW x, x \in S \/ HasHeard(a, x) PROVE \E i \in DOMAIN t : t[i] = x
  <2>1. CASE x \in S
    <3>1. PICK i \in 1 .. Len(s) : s[i] = x
      BY <1>7, <2>1
    <3>2. Len(h) + i \in DOMAIN t /\ t[Len(h) + i] = x
      BY <1>8, <3>1
    <3>3. QED
      BY <3>2
  <2>2. CASE HasHeard(a, x)
    <3>1. PICK i \in 1 .. Len(h) : h[i] = x
      BY <1>8, <2>2 DEF HasHeard, h
    <3>2. i \in DOMAIN t /\ t[i] = x
      BY <1>8, <3>1
    <3>3. QED
      BY <3>2
  <2>3. QED
    BY <1>13, <2>1, <2>2
<1>14. \A i \in DOMAIN t : t[i] \in S \/ HasHeard(a, t[i])
  BY <1>7, <1>9 DEF HasHeard, h
<1>15. QED
  BY <1>6, <1>8, <1>11, <1>12, <1>13, <1>14 DEF S

-----------------------------------------------------------------------------
(* What keeps the parts of the invariant.                                  *)

(* Before anything is frozen.                                              *)
LEMMA EarlyKept ==
    ASSUME Shown = {}, UNCHANGED <<paper, published>>
    PROVE  FrozenMatches' /\ FinalIsFinal' /\ RatingIsWarranted'
<1>1. Shown' = {}
  BY DEF Shown
<1>2. QED
  BY <1>1 DEF FrozenMatches, FinalIsFinal, RatingIsWarranted

LEMMA IdleHasNoResults ==
    ASSUME IInv, NEW a \in Analysts, ~Collecting(a) PROVE results[a] = {}
BY DEF IInv, ResultsAreNew

(* A step of a private graph takes what it was given into its messages.    *)
LEMMA ChildStepKeeps ==
    ASSUME IInv, NEW a \in slots, NEW child \in Children, ChildStep(a, child), faults' = faults,
           child.known = Len(ledger[a]),
           \A i \in DOMAIN child.heard : child.heard[i] \in 1 .. Len(ledger[a]),
           \A i, j \in DOMAIN child.heard : child.heard[i] = child.heard[j] => i = j,
           \A x : x \in results[a] \/ HasHeard(a, x) =>
                \E i \in DOMAIN child.heard : child.heard[i] = x,
           \A i \in DOMAIN child.heard :
                child.heard[i] \in results[a] \/ HasHeard(a, child.heard[i])
    PROVE  IInv'
<1>1. /\ a \in Analysts /\ process = "running" /\ live.stage = "analysts" /\ Shown = {}
  BY WorkIsEarly
<1>2. /\ live' = [live EXCEPT !.child[a] = child]
      /\ results' = [results EXCEPT ![a] = {}] /\ unsaved' = [unsaved EXCEPT ![a] = {}]
      /\ UNCHANGED <<ledger, process, slots, replay, paper, published>>
      /\ saved' = Checkpointed([saved.state EXCEPT !.child[a] = child]) \/ saved' = saved
  BY DEF ChildStep
<1>3. /\ live' \in States /\ live'.filed = live.filed /\ live'.stage = live.stage
      /\ live'.child[a] = child /\ \A b \in Analysts : b # a => live'.child[b] = live.child[b]
  BY <1>1, <1>2 DEF IInv, TypeOK, States
<1>4. /\ saved' \in [begun : BOOLEAN, state : States]
      /\ saved'.state.filed = saved.state.filed /\ saved'.state.stage = saved.state.stage
      /\ \A b \in Analysts : b # a => saved'.state.child[b] = saved.state.child[b]
      /\ saved'.state.child[a] \in {child, saved.state.child[a]}
  <2>1. saved.state \in States
    BY DEF IInv, TypeOK
  <2>2. CASE saved' = saved
    BY <2>1, <2>2 DEF IInv, TypeOK
  <2>3. CASE saved' = Checkpointed([saved.state EXCEPT !.child[a] = child])
    <3> DEFINE state == [saved.state EXCEPT !.child[a] = child]
    <3>1. /\ state \in States /\ state.filed = saved.state.filed /\ state.stage = saved.state.stage
          /\ state.child[a] = child
          /\ \A b \in Analysts : b # a => state.child[b] = saved.state.child[b]
      BY <1>1, <2>1 DEF States
    <3>2. saved'.begun = TRUE /\ saved'.state = state /\ saved' = [begun |-> TRUE, state |-> state]
      BY <2>3 DEF Checkpointed
    <3> HIDE DEF state
    <3>3. QED
      BY <3>1, <3>2
  <2>4. QED
    BY <1>2, <2>2, <2>3
<1>5. TypeOK'
  BY <1>2, <1>3, <1>4 DEF IInv, TypeOK
<1>6. results'[a] = {} /\ \A b \in Analysts : b # a => results'[b] = results[b]
  BY <1>2 DEF IInv, TypeOK
<1>7. GoodChild(a, child) /\ Len(ledger[a]) \in Nat
  BY <1>1, Typed DEF GoodChild, IInv
<1>8. ChildrenAreGood'
  <2>1. ASSUME NEW b \in Analysts
        PROVE  GoodChild(b, live'.child[b]) /\ GoodChild(b, saved'.state.child[b])
    BY <1>3, <1>4, <1>7 DEF IInv, ChildrenAreGood
  <2>2. QED
    BY <1>2, <2>1 DEF ChildrenAreGood, GoodChild
<1>9. \A b \in Analysts : b # a => /\ (Collecting(b)' <=> Collecting(b))
                                   /\ \A x : HasHeard(b, x)' <=> HasHeard(b, x)
  BY <1>2, <1>3 DEF Collecting, Works, HasHeard
<1>10. \A x : HasHeard(a, x)' <=> x \in results[a] \/ HasHeard(a, x)
  BY <1>3 DEF HasHeard
<1>11. ResultsAreNew'
  <2> SUFFICES ASSUME NEW b \in Analysts
               PROVE  /\ results'[b] \union replay[b] \subseteq 1 .. Len(ledger[b])
                      /\ results'[b] \intersect replay[b] = {}
                      /\ \A i \in results'[b] \union replay[b] : ~HasHeard(b, i)'
                      /\ results'[b] # {} => Collecting(b)'
    BY <1>2 DEF ResultsAreNew
  <2>1. CASE b = a
    BY <1>6, <1>10, <2>1 DEF IInv, ResultsAreNew
  <2>2. CASE b # a
    BY <1>6, <1>9, <2>2 DEF IInv, ResultsAreNew
  <2>3. QED
    BY <2>1, <2>2
<1>12. NothingIsMissed'
  <2> SUFFICES ASSUME NEW b \in Analysts
               PROVE  /\ saved'.state.child[b].known <= live'.child[b].known
                      /\ \A i \in 1 .. Len(ledger[b]) :
                           \/ i <= saved'.state.child[b].known
                           \/ i \in results'[b] \union replay[b] \/ HasHeard(b, i)'
    BY <1>2 DEF NothingIsMissed
  <2>1. /\ saved.state.child[b].known <= live.child[b].known
        /\ live.child[b].known <= Len(ledger[b])
        /\ saved.state.child[b].known \in Nat /\ live.child[b].known \in Nat
        /\ Len(ledger[b]) \in Nat
        /\ \A i \in 1 .. Len(ledger[b]) :
             i <= saved.state.child[b].known \/ i \in results[b] \union replay[b] \/ HasHeard(b, i)
    BY <1>1, Typed DEF IInv, NothingIsMissed, ChildrenAreGood, GoodChild
  <2>2. CASE b = a
    BY <1>3, <1>4, <1>6, <1>7, <1>10, <2>1, <2>2
  <2>3. CASE b # a
    BY <1>3, <1>4, <1>6, <1>9, <2>1, <2>3
  <2>4. QED
    BY <2>2, <2>3
<1>13. SlotsMatch'
  BY <1>2, <1>3, <1>4 DEF IInv, SlotsMatch
<1>14. ProcessMatches'
  BY <1>1, <1>2 DEF ProcessMatches, Completing
<1>15. QED
  BY <1>1, <1>2, <1>5, <1>8, <1>11, <1>12, <1>13, <1>14, EarlyKept DEF IInv

(* A step whose private graph hears nothing new.                           *)
LEMMA QuietStepKeeps ==
    ASSUME IInv, NEW a \in slots, NEW child \in Children, ChildStep(a, child), faults' = faults,
           ~Collecting(a), child.known = Len(ledger[a]), child.heard = live.child[a].heard
    PROVE  IInv'
<1>1. a \in Analysts /\ results[a] = {}
  BY WorkIsEarly, IdleHasNoResults
<1>2. /\ \A i \in DOMAIN child.heard : child.heard[i] \in 1 .. Len(ledger[a])
      /\ \A i, j \in DOMAIN child.heard : child.heard[i] = child.heard[j] => i = j
  BY <1>1, Typed DEF IInv, ChildrenAreGood, GoodChild
<1>3. \A x : HasHeard(a, x) <=> \E i \in DOMAIN child.heard : child.heard[i] = x
  BY DEF HasHeard
<1>4. QED
  BY <1>1, <1>2, <1>3, ChildStepKeeps

LEMMA AgentTurnKeeps == ASSUME IInv, NEW a \in Analysts, AgentTurn(a) PROVE IInv'
<1>1. /\ a \in slots /\ a \notin Prefetching /\ live.child[a].node = "agent" /\ faults' = faults
      /\ live.child[a] \in Children /\ Len(ledger[a]) \in Nat
  BY Typed DEF AgentTurn, Works, IInv
<1> DEFINE node(asked) == IF asked = {} THEN "done" ELSE "tools"
           next(asked) == [live.child[a] EXCEPT !.asked = asked, !.known = Known(a),
                                                !.node = node(asked)]
<1>2. \E asked \in SUBSET Requests[a] : ChildStep(a, next(asked))
  BY Zenon DEF AgentTurn
<1>3. \A asked : node(asked) \in {"done", "tools"}
  OBVIOUS
<1> HIDE DEF node
<1>4. ASSUME NEW asked \in SUBSET Requests[a]
      PROVE  /\ next(asked) \in Children /\ next(asked).known = Len(ledger[a])
             /\ next(asked).heard = live.child[a].heard
  BY <1>1, <1>3, Constants DEF Children, Known
<1>5. ~Collecting(a)
  BY <1>1 DEF Collecting
<1> HIDE DEF next
<1>6. QED
  BY <1>1, <1>2, <1>4, <1>5, QuietStepKeeps

LEMMA WrapUpKeeps == ASSUME IInv, NEW a \in Analysts, WrapUp(a) PROVE IInv'
<1> DEFINE child == [live.child[a] EXCEPT !.node = "done", !.known = Known(a)]
<1>1. /\ a \in slots /\ live.child[a].node = "wrap_up" /\ faults' = faults /\ ChildStep(a, child)
      /\ live.child[a] \in Children /\ Len(ledger[a]) \in Nat
  BY Typed DEF WrapUp, Works, IInv
<1>2. /\ child \in Children /\ child.known = Len(ledger[a]) /\ child.heard = live.child[a].heard
  BY <1>1 DEF Children, Known
<1>3. ~Collecting(a)
  BY <1>1 DEF Collecting
<1> HIDE DEF child
<1>4. QED
  BY <1>1, <1>2, <1>3, QuietStepKeeps

LEMMA ToolsTurnKeeps == ASSUME IInv, NEW a \in Analysts, ToolsTurn(a) PROVE IInv'
<1> DEFINE rounds == live.child[a].rounds + 1
           child == [node |-> MoreOrWrapUp(rounds), rounds |-> rounds, asked |-> {},
                     heard |-> Heard(a), known |-> Known(a)]
<1>1. /\ a \in slots /\ faults' = faults /\ ChildStep(a, child)
      /\ live.child[a] \in Children /\ Len(ledger[a]) \in Nat
  BY Typed DEF ToolsTurn, Collecting, Works, IInv
<1>2. rounds \in Nat /\ MoreOrWrapUp(rounds) \in {"agent", "wrap_up"}
  BY <1>1 DEF Children, MoreOrWrapUp
<1>3. child \in Children /\ child.known = Len(ledger[a]) /\ child.heard = Heard(a)
  BY <1>1, <1>2, HeardAll DEF Children, Known
<1> HIDE DEF child
<1>4. QED
  BY <1>1, <1>3, HeardAll, ChildStepKeeps

LEMMA PrefetchTurnKeeps == ASSUME IInv, NEW a \in Analysts, PrefetchTurn(a) PROVE IInv'
<1> DEFINE child == [live.child[a] EXCEPT !.node = "done", !.heard = Heard(a), !.known = Known(a)]
<1>1. /\ a \in slots /\ faults' = faults /\ ChildStep(a, child)
      /\ live.child[a] \in Children /\ Len(ledger[a]) \in Nat
  BY Typed DEF PrefetchTurn, Collecting, Works, IInv
<1>2. Heard(a) \in Seq(Nat)
  BY HeardAll
<1>3. child \in Children /\ child.known = Len(ledger[a]) /\ child.heard = Heard(a)
  BY <1>1, <1>2 DEF Children, Known
<1> HIDE DEF child
<1>4. QED
  BY <1>1, <1>3, HeardAll, ChildStepKeeps

LEMMA AnalystStartsKeeps == ASSUME IInv, NEW a \in Analysts, AnalystStarts(a) PROVE IInv'
<1>1. /\ process = "running" /\ live.stage = "analysts" /\ a \notin live.filed
      /\ slots' = slots \union {a}
      /\ UNCHANGED <<ledger, saved, live, process, results, unsaved, replay, paper, published, faults>>
  BY DEF AnalystStarts
<1>2. TypeOK'
  BY <1>1 DEF IInv, TypeOK
<1>3. ChildrenAreGood' /\ NothingIsMissed'
  BY <1>1 DEF IInv, ChildrenAreGood, GoodChild, NothingIsMissed, HasHeard
<1>4. ResultsAreNew'
  BY <1>1 DEF IInv, ResultsAreNew, HasHeard, Collecting, Works
<1>5. SlotsMatch' /\ ProcessMatches'
  BY <1>1 DEF IInv, SlotsMatch, ProcessMatches
<1>6. FrozenMatches' /\ FinalIsFinal' /\ RatingIsWarranted'
  BY <1>1 DEF IInv, FrozenMatches, FinalIsFinal, RatingIsWarranted, Shown
<1>7. QED
  BY <1>2, <1>3, <1>4, <1>5, <1>6 DEF IInv

LEMMA ReplayKeeps == ASSUME IInv, NEW a \in Analysts, NEW c \in Calls, Replay(a, c) PROVE IInv'
<1>1. /\ Collecting(a)
      /\ UNCHANGED <<ledger, saved, live, process, slots, unsaved, paper, published, faults>>
  BY DEF Replay
<1>2. PICK i \in replay[a] : /\ results' = [results EXCEPT ![a] = @ \union {i}]
                             /\ replay' = [replay EXCEPT ![a] = @ \ {i}]
  BY DEF Replay, Replayable
<1>3. /\ results'[a] = results[a] \union {i} /\ replay'[a] = replay[a] \ {i} /\ i \in Nat
      /\ \A b \in Analysts : b # a => results'[b] = results[b] /\ replay'[b] = replay[b]
  BY <1>2 DEF IInv, TypeOK
<1>4. TypeOK'
  BY <1>1, <1>2, <1>3 DEF IInv, TypeOK
<1>5. ChildrenAreGood' /\ SlotsMatch'
  BY <1>1 DEF IInv, ChildrenAreGood, GoodChild, SlotsMatch
<1>6. \A b \in Analysts : results'[b] \union replay'[b] = results[b] \union replay[b]
  BY <1>2, <1>3
<1>7. /\ \A b \in Analysts : Collecting(b)' <=> Collecting(b)
      /\ \A b \in Analysts : \A x : HasHeard(b, x)' <=> HasHeard(b, x)
  BY <1>1 DEF Collecting, Works, HasHeard
<1>8. ResultsAreNew'
  <2> SUFFICES ASSUME NEW b \in Analysts
               PROVE  /\ results'[b] \union replay'[b] \subseteq 1 .. Len(ledger[b])
                      /\ results'[b] \intersect replay'[b] = {}
                      /\ \A x \in results'[b] \union replay'[b] : ~HasHeard(b, x)
                      /\ results'[b] # {} => Collecting(b)
    BY <1>1, <1>7 DEF ResultsAreNew
  <2>1. results'[b] \intersect replay'[b] = {}
    BY <1>2, <1>3 DEF IInv, ResultsAreNew
  <2>2. results'[b] # {} => Collecting(b)
    BY <1>1, <1>3 DEF IInv, ResultsAreNew
  <2>3. QED
    BY <1>6, <2>1, <2>2 DEF IInv, ResultsAreNew
<1>9. NothingIsMissed'
  BY <1>1, <1>6, <1>7 DEF IInv, NothingIsMissed
<1>10. process = "running"
  BY <1>1 DEF Collecting, Works
<1>11. ProcessMatches'
  BY <1>1, <1>10 DEF ProcessMatches, Completing
<1>12. FrozenMatches' /\ FinalIsFinal' /\ RatingIsWarranted'
  BY <1>1 DEF IInv, FrozenMatches, FinalIsFinal, RatingIsWarranted, Shown
<1>13. QED
  BY <1>4, <1>5, <1>8, <1>9, <1>11, <1>12 DEF IInv

(* One more record on disk.                                                *)
LEMMA LedgerGrows ==
    ASSUME IInv, NEW a \in Analysts, NEW record \in Records,
           ledger' = [ledger EXCEPT ![a] = Append(@, record)]
    PROVE  /\ ledger' \in [Analysts -> Seq(Records)]
           /\ Len(ledger'[a]) = Len(ledger[a]) + 1 /\ Len(ledger[a]) \in Nat
           /\ \A b \in Analysts : b # a => ledger'[b] = ledger[b]
           /\ \A b \in Analysts : Len(ledger[b]) \in Nat /\ Len(ledger[b]) <= Len(ledger'[b])
<1>1. \A b \in Analysts : ledger[b] \in Seq(Records) /\ Len(ledger[b]) \in Nat
  BY Typed DEF IInv
<1>2. Append(ledger[a], record) \in Seq(Records) /\ Len(Append(ledger[a], record)) = Len(ledger[a]) + 1
  BY <1>1
<1>3. /\ ledger'[a] = Append(ledger[a], record)
      /\ \A b \in Analysts : b # a => ledger'[b] = ledger[b]
  BY DEF IInv, TypeOK
<1>4. ledger' \in [Analysts -> Seq(Records)]
  BY <1>2 DEF IInv, TypeOK
<1>5. ASSUME NEW b \in Analysts PROVE Len(ledger[b]) <= Len(ledger'[b])
  BY <1>1, <1>2, <1>3
<1>6. QED
  BY <1>1, <1>2, <1>3, <1>4, <1>5

LEMMA CaptureKeeps == ASSUME IInv, NEW a \in Analysts, NEW c \in Calls, Capture(a, c) PROVE IInv'
<1>1. /\ Collecting(a) /\ a \in slots /\ process = "running"
      /\ UNCHANGED <<saved, live, process, slots, unsaved, replay, paper, published, faults>>
      /\ results' = [results EXCEPT ![a] = @ \union {Len(ledger[a]) + 1}]
  BY DEF Capture, Collecting, Works
<1>2. PICK record \in Records : ledger' = [ledger EXCEPT ![a] = Append(@, record)]
  BY DEF Capture, Records
<1>3. /\ ledger' \in [Analysts -> Seq(Records)]
      /\ Len(ledger'[a]) = Len(ledger[a]) + 1 /\ Len(ledger[a]) \in Nat
      /\ \A b \in Analysts : b # a => ledger'[b] = ledger[b]
      /\ \A b \in Analysts : Len(ledger[b]) \in Nat /\ Len(ledger[b]) <= Len(ledger'[b])
  BY <1>2, LedgerGrows
<1> DEFINE new == Len(ledger[a]) + 1
<1>4. /\ results'[a] = results[a] \union {new} /\ new \in Nat
      /\ \A b \in Analysts : b # a => results'[b] = results[b]
  BY <1>1, <1>3 DEF IInv, TypeOK
<1>5. TypeOK'
  BY <1>1, <1>3, <1>4 DEF IInv, TypeOK
<1>6. ChildrenAreGood'
  <2> SUFFICES ASSUME NEW b \in Analysts
               PROVE  /\ live.child[b].known <= Len(ledger'[b])
                      /\ saved.state.child[b].known <= Len(ledger'[b])
    BY <1>1 DEF IInv, ChildrenAreGood, GoodChild
  <2>1. live.child[b].known \in Nat /\ saved.state.child[b].known \in Nat
    BY Typed DEF IInv
  <2>2. Len(ledger'[b]) \in Nat
    BY <1>3
  <2>3. QED
    BY <1>3, <2>1, <2>2 DEF IInv, ChildrenAreGood, GoodChild
<1>7. /\ \A b \in Analysts : Collecting(b)' <=> Collecting(b)
      /\ \A b \in Analysts : \A x : HasHeard(b, x)' <=> HasHeard(b, x)
  BY <1>1 DEF Collecting, Works, HasHeard
<1>8. ~HasHeard(a, new)
  <2>1. live.child[a].known \in Nat /\ live.child[a].known <= Len(ledger[a])
    BY Typed DEF IInv, ChildrenAreGood, GoodChild
  <2>2. \A k \in DOMAIN live.child[a].heard : live.child[a].heard[k] \in 1 .. live.child[a].known
    BY DEF IInv, ChildrenAreGood, GoodChild
  <2>3. QED
    BY <1>3, <2>1, <2>2 DEF HasHeard
<1>9. new \notin replay[a]
  BY <1>3 DEF IInv, ResultsAreNew
<1>10. ResultsAreNew'
  <2> SUFFICES ASSUME NEW b \in Analysts
               PROVE  /\ results'[b] \union replay[b] \subseteq 1 .. Len(ledger'[b])
                      /\ results'[b] \intersect replay[b] = {}
                      /\ \A x \in results'[b] \union replay[b] : ~HasHeard(b, x)
                      /\ results'[b] # {} => Collecting(b)
    BY <1>1, <1>7 DEF ResultsAreNew
  <2>1. CASE b = a
    BY <1>1, <1>3, <1>4, <1>8, <1>9, <2>1 DEF IInv, ResultsAreNew
  <2>2. CASE b # a
    BY <1>3, <1>4, <2>2 DEF IInv, ResultsAreNew
  <2>3. QED
    BY <2>1, <2>2
<1>11. NothingIsMissed'
  <2> SUFFICES ASSUME NEW b \in Analysts
               PROVE  /\ saved.state.child[b].known <= live.child[b].known
                      /\ \A i \in 1 .. Len(ledger'[b]) :
                           \/ i <= saved.state.child[b].known
                           \/ i \in results'[b] \union replay[b] \/ HasHeard(b, i)
    BY <1>1, <1>7 DEF NothingIsMissed
  <2>1. /\ saved.state.child[b].known <= live.child[b].known
        /\ \A i \in 1 .. Len(ledger[b]) :
             i <= saved.state.child[b].known \/ i \in results[b] \union replay[b] \/ HasHeard(b, i)
    BY <1>1 DEF IInv, NothingIsMissed
  <2>2. CASE b = a
    <3>1. \A i \in 1 .. Len(ledger'[b]) : i \in 1 .. Len(ledger[b]) \/ i = new
      BY <1>3, <2>2
    <3>2. QED
      BY <1>4, <2>1, <2>2, <3>1
  <2>3. CASE b # a
    BY <1>3, <1>4, <2>1, <2>3
  <2>4. QED
    BY <2>2, <2>3
<1>12. SlotsMatch' /\ ProcessMatches'
  BY <1>1 DEF IInv, SlotsMatch, ProcessMatches, Completing
<1>13. QED
  BY <1>1, <1>5, <1>6, <1>10, <1>11, <1>12, EarlyKept, WorkIsEarly DEF IInv

-----------------------------------------------------------------------------
(* Interruptions.                                                          *)

(* The process is down, with a good ledger and a good checkpoint.          *)
LEMMA DownIsGood ==
    ASSUME IInv, GoDown, ledger' \in [Analysts -> Seq(Records)],
           \A a \in Analysts : Len(ledger[a]) \in Nat /\ Len(ledger[a]) <= Len(ledger'[a]),
           saved' = saved \/ saved' = Flushed,
           UNCHANGED <<paper, published>>, faults' \in Nat
    PROVE  /\ TypeOK' /\ ChildrenAreGood' /\ ResultsAreNew' /\ NothingIsMissed'
           /\ SlotsMatch' /\ ProcessMatches'
<1>1. /\ process' = "down" /\ live' = NewState /\ slots' = {} /\ results' = Nothing /\ unsaved' = Nothing
      /\ replay' = Nothing
  BY DEF GoDown
<1>2. /\ saved' \in [begun : BOOLEAN, state : States]
      /\ saved'.state = saved.state \/ saved'.state = live
  <2>1. saved \in [begun : BOOLEAN, state : States] /\ live \in States
    BY DEF IInv, TypeOK
  <2>2. saved' = saved \/ saved' = [begun |-> TRUE, state |-> live]
    BY DEF Flushed, Checkpointed
  <2>3. CASE saved' = saved
    BY <2>1, <2>3
  <2>4. CASE saved' = [begun |-> TRUE, state |-> live]
    <3>1. saved'.begun = TRUE /\ saved'.state = live
      BY <2>4
    <3>2. saved' \in [begun : BOOLEAN, state : States]
      BY <2>1, <2>4
    <3>3. QED
      BY <3>1, <3>2
  <2>5. QED
    BY <2>2, <2>3, <2>4
<1>3. \A a \in Analysts : Nothing[a] = {}
  BY DEF Nothing
<1>4. TypeOK'
  BY <1>1, <1>2, NewStateTyped DEF IInv, TypeOK, Nothing
<1>5. ChildrenAreGood'
  <2>1. ASSUME NEW a \in Analysts, NEW child, GoodChild(a, child), child.known \in Nat
        PROVE  /\ \A k \in DOMAIN child.heard : child.heard[k] \in 1 .. child.known
               /\ \A k, l \in DOMAIN child.heard : child.heard[k] = child.heard[l] => k = l
               /\ child.known <= Len(ledger'[a])
    <3>1. child.known <= Len(ledger[a]) /\ Len(ledger[a]) <= Len(ledger'[a])
      BY <2>1 DEF GoodChild
    <3>2. Len(ledger'[a]) \in Nat /\ Len(ledger[a]) \in Nat
      BY <2>1
    <3>3. child.known <= Len(ledger'[a])
      BY <2>1, <3>1, <3>2
    <3>4. QED
      BY <2>1, <3>3 DEF GoodChild
  <2>2. ASSUME NEW a \in Analysts
        PROVE  /\ GoodChild(a, saved'.state.child[a]) /\ saved'.state.child[a].known \in Nat
               /\ GoodChild(a, live'.child[a]) /\ live'.child[a].known \in Nat
    <3>1. /\ GoodChild(a, live.child[a]) /\ GoodChild(a, saved.state.child[a])
          /\ saved.state.child[a].known \in Nat /\ live.child[a].known \in Nat
      BY Typed DEF IInv, ChildrenAreGood
    <3>2. GoodChild(a, NewChild) /\ NewChild.known \in Nat /\ live'.child[a] = NewChild
      BY <1>1, NewChildIsGood, NewStateTyped DEF IInv
    <3>3. QED
      BY <1>2, <3>1, <3>2
  <2>3. QED
    BY <2>1, <2>2 DEF ChildrenAreGood, GoodChild
<1>6. ResultsAreNew' /\ NothingIsMissed'
  BY <1>1, <1>3 DEF ResultsAreNew, NothingIsMissed
<1>7. SlotsMatch'
  BY <1>1, <1>2, NewStateTyped DEF IInv, SlotsMatch
<1>8. ProcessMatches'
  BY <1>1 DEF ProcessMatches, Completing
<1>9. QED
  BY <1>4, <1>5, <1>6, <1>7, <1>8

LEMMA CrashKeeps == ASSUME IInv, Crash PROVE IInv'
<1>1. /\ GoDown /\ process \notin {"down", "over"} /\ process' = "down"
      /\ UNCHANGED <<ledger, saved, paper, published>> /\ faults' \in Nat
  BY DEF Crash, GoDown, IInv, TypeOK
<1>2. ledger' \in [Analysts -> Seq(Records)]
      /\ \A a \in Analysts : Len(ledger[a]) \in Nat /\ Len(ledger[a]) <= Len(ledger'[a])
  BY <1>1, Typed DEF IInv, TypeOK
<1>3. FrozenMatches' /\ FinalIsFinal' /\ RatingIsWarranted'
  BY <1>1 DEF IInv, FrozenMatches, FinalIsFinal, RatingIsWarranted, Shown
<1>4. QED
  BY <1>1, <1>2, <1>3, DownIsGood DEF IInv

LEMMA CaptureFailsKeeps ==
    ASSUME IInv, NEW a \in Analysts, NEW c \in Calls, CaptureFails(a, c) PROVE IInv'
<1>1. /\ a \in slots /\ GoDown /\ saved' = Flushed
      /\ UNCHANGED <<paper, published>> /\ faults' \in Nat
  BY DEF CaptureFails, Collecting, Works, IInv, TypeOK
<1>2. PICK record \in Records : ledger' = [ledger EXCEPT ![a] = Append(@, record)]
  BY DEF CaptureFails, Records, Statuses
<1>3. ledger' \in [Analysts -> Seq(Records)]
      /\ \A b \in Analysts : Len(ledger[b]) \in Nat /\ Len(ledger[b]) <= Len(ledger'[b])
  BY <1>2, LedgerGrows
<1>4. QED
  BY <1>1, <1>3, WorkIsEarly, EarlyKept, DownIsGood DEF IInv

LEMMA UnsavedIsTextKeeps ==
    ASSUME IInv, NEW a \in Analysts, NEW c \in Calls, UnsavedIsText(a, c) PROVE IInv'
<1>1. /\ unsaved' = [unsaved EXCEPT ![a] = @ \union {c}] /\ faults' \in Nat
      /\ UNCHANGED <<ledger, saved, live, process, slots, results, replay, paper, published>>
  BY DEF UnsavedIsText, IInv, TypeOK
<1>2. unsaved' \in [Analysts -> SUBSET Calls]
  BY <1>1 DEF IInv, TypeOK
<1>3. TypeOK'
  BY <1>1, <1>2 DEF IInv, TypeOK
<1>4. ChildrenAreGood' /\ NothingIsMissed'
  BY <1>1 DEF IInv, ChildrenAreGood, GoodChild, NothingIsMissed, HasHeard
<1>5. ResultsAreNew'
  BY <1>1 DEF IInv, ResultsAreNew, HasHeard, Collecting, Works
<1>6. SlotsMatch' /\ ProcessMatches'
  BY <1>1 DEF IInv, SlotsMatch, ProcessMatches
<1>7. FrozenMatches' /\ FinalIsFinal' /\ RatingIsWarranted'
  BY <1>1 DEF IInv, FrozenMatches, FinalIsFinal, RatingIsWarranted, Shown
<1>8. QED
  BY <1>3, <1>4, <1>5, <1>6, <1>7 DEF IInv

LEMMA StartFreshKeeps == ASSUME IInv, StartFresh PROVE IInv'
<1>1. /\ process = "down" /\ process' = "running" /\ ~saved.begun /\ live' = NewState
      /\ ledger' = EmptyLedger /\ slots = {} /\ results = Nothing /\ replay = Nothing
      /\ UNCHANGED <<slots, results, unsaved, replay, paper, published, faults>>
  BY DEF StartFresh, IInv, SlotsMatch, ProcessMatches
<1>2. saved' \in [begun : BOOLEAN, state : States] /\ saved'.state = NewState
  BY NewStateTyped DEF StartFresh, EmptyCheckpoint
<1>3. /\ \A a \in Analysts : ledger'[a] = <<>> /\ Nothing[a] = {}
      /\ ledger' \in [Analysts -> Seq(Records)]
  BY <1>1 DEF EmptyLedger, Nothing
<1>4. TypeOK'
  BY <1>1, <1>2, <1>3, NewStateTyped DEF IInv, TypeOK
<1>5. ChildrenAreGood'
  <2>1. ASSUME NEW a \in Analysts PROVE GoodChild(a, NewChild)'
    BY <1>4, NewStateTyped, Typed DEF GoodChild
  <2>2. QED
    BY <1>1, <1>2, <2>1, NewStateTyped DEF ChildrenAreGood, GoodChild
<1>6. ResultsAreNew'
  BY <1>1, <1>3 DEF ResultsAreNew
<1>7. NothingIsMissed'
  BY <1>1, <1>2, <1>3, NewStateTyped DEF NothingIsMissed
<1>8. SlotsMatch' /\ ProcessMatches'
  BY <1>1, <1>2, NewStateTyped DEF SlotsMatch, ProcessMatches, Completing
<1>9. Shown = {}
  BY <1>1 DEF IInv, FrozenMatches
<1>10. QED
  BY <1>1, <1>4, <1>5, <1>6, <1>7, <1>8, <1>9, EarlyKept DEF IInv

LEMMA ResumeKeeps == ASSUME IInv, Resume PROVE IInv'
<1>1. /\ process = "down" /\ process' = "running" /\ saved.begun /\ live' = saved.state
      /\ slots = {} /\ results = Nothing
      /\ replay' = [a \in Analysts |-> Uncheckpointed(a)]
      /\ UNCHANGED <<ledger, saved, slots, results, unsaved, paper, published, faults>>
  BY DEF Resume, IInv, SlotsMatch, ProcessMatches
<1>2. ASSUME NEW a \in Analysts
      PROVE  /\ replay'[a] = (saved.state.child[a].known + 1) .. Len(ledger[a])
             /\ Nothing[a] = {}
             /\ saved.state.child[a].known \in Nat /\ Len(ledger[a]) \in Nat
             /\ GoodChild(a, saved.state.child[a])
  BY <1>1, Typed DEF Uncheckpointed, Committed, Nothing, IInv, ChildrenAreGood
<1>3. ASSUME NEW a \in Analysts
      PROVE  /\ replay'[a] \subseteq Nat /\ replay'[a] \subseteq 1 .. Len(ledger[a])
             /\ \A i \in replay'[a] : ~(i \in 1 .. saved.state.child[a].known)
  <2> DEFINE known == saved.state.child[a].known
             length == Len(ledger[a])
  <2>1. replay'[a] = (known + 1) .. length /\ known \in Nat /\ length \in Nat
    BY <1>2
  <2> HIDE DEF known, length
  <2>2. ASSUME NEW i \in replay'[a] PROVE i \in Nat /\ i \in 1 .. length /\ ~(i \in 1 .. known)
    BY <2>1
  <2>3. QED
    BY <2>2 DEF known, length
<1>4. TypeOK'
  <2>1. replay' \in [Analysts -> SUBSET Nat]
    BY <1>1, <1>3
  <2>2. QED
    BY <1>1, <2>1 DEF IInv, TypeOK
<1>5. ChildrenAreGood'
  BY <1>1 DEF IInv, ChildrenAreGood, GoodChild
<1>6. ResultsAreNew'
  <2> SUFFICES ASSUME NEW a \in Analysts
               PROVE  /\ replay'[a] \subseteq 1 .. Len(ledger[a])
                      /\ \A i \in replay'[a] : \A k \in DOMAIN saved.state.child[a].heard :
                           saved.state.child[a].heard[k] # i
    BY <1>1, <1>2 DEF ResultsAreNew, HasHeard
  <2>1. \A k \in DOMAIN saved.state.child[a].heard :
          saved.state.child[a].heard[k] \in 1 .. saved.state.child[a].known
    BY <1>2 DEF GoodChild
  <2>2. QED
    BY <1>3, <2>1
<1>7. NothingIsMissed'
  <2> SUFFICES ASSUME NEW a \in Analysts
               PROVE  /\ saved.state.child[a].known <= saved.state.child[a].known
                      /\ \A i \in 1 .. Len(ledger[a]) :
                           i <= saved.state.child[a].known \/ i \in replay'[a]
    BY <1>1 DEF NothingIsMissed
  <2>1. QED
    BY <1>2
<1>8. SlotsMatch' /\ ProcessMatches'
  BY <1>1 DEF IInv, SlotsMatch, ProcessMatches, Completing
<1>9. FrozenMatches' /\ FinalIsFinal' /\ RatingIsWarranted'
  BY <1>1 DEF IInv, FrozenMatches, FinalIsFinal, RatingIsWarranted, Shown
<1>10. QED
  BY <1>4, <1>5, <1>6, <1>7, <1>8, <1>9 DEF IInv

-----------------------------------------------------------------------------
(* The run as a whole.                                                     *)

(* A step that leaves the private graphs of memory as they are.            *)
LEMMA ChildrenKept ==
    ASSUME IInv, process # "down", UNCHANGED <<ledger, results, replay>>,
           \A b \in Analysts : live'.child[b] = live.child[b],
           \A b \in Analysts : saved'.state.child[b] \in {saved.state.child[b], live.child[b]},
           \A b \in Analysts : results[b] # {} => Collecting(b)'
    PROVE  ChildrenAreGood' /\ ResultsAreNew' /\ NothingIsMissed'
<1>1. \A b \in Analysts : \A x : HasHeard(b, x)' <=> HasHeard(b, x)
  BY DEF HasHeard
<1>2. ChildrenAreGood'
  <2>1. ASSUME NEW b \in Analysts
        PROVE  GoodChild(b, live'.child[b]) /\ GoodChild(b, saved'.state.child[b])
    BY DEF IInv, ChildrenAreGood
  <2>2. QED
    BY <2>1 DEF ChildrenAreGood, GoodChild
<1>3. ResultsAreNew'
  BY <1>1 DEF IInv, ResultsAreNew
<1>4. NothingIsMissed'
  <2> SUFFICES ASSUME NEW b \in Analysts
               PROVE  /\ saved'.state.child[b].known <= live.child[b].known
                      /\ \A i \in 1 .. Len(ledger[b]) :
                           \/ i <= saved'.state.child[b].known
                           \/ i \in results[b] \union replay[b] \/ HasHeard(b, i)
    BY <1>1 DEF NothingIsMissed
  <2>1. /\ saved.state.child[b].known <= live.child[b].known
        /\ saved.state.child[b].known \in Nat /\ live.child[b].known \in Nat
        /\ \A i \in 1 .. Len(ledger[b]) :
             i <= saved.state.child[b].known \/ i \in results[b] \union replay[b] \/ HasHeard(b, i)
    BY Typed DEF IInv, NothingIsMissed
  <2>2. CASE saved'.state.child[b] = saved.state.child[b]
    BY <2>1, <2>2
  <2>3. CASE saved'.state.child[b] = live.child[b]
    BY <2>1, <2>3
  <2>4. QED
    BY <2>2, <2>3
<1>5. QED
  BY <1>2, <1>3, <1>4

LEMMA FileKeeps == ASSUME IInv, NEW a \in Analysts, File(a) PROVE IInv'
<1> DEFINE filed == live.filed \union {a}
           stage == IF filed = Analysts THEN "debate" ELSE "analysts"
           state == [saved.state EXCEPT !.filed = @ \union {a}, !.child[a] = live.child[a]]
<1>1. /\ a \in slots /\ process = "running" /\ live.child[a].node = "done"
      /\ slots' = slots \ {a}
      /\ live' = [live EXCEPT !.filed = filed, !.stage = stage]
      /\ \/ saved' = Checkpointed(IF stage = "debate" THEN live' ELSE state)
         \/ saved' = saved
      /\ UNCHANGED <<ledger, process, results, unsaved, replay, paper, published, faults>>
  BY DEF File, Works
<1>2. /\ live \in States /\ saved.state \in States
      /\ saved \in [begun : BOOLEAN, state : States]
      /\ live.child[a] \in Children
  BY Typed DEF IInv, TypeOK
<1>3. /\ stage \in {"analysts", "debate"} /\ filed \in SUBSET Analysts
      /\ stage # "analysts" => filed = Analysts
  BY <1>2 DEF States
<1> HIDE DEF stage, filed
<1>4. /\ live' \in States /\ live'.filed = filed /\ live'.stage = stage
      /\ live'.child = live.child
  BY <1>1, <1>2, <1>3 DEF States, Stages
<1>5. /\ state \in States /\ state.stage = saved.state.stage
      /\ state.filed = saved.state.filed \union {a} /\ state.child[a] = live.child[a]
      /\ \A b \in Analysts : b # a => state.child[b] = saved.state.child[b]
  BY <1>2 DEF States
<1> HIDE DEF state
<1>6. saved' = saved \/ saved' = Checkpointed(live') \/ saved' = Checkpointed(state)
  BY <1>1
<1>7. /\ saved' \in [begun : BOOLEAN, state : States]
      /\ \A b \in Analysts : saved'.state.child[b] \in {saved.state.child[b], live.child[b]}
      /\ saved'.state.stage # "analysts" => saved'.state.filed = Analysts
  <2>1. CASE saved' = saved
    BY <1>2, <2>1 DEF IInv, SlotsMatch
  <2>2. CASE saved' = Checkpointed(live')
    <3>1. saved' = [begun |-> TRUE, state |-> live'] /\ saved'.state = live'
      BY <2>2 DEF Checkpointed
    <3>2. QED
      BY <1>3, <1>4, <3>1
  <2>3. CASE saved' = Checkpointed(state)
    <3>1. saved' = [begun |-> TRUE, state |-> state] /\ saved'.state = state
      BY <2>3 DEF Checkpointed
    <3>2. saved.state.stage # "analysts" => saved.state.filed = Analysts
      BY DEF IInv, SlotsMatch
    <3>3. QED
      BY <1>5, <3>1, <3>2
  <2>4. QED
    BY <1>6, <2>1, <2>2, <2>3
<1>8. TypeOK'
  BY <1>1, <1>4, <1>7 DEF IInv, TypeOK
<1>9. results[a] = {}
  BY <1>1, IdleHasNoResults DEF Collecting
<1>10. \A b \in Analysts : results[b] # {} => Collecting(b)'
  BY <1>1, <1>4, <1>9 DEF IInv, ResultsAreNew, Collecting, Works
<1>11. ChildrenAreGood' /\ ResultsAreNew' /\ NothingIsMissed'
  BY <1>1, <1>4, <1>7, <1>10, ChildrenKept
<1>12. SlotsMatch'
  BY <1>1, <1>3, <1>4, <1>7 DEF IInv, SlotsMatch, filed
<1>13. ProcessMatches'
  BY <1>1 DEF ProcessMatches, Completing
<1>14. QED
  BY <1>1, <1>8, <1>11, <1>12, <1>13, EarlyKept, WorkIsEarly DEF IInv

(* After the analysts.                                                     *)
LEMMA NobodyWorks ==
    ASSUME IInv, live.stage # "analysts"
    PROVE  slots = {} /\ \A a \in Analysts : results[a] = {}
<1>1. slots = {}
  BY DEF IInv, TypeOK, SlotsMatch
<1>2. QED
  BY <1>1, IdleHasNoResults DEF Collecting, Works

LEMMA ParentStepKeeps ==
    ASSUME IInv, NEW state \in States, ParentStep(state),
           live.stage \notin {"analysts", "ended"}, state.stage # "analysts",
           state.child = live.child, state.filed = live.filed
    PROVE  IInv'
<1>1. /\ process = "running" /\ live' = state
      /\ saved' = [begun |-> TRUE, state |-> state] \/ saved' = saved
      /\ UNCHANGED <<ledger, process, slots, results, unsaved, replay, paper, published, faults>>
  BY DEF ParentStep, Checkpointed
<1>2. slots = {} /\ live.filed = Analysts /\ \A a \in Analysts : results[a] = {}
  BY NobodyWorks DEF IInv, SlotsMatch
<1>3. Shown = {}
  BY <1>1 DEF IInv, FrozenMatches
<1>4. /\ saved' \in [begun : BOOLEAN, state : States]
      /\ saved'.state = state \/ saved'.state = saved.state
  <2>1. CASE saved' = saved
    BY <2>1 DEF IInv, TypeOK
  <2>2. CASE saved' = [begun |-> TRUE, state |-> state]
    <3>1. saved'.state = state
      BY <2>2
    <3>2. saved' \in [begun : BOOLEAN, state : States]
      BY <2>2
    <3>3. QED
      BY <3>1, <3>2
  <2>3. QED
    BY <1>1, <2>1, <2>2
<1>5. TypeOK'
  BY <1>1, <1>4 DEF IInv, TypeOK
<1>6. ChildrenAreGood' /\ ResultsAreNew' /\ NothingIsMissed'
  BY <1>1, <1>2, <1>4, ChildrenKept
<1>7. SlotsMatch'
  BY <1>1, <1>2, <1>4 DEF IInv, SlotsMatch
<1>8. ProcessMatches'
  BY <1>1 DEF ProcessMatches, Completing
<1>9. QED
  BY <1>1, <1>3, <1>5, <1>6, <1>7, <1>8, EarlyKept DEF IInv

LEMMA SpeakKeeps ==
    ASSUME IInv, NEW stage, NEW turns, NEW next \in Stages, next # "analysts",
           stage \notin {"analysts", "ended"}, Speak(stage, turns, next)
    PROVE  IInv'
<1> DEFINE ended == [live EXCEPT !.stage = next, !.turns = 0]
           spoken == [live EXCEPT !.turns = @ + 1]
<1>1. live \in States /\ live.stage = stage /\ live.turns \in Nat
  BY DEF IInv, TypeOK, States, Speak
<1>2. ParentStep(ended) \/ ParentStep(spoken)
  BY DEF Speak
<1>3. /\ ended \in States /\ ended.stage # "analysts"
      /\ ended.child = live.child /\ ended.filed = live.filed
  BY <1>1 DEF States
<1>4. /\ spoken \in States /\ spoken.stage # "analysts"
      /\ spoken.child = live.child /\ spoken.filed = live.filed
  BY <1>1 DEF States
<1> HIDE DEF ended, spoken
<1>5. QED
  BY <1>1, <1>2, <1>3, <1>4, ParentStepKeeps

LEMMA ManageKeeps == ASSUME IInv, Manage PROVE IInv'
<1>1. PICK rating \in IF Ready THEN {"directional", "REVIEW"} ELSE {"REVIEW"} :
        \E text \in IF rating = "directional" THEN {1, 2} ELSE {0} :
          ParentStep([live EXCEPT !.stage = "ended",
                        !.final = [rating |-> rating, text |-> text, inputs |-> Inputs]])
  BY Zenon DEF Manage
<1>2. PICK text \in IF rating = "directional" THEN {1, 2} ELSE {0} :
        ParentStep([live EXCEPT !.stage = "ended",
                      !.final = [rating |-> rating, text |-> text, inputs |-> Inputs]])
  BY <1>1, Zenon
<1>3. rating \in {"directional", "REVIEW"} /\ text \in 0 .. 2
  OBVIOUS
<1> DEFINE final == [rating |-> rating, text |-> text, inputs |-> Inputs]
           state == [live EXCEPT !.stage = "ended", !.final = final]
<1>4. Inputs \in [Analysts -> Nat]
  BY Typed DEF Inputs, IInv
<1>5. final \in Finals
  BY <1>3, <1>4 DEF Finals
<1>6. live \in States /\ live.stage = "portfolio" /\ ParentStep(state)
  BY <1>2 DEF Manage, IInv, TypeOK
<1> HIDE DEF final
<1>7. /\ state \in States /\ state.stage # "analysts"
      /\ state.child = live.child /\ state.filed = live.filed
  BY <1>5, <1>6 DEF States, Stages
<1> HIDE DEF state
<1>8. QED
  BY <1>6, <1>7, ParentStepKeeps

-----------------------------------------------------------------------------
(* Completion.                                                             *)

(* When the graph has run, its checkpoint holds what memory holds.         *)
LEMMA AtTheEnd ==
    ASSUME IInv, process \in Completing, process # "over"
    PROVE  /\ live.stage = "ended" /\ saved.state = live /\ saved.begun
           /\ slots = {} /\ \A a \in Analysts : results[a] = {}
           /\ live \in States /\ live.filed = Analysts
<1>1. live.stage = "ended" /\ saved.state = live /\ saved.begun /\ live \in States
  BY DEF IInv, TypeOK, ProcessMatches
<1>2. QED
  BY <1>1, NobodyWorks DEF IInv, SlotsMatch

LEMMA StreamEndsKeeps == ASSUME IInv, StreamEnds PROVE IInv'
<1>1. /\ process = "running" /\ process' = "decision" /\ live.stage = "ended"
      /\ saved' = [begun |-> TRUE, state |-> live] /\ live \in States
      /\ UNCHANGED <<ledger, live, slots, results, unsaved, replay, paper, published, faults>>
  BY DEF StreamEnds, Flushed, Checkpointed, IInv, TypeOK
<1>2. slots = {} /\ live.filed = Analysts /\ \A a \in Analysts : results[a] = {}
  BY <1>1, NobodyWorks DEF IInv, SlotsMatch
<1>3. saved'.begun /\ saved'.state = live /\ saved' \in [begun : BOOLEAN, state : States]
  BY <1>1
<1>4. TypeOK'
  BY <1>1, <1>3 DEF IInv, TypeOK, Completing
<1>5. ChildrenAreGood' /\ ResultsAreNew' /\ NothingIsMissed'
  BY <1>1, <1>2, <1>3, ChildrenKept
<1>6. SlotsMatch' /\ ProcessMatches'
  BY <1>1, <1>2, <1>3 DEF SlotsMatch, ProcessMatches
<1>7. Shown' = Shown /\ (Shown # {} => saved.state = live)
  BY <1>1 DEF IInv, FrozenMatches, Shown
<1>8. FrozenMatches' /\ FinalIsFinal' /\ RatingIsWarranted'
  BY <1>1, <1>3, <1>7 DEF IInv, FrozenMatches, FinalIsFinal, RatingIsWarranted
<1>9. QED
  BY <1>4, <1>5, <1>6, <1>8 DEF IInv

LEMMA AfterParts ==
    /\ After("decision") = "completion" /\ After("completion") = "snapshot"
    /\ After("snapshot") = "identity" /\ After("identity") = "frozen"
<1>1. /\ DOMAIN Parts = 1 .. 4 /\ Len(Parts) = 4 /\ Parts[1] = "decision"
      /\ Parts[2] = "completion" /\ Parts[3] = "snapshot" /\ Parts[4] = "identity"
  BY DEF Parts
<1>2. ASSUME NEW i \in 1 .. 4 PROVE (CHOOSE j \in DOMAIN Parts : Parts[j] = Parts[i]) = i
  <2>1. \A j \in 1 .. 4 : Parts[j] = Parts[i] => j = i
    BY <1>1
  <2>2. QED
    BY <1>1, <2>1
<1>3. QED
  BY <1>1, <1>2 DEF After

LEMMA FreezeKeeps == ASSUME IInv, NEW part \in DOMAIN paper, Freeze(part) PROVE IInv'
<1>1. /\ part \in {"decision", "completion", "snapshot", "identity"} /\ process = part
      /\ UNCHANGED <<ledger, saved, published, faults>>
  BY PartNames DEF Freeze, IInv, TypeOK
<1>2. /\ live.stage = "ended" /\ saved.state = live /\ saved.begun
      /\ slots = {} /\ \A a \in Analysts : results[a] = {}
      /\ live \in States /\ live.filed = Analysts
  BY <1>1, AtTheEnd DEF Completing
<1>3. CASE ~Accepts(part, live.final)
  <2>1. GoDown /\ UNCHANGED paper
    BY <1>3 DEF Freeze
  <2>2. process' = "down" /\ Shown' = Shown
    BY <1>1, <2>1 DEF GoDown, Shown
  <2>3. FrozenMatches' /\ FinalIsFinal' /\ RatingIsWarranted'
    BY <1>1, <1>2, <2>2 DEF IInv, FrozenMatches, FinalIsFinal, RatingIsWarranted
  <2>4. /\ ledger' \in [Analysts -> Seq(Records)] /\ faults' \in Nat
        /\ \A a \in Analysts : Len(ledger[a]) \in Nat /\ Len(ledger[a]) <= Len(ledger'[a])
    BY <1>1, Typed DEF IInv, TypeOK
  <2>5. QED
    BY <1>1, <2>1, <2>3, <2>4, DownIsGood DEF IInv
<1>4. CASE Accepts(part, live.final)
  <2>1. /\ paper' = [paper EXCEPT ![part] = live.final] /\ process' = After(part)
        /\ UNCHANGED <<live, slots, results, unsaved, replay>>
    BY <1>4 DEF Freeze, Written
  <2>2. /\ process' \in {"completion", "snapshot", "identity", "frozen"}
        /\ live.final \in Finals \union {None}
    BY <1>1, <1>2, <2>1, AfterParts DEF States
  <2>3. TypeOK'
    BY <1>1, <2>1, <2>2 DEF IInv, TypeOK, Completing
  <2>4. ChildrenAreGood' /\ ResultsAreNew' /\ NothingIsMissed'
    BY <1>1, <1>2, <2>1, ChildrenKept
  <2>5. SlotsMatch'
    BY <1>1, <1>2, <2>1 DEF SlotsMatch
  <2>6. paper'["decision"] = live.final
    BY <1>1, <2>1, PartNames DEF IInv, TypeOK, ProcessMatches, Completing
  <2>7. ProcessMatches'
    BY <1>1, <1>2, <2>1, <2>2, <2>6 DEF ProcessMatches
  <2>8. Shown' \subseteq Shown \union {live.final}
    BY <1>1, <2>1 DEF Shown, IInv, TypeOK
  <2>9. FinalIsFinal'
    BY <1>1, <1>2, <2>8 DEF IInv, FinalIsFinal
  <2>10. live.final.rating = "directional" => Ready
    BY <1>4 DEF Accepts, Consistent
  <2>11. RatingIsWarranted'
    BY <1>1, <2>8, <2>10 DEF IInv, RatingIsWarranted, Ready
  <2>12. FrozenMatches'
    BY <1>1, <1>2, <2>1 DEF FrozenMatches
  <2>13. QED
    BY <2>3, <2>4, <2>5, <2>7, <2>9, <2>11, <2>12 DEF IInv
<1>5. QED
  BY <1>3, <1>4

LEMMA PublishKeeps == ASSUME IInv, Publish PROVE IInv'
<1>1. /\ process = "frozen" /\ process' = "completed"
      /\ published' = published \union {live.final}
      /\ UNCHANGED <<ledger, saved, live, slots, results, unsaved, replay, paper, faults>>
  BY DEF Publish
<1>2. /\ live.stage = "ended" /\ saved.state = live /\ saved.begun
      /\ slots = {} /\ \A a \in Analysts : results[a] = {}
      /\ live \in States /\ live.filed = Analysts
  BY <1>1, AtTheEnd DEF Completing
<1>3. live.final \in Finals \union {None}
  BY <1>2 DEF States
<1>4. TypeOK'
  BY <1>1, <1>3 DEF IInv, TypeOK, Completing
<1>5. ChildrenAreGood' /\ ResultsAreNew' /\ NothingIsMissed'
  BY <1>1, <1>2, ChildrenKept
<1>6. paper["decision"] = live.final
  BY <1>1 DEF IInv, ProcessMatches, Completing
<1>7. SlotsMatch' /\ ProcessMatches'
  BY <1>1, <1>2, <1>6 DEF SlotsMatch, ProcessMatches
<1>8. "decision" \in DOMAIN paper
  BY PartNames DEF IInv, TypeOK
<1>9. Shown' = Shown
  BY <1>1, <1>6, <1>8 DEF Shown
<1>10. FrozenMatches' /\ FinalIsFinal' /\ RatingIsWarranted'
  BY <1>1, <1>2, <1>9 DEF IInv, FrozenMatches, FinalIsFinal, RatingIsWarranted
<1>11. QED
  BY <1>4, <1>5, <1>7, <1>10 DEF IInv

LEMMA ClearCheckpointKeeps == ASSUME IInv, ClearCheckpoint PROVE IInv'
<1>1. /\ process = "completed" /\ process' = "over"
      /\ saved' = [saved EXCEPT !.begun = FALSE]
      /\ UNCHANGED <<ledger, live, slots, results, unsaved, replay, paper, published, faults>>
  BY DEF ClearCheckpoint
<1>2. /\ live.stage = "ended" /\ saved.state = live /\ saved.begun
      /\ slots = {} /\ \A a \in Analysts : results[a] = {}
      /\ live \in States /\ live.filed = Analysts
  BY <1>1, AtTheEnd DEF Completing
<1>3. saved'.state = saved.state /\ saved' \in [begun : BOOLEAN, state : States]
  BY <1>1 DEF IInv, TypeOK
<1>4. TypeOK'
  BY <1>1, <1>3 DEF IInv, TypeOK, Completing
<1>5. ChildrenAreGood' /\ ResultsAreNew' /\ NothingIsMissed'
  BY <1>1, <1>2, <1>3, ChildrenKept
<1>6. SlotsMatch' /\ ProcessMatches'
  BY <1>1, <1>2, <1>3 DEF IInv, SlotsMatch, ProcessMatches, Completing
<1>7. Shown' = Shown
  BY <1>1 DEF Shown
<1>8. FrozenMatches' /\ FinalIsFinal' /\ RatingIsWarranted'
  BY <1>1, <1>2, <1>3, <1>7 DEF IInv, FrozenMatches, FinalIsFinal, RatingIsWarranted
<1>9. QED
  BY <1>4, <1>5, <1>6, <1>8 DEF IInv

-----------------------------------------------------------------------------
(* The theorems.                                                           *)

LEMMA InitHolds == ASSUME Init PROVE IInv
<1>1. /\ ledger = EmptyLedger /\ saved = EmptyCheckpoint /\ live = NewState
      /\ process = "down" /\ slots = {} /\ results = Nothing /\ unsaved = Nothing
      /\ replay = Nothing
      /\ paper = [p \in {Parts[i] : i \in DOMAIN Parts} |-> None]
      /\ published = {} /\ faults = 0
  BY DEF Init
<1>2. saved.state = NewState /\ saved \in [begun : BOOLEAN, state : States]
  BY <1>1, NewStateTyped DEF EmptyCheckpoint
<1>3. /\ \A a \in Analysts : Nothing[a] = {}
      /\ Nothing \in [Analysts -> SUBSET Nat] /\ Nothing \in [Analysts -> SUBSET Calls]
      /\ EmptyLedger \in [Analysts -> Seq(Records)]
  BY DEF Nothing, EmptyLedger
<1>4. TypeOK
  BY <1>1, <1>2, <1>3, NewStateTyped DEF TypeOK
<1>5. ChildrenAreGood
  BY <1>1, <1>2, <1>4, NewStateTyped, NewChildIsGood DEF ChildrenAreGood
<1>6. ResultsAreNew /\ NothingIsMissed
  BY <1>1, <1>3 DEF ResultsAreNew, NothingIsMissed
<1>7. SlotsMatch /\ ProcessMatches
  BY <1>1, <1>2, NewStateTyped DEF SlotsMatch, ProcessMatches, Completing
<1>8. Shown = {}
  BY <1>1 DEF Shown
<1>9. QED
  BY <1>4, <1>5, <1>6, <1>7, <1>8 DEF IInv, FrozenMatches, FinalIsFinal, RatingIsWarranted

LEMMA SaysSpeak ==
    ASSUME IInv, Debate \/ Plan \/ Trade \/ RiskDebate PROVE IInv'
<1>1. CASE Debate
  BY <1>1, SpeakKeeps DEF Debate, Stages
<1>2. CASE Plan
  BY <1>2, SpeakKeeps DEF Plan, Stages
<1>3. CASE Trade
  BY <1>3, SpeakKeeps DEF Trade, Stages
<1>4. CASE RiskDebate
  BY <1>4, SpeakKeeps DEF RiskDebate, Stages
<1>5. QED
  BY <1>1, <1>2, <1>3, <1>4

LEMMA NextKeeps == ASSUME IInv, Next PROVE IInv'
<1>1. CASE StartFresh \/ Resume
  BY <1>1, StartFreshKeeps, ResumeKeeps
<1>2. ASSUME NEW a \in Analysts,
             \/ AnalystStarts(a) \/ AgentTurn(a) \/ ToolsTurn(a) \/ WrapUp(a)
             \/ PrefetchTurn(a) \/ File(a)
      PROVE  IInv'
  BY <1>2, AnalystStartsKeeps, AgentTurnKeeps, ToolsTurnKeeps, WrapUpKeeps,
     PrefetchTurnKeeps, FileKeeps
<1>3. ASSUME NEW a \in Analysts, NEW c \in Calls,
             Replay(a, c) \/ Capture(a, c) \/ CaptureFails(a, c) \/ UnsavedIsText(a, c)
      PROVE  IInv'
  BY <1>3, ReplayKeeps, CaptureKeeps, CaptureFailsKeeps, UnsavedIsTextKeeps
<1>4. CASE Debate \/ Plan \/ Trade \/ RiskDebate \/ Manage
  BY <1>4, SaysSpeak, ManageKeeps
<1>5. CASE StreamEnds \/ Publish \/ ClearCheckpoint \/ Crash
  BY <1>5, StreamEndsKeeps, PublishKeeps, ClearCheckpointKeeps, CrashKeeps
<1>6. ASSUME NEW p \in DOMAIN paper, Freeze(p) PROVE IInv'
  BY <1>6, FreezeKeeps
<1>7. QED
  BY <1>1, <1>2, <1>3, <1>4, <1>5, <1>6 DEF Next, Progress, Fault

LEMMA StutterKeeps == ASSUME IInv, UNCHANGED vars PROVE IInv'
<1>1. UNCHANGED <<ledger, saved, live, process, slots, results, unsaved, replay, paper, published, faults>>
  BY DEF vars
<1>2. TypeOK' /\ ChildrenAreGood' /\ NothingIsMissed'
  BY <1>1 DEF IInv, TypeOK, ChildrenAreGood, GoodChild, NothingIsMissed, HasHeard
<1>3. ResultsAreNew'
  BY <1>1 DEF IInv, ResultsAreNew, HasHeard, Collecting, Works
<1>4. SlotsMatch' /\ ProcessMatches'
  BY <1>1 DEF IInv, SlotsMatch, ProcessMatches
<1>5. FrozenMatches' /\ FinalIsFinal' /\ RatingIsWarranted'
  BY <1>1 DEF IInv, FrozenMatches, FinalIsFinal, RatingIsWarranted, Shown
<1>6. QED
  BY <1>2, <1>3, <1>4, <1>5 DEF IInv

(* The invariant of every run, however often it is interrupted: memory,    *)
(* ledger and checkpoint agree, and what is frozen is the checkpoint's     *)
(* decision.                                                               *)
THEOREM Invariance == Spec => []IInv
<1>1. Init => IInv
  BY InitHolds
<1>2. IInv /\ [Next]_vars => IInv'
  BY NextKeeps, StutterKeeps
<1>3. QED
  BY <1>1, <1>2, PTL DEF Spec

(* Every variable keeps its type; what is restored is a state of the graph. *)
THEOREM TypeCorrect == Spec => []TypeOK
<1>1. IInv => TypeOK
  BY DEF IInv
<1>2. QED
  BY <1>1, Invariance, PTL

(* What a model was shown can be cited and resolved, in memory and in the  *)
(* checkpoint, whenever the run is interrupted (emit_turn, capture).       *)
THEOREM WhatIsShownCanBeCited == Spec => []CitationsResolve
<1>1. ASSUME IInv PROVE CitationsResolve
  <2>1. ASSUME NEW state \in {live, saved.state}, NEW a \in Analysts
        PROVE  /\ \A i \in DOMAIN state.child[a].heard :
                    state.child[a].heard[i] <= state.child[a].known
               /\ state.child[a].known <= Len(ledger[a])
    <3>1. GoodChild(a, state.child[a]) /\ state.child[a].known \in Nat
      BY <1>1, Typed DEF IInv, ChildrenAreGood
    <3>2. QED
      BY <3>1 DEF GoodChild
  <2>2. QED
    BY <2>1 DEF CitationsResolve
<1>2. QED
  BY <1>1, Invariance, PTL

(* No record is given to an analyst twice, also not the ones that are      *)
(* replayed after an interruption (restore, capture).                      *)
THEOREM ReplayedOnce == Spec => []NothingHeardTwice
<1>1. ASSUME IInv PROVE NothingHeardTwice
  BY <1>1, HeardAll DEF NothingHeardTwice
<1>2. QED
  BY <1>1, Invariance, PTL

(* A recommendation that is frozen or shown is allowed by every record of  *)
(* the run (gated_portfolio_manager, record_decision).                     *)
THEOREM OnlyWarrantedIsShown == Spec => []RatingIsWarranted
<1>1. IInv => RatingIsWarranted
  BY DEF IInv
<1>2. QED
  BY <1>1, Invariance, PTL

(* All parts of a completion, and every showing of it, are of the one      *)
(* decision that the checkpoint holds (record_decision, run).              *)
THEOREM OneDecisionIsShown == Spec => []FinalIsFinal
<1>1. IInv => FinalIsFinal
  BY DEF IInv
<1>2. QED
  BY <1>1, Invariance, PTL

(* Only a call to the vendors writes to the ledger.                        *)
LEMMA ChildStepWritesNothing ==
    ASSUME NEW a, NEW child, ChildStep(a, child) PROVE ledger' = ledger
BY DEF ChildStep

LEMMA ParentStepWritesNothing == ASSUME NEW state, ParentStep(state) PROVE ledger' = ledger
BY DEF ParentStep

(* A vendor is not asked again for what is on disk and was neither handed  *)
(* on nor checkpointed (restore, capture).                                 *)
THEOREM WhatIsOnDiskIsReplayed == Spec => CapturesAreReplayed
<1> DEFINE Asked ==
      \A a \in Analysts : \A i \in 1 .. Len(ledger[a]) :
         /\ Len(ledger'[a]) > Len(ledger[a])
         /\ ledger[a][i].call = ledger'[a][Len(ledger'[a])].call
         => \/ i <= saved.state.child[a].known
            \/ i \in results[a]
            \/ \E k \in DOMAIN live.child[a].heard : live.child[a].heard[k] = i
<1>1. ASSUME IInv, ledger' = ledger PROVE Asked
  BY <1>1, Typed DEF IInv
<1>2. ASSUME IInv, NEW a \in Analysts, NEW c \in Calls, Collecting(a), Replayable(a, c) = {},
             NEW status \in Statuses,
             ledger' = [ledger EXCEPT ![a] = Append(@, [call |-> c, status |-> status])]
      PROVE  Asked
  <2> DEFINE record == [call |-> c, status |-> status]
  <2>1. record \in Records
    BY DEF Records
  <2>2. /\ Len(ledger'[a]) = Len(ledger[a]) + 1 /\ Len(ledger[a]) \in Nat
        /\ \A b \in Analysts : b # a => ledger'[b] = ledger[b]
        /\ \A b \in Analysts : Len(ledger[b]) \in Nat
    BY <1>2, <2>1, LedgerGrows
  <2>3. ledger'[a][Len(ledger'[a])] = record /\ record.call = c
    <3>1. ledger[a] \in Seq(Records) /\ ledger'[a] = Append(ledger[a], record)
      BY <1>2, Typed DEF IInv, TypeOK
    <3>2. QED
      BY <2>1, <2>2, <3>1
  <2>4. ASSUME NEW i \in 1 .. Len(ledger[a]), ledger[a][i].call = c
        PROVE  i <= saved.state.child[a].known \/ i \in results[a] \/ HasHeard(a, i)
    <3>1. i \notin replay[a]
      BY <1>2, <2>4 DEF Replayable
    <3>2. process = "running"
      BY <1>2 DEF Collecting, Works
    <3>3. QED
      BY <1>2, <3>1, <3>2 DEF IInv, NothingIsMissed
  <2>5. ASSUME NEW b \in Analysts, b # a PROVE ~(Len(ledger'[b]) > Len(ledger[b]))
    BY <2>2, <2>5
  <2>6. QED
    BY <2>3, <2>4, <2>5 DEF HasHeard
<1>3. ASSUME IInv, StartFresh PROVE Asked
  <2>1. ASSUME NEW a \in Analysts PROVE ~(Len(ledger'[a]) > Len(ledger[a]))
    <3>1. Len(ledger[a]) \in Nat /\ ledger'[a] = <<>>
      BY <1>3, Typed DEF IInv, StartFresh, EmptyLedger
    <3>2. QED
      BY <3>1
  <2>2. QED
    BY <2>1
<1>4. IInv /\ [Next]_vars => Asked
  <2> HAVE IInv /\ [Next]_vars
  <2>1. ASSUME NEW a \in Analysts, NEW c \in Calls, Capture(a, c) \/ CaptureFails(a, c)
        PROVE  Asked
    <3>1. PICK status \in Statuses :
            ledger' = [ledger EXCEPT ![a] = Append(@, [call |-> c, status |-> status])]
      BY <2>1 DEF Capture, CaptureFails, Statuses
    <3>2. Collecting(a) /\ Replayable(a, c) = {}
      BY <2>1 DEF Capture, CaptureFails
    <3> HIDE DEF Asked
    <3>3. QED
      BY <1>2, <3>1, <3>2
  <2>2. ASSUME NEW a \in Analysts,
               \/ AnalystStarts(a) \/ AgentTurn(a) \/ ToolsTurn(a) \/ WrapUp(a)
               \/ PrefetchTurn(a) \/ File(a) \/ \E c \in Calls : Replay(a, c) \/ UnsavedIsText(a, c)
        PROVE  ledger' = ledger
    <3>1. CASE \/ AnalystStarts(a) \/ File(a)
               \/ \E c \in Calls : Replay(a, c) \/ UnsavedIsText(a, c)
      BY <3>1 DEF AnalystStarts, File, Replay, UnsavedIsText
    <3>2. CASE AgentTurn(a)
      BY <3>2, ChildStepWritesNothing, Zenon DEF AgentTurn
    <3>3. CASE ToolsTurn(a) \/ WrapUp(a) \/ PrefetchTurn(a)
      BY <3>3, ChildStepWritesNothing, Zenon DEF ToolsTurn, WrapUp, PrefetchTurn
    <3>4. QED
      BY <2>2, <3>1, <3>2, <3>3
  <2>3. ASSUME Debate \/ Plan \/ Trade \/ RiskDebate \/ Manage PROVE ledger' = ledger
    BY <2>3, ParentStepWritesNothing, Zenon DEF Debate, Plan, Trade, RiskDebate, Speak, Manage
  <2>4. ASSUME Resume \/ StreamEnds \/ Publish \/ ClearCheckpoint \/ Crash \/ UNCHANGED vars
        PROVE  ledger' = ledger
    BY <2>4 DEF Resume, StreamEnds, Publish, ClearCheckpoint, Crash, vars
  <2>5. ASSUME NEW p \in DOMAIN paper, Freeze(p) PROVE ledger' = ledger
    BY <2>5 DEF Freeze
  <2> HIDE DEF Asked
  <2>6. QED
    BY <1>1, <1>3, <2>1, <2>2, <2>3, <2>4, <2>5 DEF Next, Progress, Fault
<1>5. IInv /\ [Next]_vars => [Asked]_vars
  BY <1>4
<1>6. QED
  BY <1>5, Invariance, PTL DEF Spec, CapturesAreReplayed
==============================================================================
