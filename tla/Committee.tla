------------------------------ MODULE Committee ------------------------------
(***************************************************************************)
(* select_committee: some of the candidates, and one of them as leader.    *)
(*                                                                         *)
(* The choice is written as a QUBO (the energy of a set of candidates is   *)
(* lowest for the wanted set) and given to an annealer, which is external  *)
(* and may return any set, or raise.  A set of another size is repaired    *)
(* one candidate at a time.  With one wanted and no risks this is also the *)
(* choice of a representative (formulate_qubo_problem).  Candidates are    *)
(* positions of the list; scores and risks are integers, and the names     *)
(* that break ties are in the order of the list.                           *)
(***************************************************************************)
EXTENDS Integers, FiniteSets, FiniteSetsExt

CONSTANTS
  MaxCandidates, \* a bound on the number of candidates
  Scores,        \* effective scores, of calculate_effective_score
  Risks,         \* total_penalty of a pair, of build_committee_pairwise_features
  Asked,         \* values of the argument committee_k
  Penalty        \* penalty_coefficient, 1000.0 in the code

ASSUME CommitteeAssumption ==
  /\ MaxCandidates \in Nat
  /\ Scores \subseteq Int /\ Risks \subseteq Nat /\ Asked \subseteq Int
  /\ Penalty \in Nat

VARIABLES
  fallback, \* ablation.use_committee_fallback
  size,     \* len(nodes)
  score,    \* effective_scores
  risk,     \* pairwise_features
  wanted,   \* committee_k
  pc,       \* what select_committee does next
  selected, \* selected_indices
  leader    \* primary_leader; 0 for None

problem == <<fallback, size, score, risk>>
committeeVars == <<problem, wanted, pc, selected, leader>>

Positions == 1 .. size
Pairs(S) == {p \in S \X S : p[1] < p[2]}

CommitteeInit ==
  /\ fallback \in BOOLEAN
  /\ size \in 0 .. MaxCandidates
  /\ score \in [Positions -> Scores]
  /\ risk \in [Pairs(Positions) -> Risks]
  /\ wanted \in Asked
  /\ pc = "formulate"
  /\ selected = {}
  /\ leader = 0

-----------------------------------------------------------------------------
(* The QUBO *)

Total(f(_), S) == MapThenSumSet(f, S)

\* (A bug for comparison: the weight of the number wanted is dropped.)
BugLinear(i) == - Penalty - score[i]

Linear(i) == Penalty * (1 - 2 * wanted) - score[i]
Quadratic(p) == 2 * Penalty + risk[p]
Energy(S) == Total(Linear, S) + Total(Quadratic, Pairs(S))

\* The objective the energy stands for: risks less scores, and a penalty for a
\* size other than the one wanted.
Square(x) == x * x
Objective(S) ==
  Total(LAMBDA p : risk[p], Pairs(S)) - Total(LAMBDA i : score[i], S)
    + Penalty * Square(Cardinality(S) - wanted)

\* select_committee_exact goes through all sets of the size.
ExactObjective == LET best == {Objective(S) : S \in kSubset(wanted, Positions)}
                  IN  CHOOSE x \in best : \A y \in best : x <= y

-----------------------------------------------------------------------------
(* simulate_quantum_annealer *)

Highest(S) == {i \in S : \A j \in S : score[j] <= score[i]}
First(S, i) == i \in S /\ \A j \in S : i <= j

\* sorted by (-linear, index), the first ones.
Before(i, j) == score[i] < score[j] \/ (score[i] = score[j] /\ i < j)
Ranked(S) ==
  /\ S \in kSubset(wanted, Positions)
  /\ \A i \in S, j \in Positions \ S : Before(i, j)

NoCandidates ==
  /\ pc = "formulate"
  /\ size = 0
  /\ pc' = "done"
  /\ UNCHANGED <<problem, wanted, selected, leader>>

\* (A bug for comparison: the number asked for is not cut to the candidates.)
BugFormulate ==
  /\ pc = "formulate"
  /\ size > 0
  /\ wanted' = IF wanted < 1 THEN 1 ELSE wanted
  /\ pc' = "solve"
  /\ UNCHANGED <<problem, selected, leader>>

Formulate ==
  /\ pc = "formulate"
  /\ size > 0
  /\ wanted' = IF wanted < 1 THEN 1 ELSE IF wanted > size THEN size ELSE wanted
  /\ pc' = "solve"
  /\ UNCHANGED <<problem, selected, leader>>

Solved(S) ==
  /\ pc = "solve"
  /\ selected' = S
  /\ pc' = "check"
  /\ UNCHANGED <<problem, wanted, leader>>

SolveAlone == size = 1 /\ Solved({1})

\* No solver (an ablation), or the sampler raises and a committee is wanted.
SolveByRank(S) == size > 1 /\ Ranked(S) /\ Solved(S)

\* (A bug for comparison: positions are counted from 0.)
BugSolveSingly(i) == size > 1 /\ wanted = 1 /\ First(Highest(Positions), i) /\ Solved({i - 1})

\* The sampler raises and one is wanted: the energies of single candidates.
SolveSingly(i) == size > 1 /\ wanted = 1 /\ First(Highest(Positions), i) /\ Solved({i})

\* What the sampler returns is taken as it is ...
SampleCommittee(S) == size > 1 /\ wanted # 1 /\ Solved(S)

\* ... unless one candidate is wanted: then the best of those it returned, or
\* of all when it returned none.
SampleOne(S, i) ==
  /\ size > 1 /\ wanted = 1
  /\ First(Highest(IF S = {} THEN Positions ELSE S), i)
  /\ Solved({i})

-----------------------------------------------------------------------------
(* The repair and the leader *)

\* (A bug for comparison: committees that are too small are not repaired.)
BugCheckCount ==
  /\ pc = "check"
  /\ pc' = IF Cardinality(selected) > wanted /\ fallback THEN "repair" ELSE "elect"
  /\ UNCHANGED <<problem, wanted, selected, leader>>

CheckCount ==
  /\ pc = "check"
  /\ pc' = IF Cardinality(selected) # wanted /\ fallback THEN "repair" ELSE "elect"
  /\ UNCHANGED <<problem, wanted, selected, leader>>

\* min of (energy of the repaired set, -score, index).
Better(S, i, T, j) ==
  \/ Energy(S) < Energy(T)
  \/ /\ Energy(S) = Energy(T)
     /\ score[i] > score[j] \/ (score[i] = score[j] /\ i <= j)

RemoveOne(i) ==
  /\ pc = "repair"
  /\ Cardinality(selected) > wanted
  /\ \A j \in selected : Better(selected \ {i}, i, selected \ {j}, j)
  /\ selected' = selected \ {i}
  /\ UNCHANGED <<problem, wanted, pc, leader>>

AddOne(i) ==
  /\ pc = "repair"
  /\ Cardinality(selected) < wanted
  /\ \A j \in Positions \ selected :
       Better(selected \cup {i}, i, selected \cup {j}, j)
  /\ selected' = selected \cup {i}
  /\ UNCHANGED <<problem, wanted, pc, leader>>

\* The loops end at the number wanted, or when there is nobody left to add.
EndRepair ==
  /\ pc = "repair"
  /\ ~ Cardinality(selected) > wanted
  /\ Cardinality(selected) = wanted \/ selected = Positions
  /\ pc' = "elect"
  /\ UNCHANGED <<problem, wanted, selected, leader>>

\* derive_primary_leader: nobody of an empty committee; the highest score,
\* the last name of these ...
ElectNobody ==
  /\ pc = "elect"
  /\ selected = {}
  /\ pc' = "done"
  /\ UNCHANGED <<problem, wanted, selected, leader>>

ElectHighest(i) ==
  /\ pc = "elect"
  /\ i \in Highest(selected) /\ \A j \in Highest(selected) : j <= i
  /\ leader' = i
  /\ pc' = "done"
  /\ UNCHANGED <<problem, wanted, selected>>

\* ... or the lowest hash of the VRF output and the key: any member.
ElectByHash(i) ==
  /\ pc = "elect"
  /\ i \in selected
  /\ leader' = i
  /\ pc' = "done"
  /\ UNCHANGED <<problem, wanted, selected>>

Solve ==
  \/ SolveAlone
  \/ \E i \in Positions : SolveSingly(i)
  \/ \E S \in SUBSET Positions :
       SolveByRank(S) \/ SampleCommittee(S) \/ \E i \in Positions : SampleOne(S, i)

Repair ==
  \/ \E i \in selected : RemoveOne(i)
  \/ \E i \in Positions \ selected : AddOne(i)
  \/ EndRepair

CommitteeNext ==
  \/ NoCandidates \/ Formulate \/ Solve \/ CheckCount \/ Repair
  \/ ElectNobody \/ \E i \in selected : ElectHighest(i) \/ ElectByHash(i)

CommitteeSpec == CommitteeInit /\ [][CommitteeNext]_committeeVars

\* select_committee is called and runs to its end.
CommitteeFairSpec == CommitteeSpec /\ WF_committeeVars(CommitteeNext)

-----------------------------------------------------------------------------
(* Properties *)

\* The types of the variables of select_committee.
CommitteeTypeOK ==
  /\ fallback \in BOOLEAN
  /\ size \in 0 .. MaxCandidates
  /\ score \in [Positions -> Scores]
  /\ risk \in [Pairs(Positions) -> Risks]
  /\ wanted \in Int
  /\ pc \in {"formulate", "solve", "check", "repair", "elect", "done"}
  /\ selected \subseteq Positions
  /\ leader \in 0 .. size

\* Whatever the sampler returns and whatever number was asked for, the
\* committee has the size wanted, between 1 and the number of candidates; one
\* representative is found even without the repair, so that the last fallback
\* of select_representative_node never runs.
ExactlyK ==
  pc = "done" /\ size > 0 =>
    /\ wanted \in 1 .. size
    /\ fallback \/ wanted = 1 => Cardinality(selected) = wanted /\ leader \in selected

\* Where the problem has been formulated, the sets of lowest energy are the
\* committees of select_committee_exact: the penalty outweighs scores and risks.
GroundStateIsExact ==
  pc = "solve" =>
    LET low == {S \in SUBSET Positions : \A T \in SUBSET Positions : Energy(S) <= Energy(T)}
    IN  low = {S \in kSubset(wanted, Positions) : Objective(S) = ExactObjective}

\* The call returns, with a leader whenever there is a candidate.
Returns == <>(pc = "done" /\ (size > 0 /\ fallback => leader # 0))
=============================================================================
