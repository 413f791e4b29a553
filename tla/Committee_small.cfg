SPECIFICATION CommitteeFairSpec
CONSTANTS
  MaxCandidates = 4
  Scores = {0, 2}
  Risks = {0, 1}
  Asked = {0, 2, 3, 5}
  Penalty = 10
INVARIANTS
  CommitteeTypeOK
  ExactlyK
  GroundStateIsExact
PROPERTIES
  Returns
CHECK_DEADLOCK FALSE
