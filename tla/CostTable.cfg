SPECIFICATION TableSpec
CONSTANTS
    stripes_num = 5
    Cost <- MCCost
INVARIANTS AnswersRight
