CONSTANTS
  Workspaces = {"w1", "w2", "w3"}
  Words = {"Acme", "Beta", "Long"}
  Fitting <- MCFitting
  Emails = {"ann", "bob", "new"}
  Teams = {"t1"}
  Databases <- MCDatabases
  Goals = {0, 2, 6, 13, 16, 21, 30}
  Newcomer <- MCNewcomer
SPECIFICATION Spec
INVARIANTS
  BackfillsMakeRoom
  RestsOnARevision
  HeadServesModels
  OldRowsObeyNewRules
