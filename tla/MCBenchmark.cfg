SPECIFICATION BSpec
CONSTANTS
  Null = Null
  NotAnObject = NotAnObject
  Malformed = Malformed
  Structured = Structured
  Blank = Blank
  Unsealed = Unsealed
  AsWritten = AsWritten
  Sealer = {"first", "second"}
  MaxCrashes = 1
  MaxEdits = 3
  Rewrites <- MCRewrites
  Leaks <- MCLeaks
  EditedItems <- MCEditedItems
  MaxSameAction = 4
  Telling = {"ten"}
  Catalogue <- MCCatalogue
  Ratios <- MCRatios
  Batches <- MCBatches
  Reviews <- MCReviews
  Revisions <- MCRevisions
  HumanDecisions <- MCHumanDecisions
  Arguments <- MCArguments
  Order <- MCOrder
  Named <- MCNamed
INVARIANTS
  SealedByOneRun
  LabelsApproved
  HarnessFaithful
PROPERTIES
  ImplementsSealedOnce
  PreparedIsSealed
CHECK_DEADLOCK FALSE
