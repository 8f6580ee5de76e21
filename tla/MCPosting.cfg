SPECIFICATION Spec
CONSTANTS
  None = None
  Today = 400
  MaxAmount = 5000000
  Similar <- MCSimilar
  Versions <- MCVersions
  Stored <- MCStored
  Reliability = 90
  MaxVersions = 2
  Postings <- MCPostings
  Shown = 5
  PerPage = 2
  MaxPages = 3
  MaxItems = 3
  MaxClosings = 2
  Catalogue <- MCCatalogue
  Queries <- MCQueries
  Profiles <- MCProfiles
  FeedSize = 2
  ShortlistSize = 3
  Widen = 2
  MaxSlips = 2
INVARIANTS PostingTypeOK FieldsAgree FlagsFound   ClassificationTogether
  NothingMissed  ListsAgree
CHECK_DEADLOCK FALSE
