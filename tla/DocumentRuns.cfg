\* Two workers, two jobs of one project.
CONSTANTS
  Workers = {w1, w2}
  Jobs = {1, 2}
  Requests <- SomeRequests
  Prior <- SomePrior
  MaxRender = 2
  MaxFaults = 1
SYMMETRY Symmetry
SPECIFICATION Spec
INVARIANTS
  TypeOK
  RowsNameUploads
  PictureIsOwn
  InputsAreOwn
  OneRowPerDocument
  BasesAreLatest
  NothingLeftBehind
PROPERTIES
  RegistrationIsAtomic
