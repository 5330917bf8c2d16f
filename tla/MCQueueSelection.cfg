SPECIFICATION Spec
CONSTANTS
  Types <- MCTypes
  Requests <- MCRequests
  Hardware <- MCHardware
  Devices = {"one", "other"}
  NoId = NoId
  MaxRequests = 2
INVARIANTS ChosenServe CreatesLegal FailsOnlyIfUnserved LookupsServe
