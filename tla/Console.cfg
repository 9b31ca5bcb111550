CONSTANTS
  MaxLoads = 3
  Doc <- MCDoc
  Shape <- MCShape
  Lists <- MCLists
  Forms <- MCForms
  KeyAuth = {"key"}
  TokenAuth = {"oauth", "other"}
  Api <- MCApi
  Endpoint <- MCEndpoint
  Path <- MCPath
  Endpoints <- MCEndpoints
  Consumes <- MCConsumes
  HasBasePath = {"user", "admin"}
  OddAuth = {"basicAuth"}
  Model <- MCModel
  Models <- MCModels
  Uses <- MCUses
  None = None
SPECIFICATION Spec
INVARIANTS ShownIffBuilt KeysAsEntered DeclarationsKept
PROPERTIES LoadsEnd
CHECK_DEADLOCK FALSE
