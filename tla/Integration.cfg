SPECIFICATION Spec
CONSTANTS
  Calls = {c1}
  Providers = {"openai", "custom"}
  Urls = {"mine"}
  FromV1 = TRUE
  NoFile = NoFile
INVARIANTS IntegrationInv DisableRestores NoSpuriousDrift BackupIsTheUsers
PROPERTIES WorksAsSwitch
