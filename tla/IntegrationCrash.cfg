SPECIFICATION Spec
CONSTANTS
  Calls = {c1}
  Providers = {"openai", "custom"}
  Urls = {"mine"}
  FromV1 = FALSE
  NoFile = NoFile
PROPERTIES Reversible
