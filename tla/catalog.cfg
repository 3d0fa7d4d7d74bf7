SPECIFICATION Spec
CONSTANTS
  AllowlistEnvs <- MCAllowlistEnvs
  OptInEnvs <- MCOptInEnvs
  Texts <- MCTexts
INVARIANTS FiltersCompose NothingElseRefused AllowlistFirst RunsAreValidated CapturesAreOfDevices
