SPECIFICATION DeliverySpec
CONSTANTS
  Deployments <- MCDeployments
  Index <- MCIndex
  Spelling <- MCSpelling
  Words <- MCWords
  LowerCase <- MCLowerCase
  Keywords = {"token", "password", "dsn", "secret"}
  ServerNumbers <- MCServerNumbers
  Value <- MCValue
  Replica = {r1, r2, r3}
  Migrations = 2
  Drivers = {"postgres", "mysql"}
  MaxFaults = 2
  Char <- MCChar
  Letter <- MCLetter
  Configured <- MCConfigured
  Keys <- MCKeys
  MaxValue = 1
  NoValue = NoValue
  Spelled <- MCSpelled
INVARIANTS
  OverridesAreExact
  SecretsAreMasked
  ServesOnFullSchema
  RecordsAreTrue
PROPERTIES
  OwnStores
  SoundDeploymentGetsUp
