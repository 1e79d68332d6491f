SPECIFICATION Spec
CONSTANTS
  Visits <- MCVisits
  Pages <- MCPages
  Texts <- MCTexts
  NewKeys <- MCNewKeys
INVARIANTS TypeOK OwnWritesSeen ShapesMatch SecretsNotCached WaitsEnd
