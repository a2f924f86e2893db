\* One App, edited, crashing and sent actions: safety, refinement, liveness.
CONSTANTS
  Apps = {"standup"}
  Refs <- MCRefs
  Creds <- MCCreds
  Revs <- MCRevs
  Docs <- MCDocs
  Gens = {"g1", "g2"}
  None = None
  MaxEdits = 2
  MaxFaults = 2
  MaxQueued = 1
SPECIFICATION Spec
INVARIANTS
  TypeOK
  OneGeneration
  SlotIsLive
  NoLostEdit
  StatusHonest
  ActionRouting
PROPERTIES
  ImplementsLifecycle
  Settles
\* With the edit budget spent and every App settled there is nothing left to do.
CHECK_DEADLOCK FALSE
