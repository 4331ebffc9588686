\* One relay's or motor's form: every edit of it, every preview, two runs.
SPECIFICATION Spec
CONSTANTS
  MaxBurstEvents = 100
  MinuteMs = 60000
  FirstForms <- MCFirstForms
  Edits <- MCEdits
  StrokeMs <- MCStrokeMs
  Duty <- MCDuty
  RampMs = 500
  MicroHoldMs = 3000
  WaveSteps = 20
  PreviewSec = 180
  MaxSegments = 5000
  SeedBits = 2
  MaxRuns = 2
  MaxReports = 2
  MaxLost = 1
  RunForms <- MCRunForms
  RunEdits <- MCRunEdits
INVARIANTS
  SentIsShown
  
  PreviewTrue
  OneRunShown
