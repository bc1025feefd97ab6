SPECIFICATION Spec
CONSTANTS
  Device = {self, d1}
  Self = self
  Type = {sink, source}
  OwnType = {sink}
  SinkType = sink
  SourceType = source
  URI = {"", "u"}
  EmptyURI = ""
  SelfURI = "u"
  Absent = Absent
  NoURI = NoURI
  MaxRestarts = 2
CONSTRAINT SelfAtRest
INVARIANTS TypeOK IndexAgrees MappedRight
PROPERTIES SweepExact HealthPolledRight ImplementsOrder
