CONSTANTS
  EDATASIZE = 3
  Widths = {5, 6, 7, 8}
SPECIFICATION Spec
INVARIANTS
  SumsExact
  QuotientsExact
  PowersExact
  ShiftsExact
  FieldsExact
  StreamsAgree
  OutcomesExact
