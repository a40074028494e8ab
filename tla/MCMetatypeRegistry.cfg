\* Seven identifiers: three built-in metatypes and at least four of the
\* program's, so that the registry fills up in both construction orders.
SPECIFICATION Spec
CONSTANT MaxTypeId = 7
INVARIANTS
  RegistryInjective
  ReissueExactlyWhenLate
PROPERTIES
  GenerateReturns
  AllocatorSpec
