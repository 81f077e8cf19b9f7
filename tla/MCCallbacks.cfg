SPECIFICATION Spec
CONSTANTS
  Calls = {c1, c2}
  MAX = 3
  Lengths = {0, 2, 3, 4}
  Keys <- MCKeys
  CRITICAL_REGISTRY_PREFIXES <- MCPrefixes
  Rights = {read, query}
  DANGEROUS_PROCESS_MASK = {read}
SYMMETRY Symmetry
INVARIANTS
  TypeOK NamesGivenBack FieldsFaithful GateExact CutsCountedOnce
