CONSTANTS
  Alphabet = {"a", "b", "c"}
  MaxPattern = 3
  MaxText = 5
  None = None
SPECIFICATION Spec
INVARIANT BmCorrect
INVARIANT KmpCorrect
