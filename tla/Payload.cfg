\* Budgets around the fixed part and around the size of a buffer for four
\* records.
SPECIFICATION Spec
CONSTANTS
    Budgets <- MCBudgets
    Reserved = 8
    BufferBytes = 264
INVARIANTS
    TypeOK
    Decodable
    ImageFits
    RingsHaveRoom
