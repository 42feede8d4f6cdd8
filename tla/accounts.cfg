CONSTANTS
    None = None
    Request = {r1, r2, r3, r4}
    Name = {n1, n2}
    Uuid = {u1, u2}
    Kind = {"webhook", "token"}
SYMMETRY Alike
SPECIFICATION Spec
INVARIANTS ChildrenFirst HasMaster DeletedForGood
PROPERTIES RecordsFirst RegisteredWhole NoForeignDeletion
CHECK_DEADLOCK FALSE
