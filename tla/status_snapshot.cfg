\* Status over three members with every mix of probe outcomes.
CONSTANTS
    n1 = n1
    n2 = n2
    n3 = n3
    Nodes <- MCNodes
SPECIFICATION StatusSpec
INVARIANT StatusTypeOK
INVARIANT CompleteSnapshot
