\* Do the goroutines getStatus starts all end?
CONSTANTS
    n1 = n1
    n2 = n2
    n3 = n3
    Nodes <- MCNodes
SPECIFICATION StatusSpec
PROPERTY NoGoroutineLeak
