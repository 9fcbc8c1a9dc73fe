SPECIFICATION Spec
CONSTANT H = 3
VIEW View
INVARIANT Rv64mDivision
